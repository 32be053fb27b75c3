---------------------------- MODULE SvmExecutor ----------------------------
(***************************************************************************)
(* The edge IR executor: Svm::execute and its opcode handlers              *)
(* (src/eyeflow-svm-node/src/svm.rs).  One behaviour is one slice          *)
(* execution: an IR chosen from Programs is run from ip = 0 until RETURN,  *)
(* the end of the order, or an unrecovered error.                          *)
(*                                                                         *)
(* Data is abstracted to what control depends on: a JSON value is one of   *)
(* Vals, its truthiness class ("falsy" is false/0/""/[]/{}, "truthy" a     *)
(* true scalar or non-empty array, "obj" a non-empty object).  Every       *)
(* external call (HTTP, MCP, LLM service) may fail or return any value;    *)
(* the fallback engine turns a failure into a value or an abort.  The      *)
(* handlers are sequential: each one is one atomic step.                   *)
(*                                                                         *)
(* CALL_SERVICE and LLM_CALL first resolve the instruction's               *)
(* credentials_vault_path through the shared VaultClient (its TTL cache    *)
(* outlives the handler); the clock and the KV store's secret rotations    *)
(* are environment steps.  They fall between two handler steps, i.e.      *)
(* during the awaits of the next handler: its KV round trip starts when    *)
(* the previous handler ended (since) and takes up to KvTimeout ticks.     *)
(***************************************************************************)
EXTENDS Naturals, Sequences, FiniteSets

CONSTANTS
    Programs,     \* IR slices: [instrs: [Idx -> Instr], order: Seq(Idx)]
    Regs,         \* register ids the programs use
    DispatchCap,  \* dispatch counts saturate here (backward jumps loop)
    VaultPaths,   \* the credentials_vault_path values the programs name
    NoPath,       \* an empty credentials_vault_path
    MaxTime,      \* bound on clock ticks in a behaviour
    MaxVersion,   \* bound on secret rotations per path
    KvTimeout,    \* the reqwest client's 30 s timeout, in ticks (svm.rs 68-70)
    Ttl, KvConfigured, EnvSecret, EnvRaw   \* VaultClient's

Vault == INSTANCE VaultClient
SeqX  == INSTANCE SequencesExt

Vals  == {"null", "falsy", "truthy", "obj"}
Undef == "undef"            \* a register never written in this slice

VARIABLES
    ir,          \* the slice being executed (fixed for the behaviour)
    ip,          \* instruction pointer into ir.order, 0-based as in svm.rs
    regs,        \* the register file: Regs -> Vals \cup {Undef}
    status,      \* "running" | "done" | "failed"
    audit,       \* events appended to the AuditChain by this slice
    dispatched,  \* history: handler invocations per instruction index
    now,         \* the clock (Instant::now) in ticks
    rotated,     \* the KV store: path -> ticks at which versions 1.. were written
    cache,       \* the VaultClient's TTL cache: path -> [ver, exp]
    fetches,     \* history: every fetch_secret, with its answer
    retried,     \* history: per instruction, its last retry_backoff run (if any)
    since        \* the clock when the executor's previous handler returned

vaultVars == <<now, rotated, cache, fetches>>
vars == <<ir, ip, regs, status, audit, dispatched, now, rotated, cache, fetches,
          retried, since>>

KnownOps == {"LOAD_RESOURCE", "STORE_MEMORY", "CALL_SERVICE", "CALL_ACTION",
             "CALL_MCP", "LLM_CALL", "TRANSFORM", "VALIDATE", "AGGREGATE",
             "FILTER", "BRANCH", "JUMP", "LOOP", "PARALLEL_SPAWN",
             "PARALLEL_MERGE", "RETURN"}
AuditedOps == {"LOAD_RESOURCE", "CALL_SERVICE", "CALL_ACTION", "LLM_CALL"}
KnownStrategies == {"FAIL_SAFE", "DEGRADED_MODE", "RETRY_WITH_BACKOFF",
                    "LLM_REASONING", "SUPERVISED_RECOMPILE"}

OrderLen == Len(ir.order)
At(k)      == ir.order[k + 1]                 \* order[k], 0-based
Present(k) == At(k) \in DOMAIN ir.instrs
Instr(k)   == ir.instrs[At(k)]

\* IrOpcode::try_from(instr.opcode).unwrap_or(IrOpcode::Return)
OpOf(ins) == IF ins.op \in KnownOps THEN ins.op ELSE "RETURN"

\* Svm::is_truthy
Truthy(v) == v \in {"truthy", "obj"}

\* Svm::read_src(instr, regs, 0): Undef stands for the Err case
ReadSrc(ins) == IF Len(ins.src) = 0 THEN Undef ELSE regs[ins.src[1]]

\* resolve_ip falling back to the start of the order for an absent index
ResolveIpFromStart(t) ==
    LET hits == {k \in 0 .. OrderLen - 1 : At(k) = t}
    IN  IF hits = {} THEN 0
        ELSE CHOOSE k \in hits : \A j \in hits : k <= j

\* Svm::resolve_ip: first position of the index in the order, else the end
ResolveIp(t) ==
    LET hits == {k \in 0 .. OrderLen - 1 : At(k) = t}
    IN  IF hits = {} THEN OrderLen
        ELSE CHOOSE k \in hits : \A j \in hits : k <= j

\* Svm::eval_predicate over the convergence register: the outcomes it
\* can have on values of the register's class and the expected value's.
\* Values of different classes differ; two values of one class other than
\* null may or may not be equal.  The numeric comparisons ("lt" for <, ...)
\* hold only if both sides are numbers, which only the falsy (0) and
\* truthy classes contain.  An unknown operator, and op "none" for an
\* absent predicate, evaluates false.
PredOutcomes(pred) ==
    LET v    == IF regs[pred.reg] = Undef THEN "null" ELSE regs[pred.reg]
        same == IF v # pred.val THEN {FALSE}
                ELSE IF v = "null" THEN {TRUE} ELSE BOOLEAN
    IN  CASE pred.op = "eq"     -> same
          [] pred.op = "ne"     -> {~b : b \in same}
          [] pred.op = "truthy" -> {Truthy(v)}
          [] pred.op = "exists" -> {v # "null"}
          [] pred.op \in {"lt", "le", "gt", "ge"} ->
                IF {v, pred.val} \subseteq {"falsy", "truthy"} THEN BOOLEAN ELSE {FALSE}
          [] OTHER              -> {FALSE}

(***************************************************************************)
(* External calls and the fallback engine.                                 *)
(* Raw(ins): the values the exec_* handler may return and whether it may   *)
(* fail.  ins.dm is the dispatch_metadata: "none", "noEndpoint" (present,  *)
(* empty endpoint_url) or "endpoint".                                      *)
(***************************************************************************)
Raw(ins) ==
    LET any  == [ok |-> Vals, err |-> TRUE]     \* a reply or an error
        fail == [ok |-> {}, err |-> TRUE]       \* always an error
    IN  CASE OpOf(ins) = "LOAD_RESOURCE" ->
                IF ins.dm = "endpoint" THEN any
                ELSE [ok |-> {ins.operand}, err |-> FALSE]
          [] OpOf(ins) = "CALL_ACTION" ->
                IF ins.dm = "endpoint" THEN any
                ELSE [ok |-> {"null"}, err |-> FALSE]
          [] OpOf(ins) = "LLM_CALL" ->
                IF ins.dm = "none" THEN fail ELSE any
          \* without an endpoint, HTTP fails, GRPC/WASM/NATIVE/DOCKER give
          \* null and the LLM and EMBEDDED_JS formats call central's LLM
          [] OpOf(ins) = "CALL_SERVICE" ->
                IF ins.dm = "none" THEN fail ELSE any
          [] OTHER ->                        \* CALL_MCP
                IF ins.dm = "endpoint" THEN any ELSE fail

\* FallbackStrategy::from_str: unknown strategies are FAIL_SAFE
Strategy(ins) ==
    IF ins.strategy \in KnownStrategies THEN ins.strategy ELSE "FAIL_SAFE"

\* FallbackEngine::apply_simple: the value a non-retry strategy recovers
Recovered(ins) ==
    CASE Strategy(ins) = "DEGRADED_MODE" -> {"null"}
      [] Strategy(ins) = "LLM_REASONING" -> Vals  \* central's result or safe_default
      [] OTHER                           -> {ins.safe}

\* cfg.max_attempts.max(1)
MaxTries(ins) == IF ins.attempts < 1 THEN 1 ELSE ins.attempts

\* the sleep before attempt a > 1: base_ms * (1u64 << (a - 2).min(6))
BackoffWait(ins, a) == ins.base * 2^(IF a - 2 < 6 THEN a - 2 ELSE 6)

\* a retry loop that runs one attempt past max
RECURSIVE RetryBackoffOneMore(_, _, _, _)
RetryBackoffOneMore(ins, k, a, w) ==
    LET slept == IF a > 1 THEN w + BackoffWait(ins, a) ELSE w
    IN  IF a > k THEN [ok |-> TRUE, tries |-> a, wait |-> slept]
        ELSE IF a >= MaxTries(ins) + 1 THEN [ok |-> FALSE, tries |-> a, wait |-> slept]
        ELSE RetryBackoffOneMore(ins, k, a + 1, slept)

\* Svm::retry_backoff from attempt a, having slept w, when the first k
\* calls of f fail: for attempt in 1..=max, sleep (after the first), call
\* f, return on Ok; the last Err is returned
RECURSIVE RetryBackoff(_, _, _, _)
RetryBackoff(ins, k, a, w) ==
    LET slept == IF a > 1 THEN w + BackoffWait(ins, a) ELSE w
    IN  IF a > k THEN [ok |-> TRUE, tries |-> a, wait |-> slept]
        ELSE IF a >= MaxTries(ins) THEN [ok |-> FALSE, tries |-> a, wait |-> slept]
        ELSE RetryBackoff(ins, k, a + 1, slept)

\* how many leading calls may fail: none for a handler that cannot err,
\* all for one that cannot succeed
FailCounts(ins) ==
    IF ~Raw(ins).err THEN {0}
    ELSE IF Raw(ins).ok = {} THEN {MaxTries(ins)}
    ELSE 0 .. MaxTries(ins)

\* *_with_fallback: RETRY_WITH_BACKOFF retries in place and aborts when
\* every attempt failed; any other strategy calls once and recovers a
\* value.  An outcome keeps the attempts made and the time slept.
Outcomes(ins) ==
    IF Strategy(ins) = "RETRY_WITH_BACKOFF"
    THEN UNION {{[ok |-> r.ok, val |-> v, tries |-> r.tries, wait |-> r.wait] :
                     v \in IF r.ok THEN Raw(ins).ok ELSE {"null"}} :
                 r \in {RetryBackoff(ins, k, 1, 0) : k \in FailCounts(ins)}}
    ELSE {[ok |-> TRUE, val |-> v, tries |-> 1, wait |-> 0] :
             v \in Raw(ins).ok \cup (IF Raw(ins).err THEN Recovered(ins) ELSE {})}

\* the history with the retry_backoff run of instruction idx recorded
RetryLog(log, ins, idx, o) ==
    IF Strategy(ins) = "RETRY_WITH_BACKOFF"
    THEN [log EXCEPT ![idx] = {[m |-> ins.attempts, base |-> ins.base,
                               tries |-> o.tries, wait |-> o.wait, ok |-> o.ok]}]
    ELSE log

(***************************************************************************)
(* PARALLEL_SPAWN's forward scan: the matching MERGE (or "none") and the   *)
(* LLM_CALL indices at any depth before it.                                *)
(***************************************************************************)
RECURSIVE SpawnScan(_, _, _)
SpawnScan(k, depth, llm) ==
    IF k >= OrderLen THEN [found |-> FALSE, merge |-> k, llm |-> llm]
    ELSE IF ~Present(k) THEN SpawnScan(k + 1, depth, llm)
    ELSE CASE OpOf(Instr(k)) = "PARALLEL_SPAWN" ->
                 SpawnScan(k + 1, depth + 1, llm)
           [] OpOf(Instr(k)) = "PARALLEL_MERGE" ->
                 IF depth = 1 THEN [found |-> TRUE, merge |-> k, llm |-> llm]
                 ELSE SpawnScan(k + 1, depth - 1, llm)
           [] OpOf(Instr(k)) = "LLM_CALL" ->
                 SpawnScan(k + 1, depth, Append(llm, At(k)))
           [] OTHER -> SpawnScan(k + 1, depth, llm)

\* resuming right after the PARALLEL_SPAWN, inside the region it ran
SpawnNextAfterSpawn(scan) == ip + 1

\* merge_ip starts at ip + 1 and keeps it when no MERGE matches
SpawnNext(scan) == (IF scan.found THEN scan.merge ELSE ip + 1) + 1

\* the children's results bound to their dests in collected order
RECURSIVE Bind(_, _, _)
Bind(r, dests, vs) ==
    IF dests = <<>> THEN r
    ELSE Bind([r EXCEPT ![Head(dests)] = Head(vs)], Tail(dests), Tail(vs))

(***************************************************************************)
(* LOOP's inline scan (svm.rs 259-296): "exit" or "error".  The body       *)
(* instruction at order[body_ip] is looked up and tested for RETURN only.  *)
(* Nothing is written, so the predicate has one outcome, holds, throughout.*)
(***************************************************************************)
\* lo.max_iterations.max(1)
MaxIter(lo) == IF lo.max < 1 THEN 1 ELSE lo.max

RECURSIVE LoopScan(_, _, _, _, _, _)
LoopScan(lo, bodyIp, exitIp, iter, k, holds) ==
    IF iter >= MaxIter(lo) THEN "exit"
    ELSE IF holds THEN "exit"
    ELSE IF k >= OrderLen \/ ~Present(k) THEN "error"
    ELSE IF OpOf(Instr(k)) = "RETURN" THEN "exit"
    ELSE IF k + 1 >= exitIp THEN LoopScan(lo, bodyIp, exitIp, iter + 1, bodyIp, holds)
    ELSE LoopScan(lo, bodyIp, exitIp, iter, k + 1, holds)

-----------------------------------------------------------------------------
Init ==
    /\ ir \in Programs
    /\ ip = 0
    /\ regs = [r \in Regs |-> Undef]
    /\ status = "running"
    /\ audit = <<>>
    /\ dispatched = [i \in DOMAIN ir.instrs |-> 0]
    /\ now = 0
    /\ rotated = [p \in VaultPaths |-> <<>>]
    /\ cache = <<>>                  \* HashMap::new(): the empty function
    /\ fetches = <<>>
    /\ retried = [i \in DOMAIN ir.instrs |-> {}]
    /\ since = 0

Running == status = "running" /\ ip < OrderLen /\ Present(ip)
Cur     == Instr(ip)
Count(d, idxs) ==
    [i \in DOMAIN d |->
        IF i \in idxs /\ d[i] < DispatchCap THEN d[i] + 1 ELSE d[i]]
Dispatch == dispatched' = Count(dispatched, {At(ip)})

\* while ip < order.len(): the order is exhausted
OrderExhausted ==
    /\ status = "running" /\ ip >= OrderLen
    /\ status' = "done"
    /\ UNCHANGED <<ir, ip, regs, audit, dispatched, vaultVars, retried>>

\* instructions.get(&idx).ok_or_else(missing instruction)?
MissingInstruction ==
    /\ status = "running" /\ ip < OrderLen /\ ~Present(ip)
    /\ status' = "failed"
    /\ UNCHANGED <<ir, ip, regs, audit, dispatched, vaultVars, retried>>

(***************************************************************************)
(* Credential injection (svm.rs 553-581).  A fetch is logged with the     *)
(* instant it looked at the cache (at), the instant it answered (done),    *)
(* the answer and whether it went upstream to the KV store.  st.t is the   *)
(* clock as the handler's fetches proceed; a choice of round-trip length   *)
(* d or KV reply that the fetch cannot have leaves st.ok false.            *)
(***************************************************************************)
VaultState == [cache |-> cache, fetches |-> fetches, t |-> since, ok |-> TRUE]

\* the versions a KV read in flight from t0 to t1 may return: every one
\* that was current at some instant of the round trip
Current(p, t0, t1) ==
    {v \in 0 .. Len(rotated[p]) :
        /\ v = 0 \/ rotated[p][v] <= t1
        /\ v = Len(rotated[p]) \/ rotated[p][v + 1] >= t0}

\* the round-trip lengths and KV replies (an error or timeout, or a
\* version) an instruction's fetch may meet within this handler
Choices(ins) ==
    IF ins.vpath = NoPath THEN {[d |-> 0, reply |-> Vault!KvFail]}
    ELSE [d: 0 .. IF now - since < KvTimeout THEN now - since ELSE KvTimeout,
          reply: {Vault!KvFail} \cup Current(ins.vpath, since, now)]

RECURSIVE ChoiceSeqs(_)
\* one choice for each instruction of a sequence
ChoiceSeqs(ks) ==
    IF ks = <<>> THEN {<<>>}
    ELSE {<<c>> \o rest : c \in Choices(ir.instrs[Head(ks)]), rest \in ChoiceSeqs(Tail(ks))}

\* Svm::inject_vault_credentials: nothing for an empty path; otherwise lock
\* the vault and fetch_secret (a failure only logs, the call goes on).
\* Only a request that goes upstream takes time (d ticks).
Inject(st, ins, d, reply) ==
    IF ins.vpath = NoPath THEN st
    ELSE LET p  == ins.vpath
             t1 == st.t + d
             r  == Vault!FetchSecret(st.cache, p, st.t, t1, reply)
             t2 == IF r.upstream THEN t1 ELSE st.t
         IN  [cache   |-> r.cache,
              t       |-> t2,
              ok      |-> /\ st.ok /\ (r.upstream \/ d = 0)
                          /\ reply = Vault!KvFail \/ (r.upstream /\ reply \in Current(p, st.t, t1)),
              fetches |-> Append(st.fetches,
                            [path |-> p, at |-> st.t, done |-> t2, upstream |-> r.upstream,
                             ok |-> r.res.ok, src |-> r.res.src, ver |-> r.res.ver])]

\* the handler's fetches are possible and all over by now
Feasible(st) == st.ok /\ st.t <= now

\* children that each resolve through a copy of the vault taken at the join
SpawnInjectsCloned(st, calls) ==
    SeqX!FoldLeft(LAMBDA s, c : [Inject(s, c.ins, c.d, c.reply) EXCEPT !.cache = st.cache],
                  st, calls)

\* the PARALLEL_SPAWN children's injections: join_all polls the children
\* in collected order and the tokio Mutex queues them in that order, each
\* holding the vault across its KV round trip
SpawnInjects(st, calls) ==
    SeqX!FoldLeft(LAMBDA s, c : Inject(s, c.ins, c.d, c.reply), st, calls)

\* one fallback-wrapped external call; `audited` adds audit.append.
\* CALL_SERVICE and LLM_CALL inject credentials before the call
\* (call_service_with_fallback 437-460, llm_call_with_fallback 500-520)
ExternalCall(op, audited) ==
    /\ Running /\ OpOf(Cur) = op
    /\ Dispatch
    /\ \E c \in (IF op \in {"CALL_SERVICE", "LLM_CALL"} THEN Choices(Cur) ELSE {0}) :
         LET st == IF op \in {"CALL_SERVICE", "LLM_CALL"}
                   THEN Inject(VaultState, Cur, c.d, c.reply) ELSE VaultState
         IN  /\ Feasible(st)
             /\ cache' = st.cache
             /\ fetches' = st.fetches
    /\ \E o \in Outcomes(Cur):
       /\ retried' = RetryLog(retried, Cur, At(ip), o)
       /\ \/ /\ o.ok
             /\ regs' = [regs EXCEPT ![Cur.dest] = o.val]
             /\ audit' = IF audited THEN Append(audit, [idx |-> At(ip), op |-> op])
                         ELSE audit
            /\ ip' = ip + 1
            /\ UNCHANGED status
          \/ /\ ~o.ok
            /\ status' = "failed"
            /\ UNCHANGED <<ip, regs, audit>>
    /\ UNCHANGED <<ir, now, rotated>>

LoadResource == ExternalCall("LOAD_RESOURCE", TRUE)
CallService  == ExternalCall("CALL_SERVICE", TRUE)
CallAction   == ExternalCall("CALL_ACTION", TRUE)
CallMcpAudited == ExternalCall("CALL_MCP", TRUE)
CallMcp      == ExternalCall("CALL_MCP", FALSE)
LlmCall      == ExternalCall("LLM_CALL", TRUE)

StoreMemory ==
    /\ Running /\ OpOf(Cur) = "STORE_MEMORY"
    /\ Dispatch
    /\ \/ /\ ReadSrc(Cur) # Undef
          /\ regs' = [regs EXCEPT ![Cur.dest] = ReadSrc(Cur)]
          /\ ip' = ip + 1
          /\ UNCHANGED status
       \/ /\ ReadSrc(Cur) = Undef
          /\ status' = "failed"
          /\ UNCHANGED <<ip, regs>>
    /\ UNCHANGED <<ir, audit, vaultVars, retried>>

\* TRANSFORM: "path" projects (null unless an object), "template" yields a
\* non-empty string, otherwise the input passes through (null if unset)
Transform ==
    /\ Running /\ OpOf(Cur) = "TRANSFORM"
    /\ Dispatch
    /\ LET src == IF ReadSrc(Cur) = Undef THEN "null" ELSE ReadSrc(Cur)
           out == CASE Cur.xform = "path"     -> IF src = "obj" THEN Vals ELSE {"null"}
                    [] Cur.xform = "template" -> {"truthy", "falsy"}  \* a String, "" if empty
                    [] OTHER                  -> {src}
       IN  \E v \in out : regs' = [regs EXCEPT ![Cur.dest] = v]
    /\ ip' = ip + 1
    /\ UNCHANGED <<ir, status, audit, vaultVars, retried>>

\* VALIDATE, AGGREGATE, FILTER copy src[0] (null if unset) to dest
PassThrough ==
    /\ Running /\ OpOf(Cur) \in {"VALIDATE", "AGGREGATE", "FILTER"}
    /\ Dispatch
    /\ regs' = [regs EXCEPT ![Cur.dest] =
                   IF ReadSrc(Cur) = Undef THEN "null" ELSE ReadSrc(Cur)]
    /\ ip' = ip + 1
    /\ UNCHANGED <<ir, status, audit, vaultVars, retried>>

Branch ==
    /\ Running /\ OpOf(Cur) = "BRANCH"
    /\ Dispatch
    /\ ip' = IF Truthy(ReadSrc(Cur)) THEN ResolveIp(Cur.target) ELSE ip + 1
    /\ UNCHANGED <<ir, regs, status, audit, vaultVars, retried>>

Jump ==
    /\ Running /\ OpOf(Cur) = "JUMP"
    /\ Dispatch
    /\ ip' = ResolveIp(Cur.target)
    /\ UNCHANGED <<ir, regs, status, audit, vaultVars, retried>>

Loop ==
    /\ Running /\ OpOf(Cur) = "LOOP"
    /\ Dispatch
    /\ \/ /\ ~Cur.hasLoop                      \* missing loop_operands
          /\ status' = "failed"
          /\ UNCHANGED ip
       \/ /\ Cur.hasLoop
          /\ \E holds \in PredOutcomes(Cur.loop.pred) :
             LET lo == Cur.loop
                 b  == ResolveIp(lo.body)
                 x  == ResolveIp(lo.exit)
                 r  == LoopScan(lo, b, x, 0, b, holds)
             IN  \/ r = "exit" /\ ip' = x /\ UNCHANGED status
                 \/ r = "error" /\ status' = "failed" /\ UNCHANGED ip
    /\ UNCHANGED <<ir, regs, audit, vaultVars, retried>>

ParallelSpawn ==
    /\ Running /\ OpOf(Cur) = "PARALLEL_SPAWN"
    /\ LET scan == SpawnScan(ip + 1, 1, <<>>)
           kids == scan.llm
           dests == [j \in 1 .. Len(kids) |-> ir.instrs[kids[j]].dest]
       IN  /\ \E os \in [1 .. Len(kids) -> UNION {Outcomes(ir.instrs[c]) : c \in SeqX!ToSet(kids)}] :
                 /\ \A j \in 1 .. Len(kids) : os[j] \in Outcomes(ir.instrs[kids[j]])
                 \* join_all: a child's unrecovered error binds null
                 /\ regs' = Bind(regs, dests, [j \in 1 .. Len(kids) |->
                                                  IF os[j].ok THEN os[j].val ELSE "null"])
                 /\ retried' = SeqX!FoldLeft(
                        LAMBDA log, j : RetryLog(log, ir.instrs[kids[j]], kids[j], os[j]),
                        retried, [j \in 1 .. Len(kids) |-> j])
           /\ dispatched' = Count(dispatched, {At(ip)} \cup {kids[j] : j \in 1 .. Len(kids)})
           /\ ip' = SpawnNext(scan)
           /\ \E ch \in ChoiceSeqs(kids) :
                 LET calls == [j \in 1 .. Len(kids) |->
                                 [ins |-> ir.instrs[kids[j]], d |-> ch[j].d, reply |-> ch[j].reply]]
                     st == SpawnInjects(VaultState, calls)
                 IN  Feasible(st) /\ cache' = st.cache /\ fetches' = st.fetches
    /\ UNCHANGED <<ir, status, audit, now, rotated>>

ParallelMerge ==
    /\ Running /\ OpOf(Cur) = "PARALLEL_MERGE"
    /\ Dispatch
    /\ ip' = ip + 1
    /\ UNCHANGED <<ir, regs, status, audit, vaultVars, retried>>

Return ==
    /\ Running /\ OpOf(Cur) = "RETURN"
    /\ Dispatch
    /\ status' = "done"
    /\ UNCHANGED <<ir, ip, regs, audit, vaultVars, retried>>

\* Only a slice that names a vault path can observe the clock and the KV
\* store, so only there do the environment's steps below happen.
UsesVault == \E k \in DOMAIN ir.instrs : ir.instrs[k].vpath # NoPath

\* Environment: time passes while the slice runs
Tick ==
    /\ status = "running" /\ UsesVault
    /\ now < MaxTime
    /\ now' = now + 1
    /\ UNCHANGED <<ir, ip, regs, status, audit, dispatched, rotated, cache, fetches,
                   retried, since>>

\* Environment: the secret at path p is rewritten in the KV store
Rotate ==
    /\ status = "running" /\ UsesVault
    /\ \E p \in VaultPaths :
         /\ Len(rotated[p]) < MaxVersion
         /\ rotated' = [rotated EXCEPT ![p] = Append(@, now)]
    /\ UNCHANGED <<ir, ip, regs, status, audit, dispatched, now, cache, fetches,
                   retried, since>>

\* one handler of Svm::execute's loop, which returns at the current clock
Exec ==
    /\ \/ OrderExhausted \/ MissingInstruction
       \/ LoadResource \/ StoreMemory \/ CallService \/ CallAction \/ CallMcp
       \/ LlmCall \/ Transform \/ PassThrough \/ Branch \/ Jump \/ Loop
       \/ ParallelSpawn \/ ParallelMerge \/ Return
    /\ since' = now

Next == Exec \/ Tick \/ Rotate

\* The executor is one task that always takes its next step: every await
\* in a handler completes (HTTP calls time out after 30 s).  The clock and
\* the KV store owe it nothing.  This is WF_vars(Exec) with ENABLED
\* <<Exec>>_vars written as the state predicate it equals in every
\* reachable state, status = "running": some handler's guard holds at
\* every ip, and a zero-length round trip answering KvFail is always
\* possible.  (TLC confirms the equality as an invariant over the
\* exec_pass state space; stated with ENABLED, the liveness check is 25
\* times slower.)
ExecFairness == <>(status # "running") \/ []<><<Exec>>_vars

Spec == Init /\ [][Next]_vars /\ ExecFairness

-----------------------------------------------------------------------------
(***************************************************************************)
(* Properties                                                              *)
(***************************************************************************)

\* Type invariant.  ip may pass the end by one: PARALLEL_SPAWN as the last
\* instruction jumps to merge_ip + 1 with merge_ip = ip + 1.
TypeOK ==
    /\ ir \in Programs
    /\ ip \in 0 .. OrderLen + 1
    /\ regs \in [Regs -> Vals \cup {Undef}]
    /\ status \in {"running", "done", "failed"}
    /\ audit \in Seq([idx: DOMAIN ir.instrs, op: AuditedOps])
    /\ dispatched \in [DOMAIN ir.instrs -> 0 .. DispatchCap]
    /\ now \in 0 .. MaxTime /\ since \in 0 .. now
    /\ \A p \in DOMAIN cache : p \in VaultPaths /\ cache[p].ver \in 0 .. MaxVersion
    /\ \A i \in 1 .. Len(fetches) : fetches[i].src \in {"vault", "env", "raw", "none"}

\* A program is forward when no BRANCH or JUMP target, and no LOOP exit,
\* names an instruction at or before its own position in the order.
Forward ==
    \A k \in 0 .. OrderLen - 1 :
        Present(k) =>
            /\ OpOf(Instr(k)) \in {"BRANCH", "JUMP"} =>
                   \A j \in 0 .. k : At(j) # Instr(k).target
            /\ (OpOf(Instr(k)) = "LOOP" /\ Instr(k).hasLoop) =>
                   \A j \in 0 .. k : At(j) # Instr(k).loop.exit

\* In a forward program every handler runs at most once per slice: the
\* PARALLEL_SPAWN fan-out must resume after its matching MERGE so that the
\* LLM_CALLs it already ran concurrently are not dispatched again in order
\* (svm.rs 330-397).
DispatchAtMostOnce ==
    Forward => \A i \in DOMAIN dispatched : dispatched[i] <= 1

\* Every forward slice ends: Svm::execute returns (SUCCESS or error) instead
\* of looping, so the session loop that awaits it can go on reading frames.
Terminates == Forward => <>(status # "running")

\* Spec 4.1, 5 and 9: every audited opcode (LOAD_RESOURCE, CALL_SERVICE,
\* CALL_ACTION, LLM_CALL) that completes in a successful slice leaves an
\* audit event, the LLM_CALLs run by a PARALLEL_SPAWN fan-out included
\* (svm.rs 137-231 append after each handler; 384-394 join the children).
AuditCoversCalls ==
    (Forward /\ status = "done") =>
        \A i \in DOMAIN ir.instrs :
            (OpOf(ir.instrs[i]) \in AuditedOps /\ dispatched[i] > 0)
                => \E k \in 1 .. Len(audit) : audit[k].idx = i

\* Spec 4.1 LOOP: before each body step with an unmet convergence
\* predicate, one body instruction is executed.  A LOOP step that leaves
\* the loop normally, with a non-empty body and a predicate that cannot
\* hold on entry, must have dispatched some body instruction (svm.rs 250-299).
LoopRunsBody ==
    [][ ( /\ Running /\ OpOf(Cur) = "LOOP" /\ Cur.hasLoop
          /\ status' = "running"
          /\ ResolveIp(Cur.loop.body) < ResolveIp(Cur.loop.exit)
          /\ PredOutcomes(Cur.loop.pred) = {FALSE} )
        => \E k \in ResolveIp(Cur.loop.body) .. ResolveIp(Cur.loop.exit) - 1 :
               Present(k) /\ dispatched'[At(k)] > dispatched[At(k)]
      ]_vars

\* How stale a vault secret can be.  vault.rs 112-115 dates a cache entry
\* with Instant::now() after the KV await, so an entry may be up to one
\* round trip (at most the 30 s client timeout) older than the read it
\* holds: a version is served (fetched, or from the cache of vault.rs
\* 96-105) less than Ttl + KvTimeout ticks after the KV store replaced it,
\* but not always less than Ttl, across rotations during a slow round trip
\* and the queued fetches of a PARALLEL_SPAWN.
SecretFresh ==
    \A i \in 1 .. Len(fetches) :
        LET f == fetches[i]
        IN  (f.src = "vault" /\ f.ver < Len(rotated[f.path]))
                => f.done < rotated[f.path][f.ver + 1] + Ttl + KvTimeout

\* Spec 8 law 8: within Ttl of a fetch answered by the KV store, a repeated
\* fetch of the same path issues no upstream request, whether it comes from
\* a later instruction or from a sibling LLM_CALL of the same fan-out
\* (vault.rs 109-117 fills the cache that 96-102 reads; svm.rs 568 holds
\* the vault lock across the round trip).
CacheSparesUpstream ==
    \A i, j \in 1 .. Len(fetches) :
        ( /\ i < j /\ fetches[i].path = fetches[j].path
          /\ fetches[i].upstream /\ fetches[i].src = "vault"
          /\ fetches[j].at < fetches[i].done + Ttl )
        => ~fetches[j].upstream

\* The back-off spec 8 law 6 requires before the n-th attempt: the sum of
\* base * 2^min(i-1, 6) for i in 1 .. n-1.
BackoffFloor(n, base) ==
    LET floor[i \in 0 .. n] ==
            IF i <= 1 THEN 0
            ELSE floor[i - 1] + base * 2^(IF i - 2 < 6 THEN i - 2 ELSE 6)
    IN  floor[n]

\* Spec 8 law 6 and 4.2 fallback integration: a RETRY_WITH_BACKOFF call
\* (retry_backoff, svm.rs 524-551, run by every *_with_fallback wrapper and
\* by the fan-out children) invokes the handler at most max_attempts times
\* (once for max_attempts 0), sleeps at least the law's back-off before
\* the attempts it makes, and gives up only after its last attempt.  Each
\* attempt may have acted at the remote end before its error, so the bound
\* is also the bound on repeated actuations.
RetryLaw ==
    \A i \in DOMAIN retried : \A r \in retried[i] :
        LET m == IF r.m = 0 THEN 1 ELSE r.m
        IN  /\ r.tries <= m
            /\ r.wait >= BackoffFloor(r.tries, r.base)
            /\ ~r.ok => r.tries = m
=============================================================================
