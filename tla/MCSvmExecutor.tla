--------------------------- MODULE MCSvmExecutor ---------------------------
(***************************************************************************)
(* Model values for SvmExecutor: the IR slices TLC runs.  Each slice is    *)
(* built from instruction records whose fields stand for the IrInstruction *)
(* fields the executor reads; indices are the IR's instruction indices.    *)
(***************************************************************************)
EXTENDS SvmExecutor

NoPred  == [reg |-> 1, op |-> "none", val |-> "null"]
NoLoop  == [max |-> 0, body |-> 0, exit |-> 0, pred |-> NoPred]

\* credentials_vault_path values: empty, or one of two secret paths
MCNoPath == ""
MCVaultPaths == {"sap/api_key", "db/password"}

\* an instruction with default fields: metadata with an endpoint and no
\* credentials path, FAIL_SAFE with a null safe_default, operands parsing
\* to an object, and the default max_attempts 3 and backoff_base_ms 2000
I(op, dest, src, target) ==
    [op |-> op, dest |-> dest, src |-> src, target |-> target,
     dm |-> "endpoint", operand |-> "obj", strategy |-> "FAIL_SAFE",
     safe |-> "null", xform |-> "none", hasLoop |-> FALSE, loop |-> NoLoop,
     vpath |-> MCNoPath, attempts |-> 3, base |-> 2000]

\* a slice whose order lists the instructions 1..n in sequence
Seqd(s) == [instrs |-> [k \in 1 .. Len(s) |-> s[k]], order |-> [k \in 1 .. Len(s) |-> k]]

Set(ins, f, v) == [ins EXCEPT ![f] = v]

\* S1 linear flow
P1 == Seqd(<< Set(I("LOAD_RESOURCE", 1, <<>>, 0), "dm", "noEndpoint"),
              I("STORE_MEMORY", 2, <<1>>, 0),
              I("RETURN", 1, <<>>, 0) >>)
\* S2 branch over a RETURN, then a store
P2 == Seqd(<< Set(I("LOAD_RESOURCE", 1, <<>>, 0), "dm", "noEndpoint"),
              I("BRANCH", 1, <<1>>, 4),
              I("RETURN", 1, <<>>, 0),
              I("STORE_MEMORY", 2, <<1>>, 0) >>)
\* S4 fallbacks: service with FAIL_SAFE, action with RETRY, then an MCP
\* call without metadata and a store reading a possibly unset register
P3 == Seqd(<< Set(I("CALL_SERVICE", 1, <<2>>, 0), "safe", "truthy"),
              Set(I("CALL_ACTION", 2, <<1>>, 0), "strategy", "RETRY_WITH_BACKOFF"),
              Set(Set(I("CALL_MCP", 2, <<1>>, 0), "dm", "none"), "strategy", "DEGRADED_MODE"),
              I("STORE_MEMORY", 1, <<2>>, 0) >>)
\* S5 parallel fan-out of two LLM calls (one retrying with max_attempts 0), then a branch on the result that
\* jumps to an index the order does not hold (the end)
P4 == Seqd(<< I("PARALLEL_SPAWN", 1, <<>>, 0),
              Set(Set(I("LLM_CALL", 1, <<>>, 0), "strategy", "RETRY_WITH_BACKOFF"), "attempts", 0),
              Set(I("LLM_CALL", 2, <<1>>, 0), "strategy", "LLM_REASONING"),
              I("PARALLEL_MERGE", 1, <<>>, 0),
              I("BRANCH", 1, <<1>>, 9),
              I("JUMP", 1, <<>>, 9) >>)
\* nested fan-out with a non-LLM instruction inside the region
P5 == Seqd(<< I("PARALLEL_SPAWN", 1, <<>>, 0),
              I("LLM_CALL", 1, <<>>, 0),
              I("PARALLEL_SPAWN", 1, <<>>, 0),
              Set(I("LLM_CALL", 2, <<>>, 0), "dm", "none"),
              I("STORE_MEMORY", 1, <<2>>, 0),
              I("PARALLEL_MERGE", 1, <<>>, 0),
              I("PARALLEL_MERGE", 1, <<>>, 0),
              I("LLM_CALL", 2, <<1>>, 0) >>)
\* a branch that skips the PARALLEL_SPAWN: the region runs in order
P6 == Seqd(<< Set(I("LOAD_RESOURCE", 1, <<>>, 0), "strategy", "bogus"),
              I("BRANCH", 1, <<1>>, 4),
              I("PARALLEL_SPAWN", 1, <<>>, 0),
              I("LLM_CALL", 2, <<1>>, 0),
              I("PARALLEL_MERGE", 1, <<>>, 0),
              I("VALIDATE", 2, <<2>>, 0),
              I("AGGREGATE", 1, <<2>>, 0),
              I("FILTER", 1, <<>>, 0),
              I("UNKNOWN", 1, <<>>, 0) >>)
\* S3 loop: body 3..4 of TRANSFORMs, exit 5, converges when R1 = "truthy"
LoopOps(max, body, exit, pred) ==
    [max |-> max, body |-> body, exit |-> exit, pred |-> pred]
P7 == Seqd(<< Set(I("LOAD_RESOURCE", 1, <<>>, 0), "dm", "noEndpoint"),
              Set(Set(I("LOOP", 1, <<>>, 0), "hasLoop", TRUE), "loop",
                  LoopOps(2, 3, 5, [reg |-> 1, op |-> "eq", val |-> "truthy"])),
              Set(I("TRANSFORM", 1, <<1>>, 0), "xform", "path"),
              Set(I("TRANSFORM", 2, <<1>>, 0), "xform", "template"),
              I("TRANSFORM", 2, <<2>>, 0),
              Set(Set(I("LOOP", 1, <<>>, 0), "hasLoop", TRUE), "loop",
                  LoopOps(0, 8, 3, [reg |-> 2, op |-> "truthy", val |-> "null"])),
              I("RETURN", 1, <<>>, 0) >>)
\* malformed slices: LOOP without loop_operands; LOOP whose body index is
\* missing; an order naming an index with no instruction
P8 == Seqd(<< Set(I("LOAD_RESOURCE", 1, <<>>, 0), "dm", "none"),
              I("LOOP", 1, <<>>, 0) >>)
P9 == Seqd(<< Set(Set(I("LOOP", 1, <<>>, 0), "hasLoop", TRUE), "loop",
                  LoopOps(3, 7, 2, NoPred)),
              I("RETURN", 1, <<>>, 0) >>)
P10 == [instrs |-> [k \in {1, 3} |-> I("CALL_SERVICE", 1, <<>>, 0)],
        order  |-> <<3, 2, 1>>]
\* a backward jump: the slice never ends (not a forward program)
P11 == [instrs |-> [k \in {1, 2} |-> IF k = 1 THEN I("CALL_MCP", 1, <<>>, 0)
                                            ELSE I("JUMP", 1, <<>>, 1)],
        order  |-> <<1, 2>>]

\* STORE_MEMORY of a register no instruction wrote
P12 == Seqd(<< I("STORE_MEMORY", 1, <<2>>, 0) >>)

\* credentials: a service call, a fan-out of two LLM calls on the same
\* path, the service again, and an LLM call on a path the environment
\* holds.  A call succeeds or fails (FAIL_SAFE recovers) after its injection.
VI(op, path) == Set(I(op, 1, <<>>, 0), "vpath", path)
P13 == Seqd(<< VI("CALL_SERVICE", "sap/api_key"),
               I("PARALLEL_SPAWN", 1, <<>>, 0),
               VI("LLM_CALL", "sap/api_key"),
               VI("LLM_CALL", "sap/api_key"),
               I("PARALLEL_MERGE", 1, <<>>, 0),
               VI("CALL_SERVICE", "sap/api_key"),
               VI("LLM_CALL", "db/password"),
               I("RETURN", 1, <<>>, 0) >>)

MCPrograms == {P1, P2, P3, P4, P5, P6, P7, P8, P9, P10, P11, P12, P13}

\* a PARALLEL_SPAWN with no matching PARALLEL_MERGE
PUnmatched == Seqd(<< I("PARALLEL_SPAWN", 1, <<>>, 0),
                      I("STORE_MEMORY", 2, <<1>>, 0),
                      I("LLM_CALL", 1, <<>>, 0),
                      I("RETURN", 1, <<>>, 0) >>)

MCUnmatched == {PUnmatched}
=============================================================================
