# TLA+ models of the Eyeflow edge runtime

This directory holds TLA+ models of the Eyeflow edge node (`src/eyeflow-svm-node`)
and its microcontroller profile (`src/eyeflow-svm-mcu`), and the TLC
configurations that check them. `PROJECT.json` lists the components, the runs,
the mutants, the code each definition models (`map`), the findings and the
hazards.

## The system

The edge node is one tokio process with two long-lived tasks: the link
session (`NodeClient::run` in `node.rs`) and the health probe server
(`health.rs`). The session loop connects to central, sends `REGISTER`,
flushes the offline buffer as one `AUDIT_FLUSH` frame, and then serves frames.
An `IR_DISTRIBUTION` (JSON text) or a binary `IRDistributionMessage` makes the
node run one IR slice:

* **IR executor** (`svm.rs`, `Svm::execute`). This is a register machine over
  the instruction order. Its handlers are LOAD_RESOURCE, STORE_MEMORY,
  CALL_SERVICE, CALL_ACTION, CALL_MCP, LLM_CALL, TRANSFORM, VALIDATE,
  AGGREGATE, FILTER, BRANCH, JUMP, LOOP, PARALLEL_SPAWN, PARALLEL_MERGE and
  RETURN. The four audited opcodes append an event to the audit chain. Every
  external call goes through a `*_with_fallback` wrapper.
* **Fallback engine** (`fallback.rs`). It reads the strategy from the
  instruction's `operands_json` and turns a failed call into a value, or into
  an abort. The strategies are FAIL_SAFE, DEGRADED_MODE, RETRY_WITH_BACKOFF,
  LLM_REASONING and SUPERVISED_RECOMPILE.
* **Audit chain** (`audit.rs`). This is an in-memory, hash-linked, signed log.
  The executor appends to it under the chain mutex. `execute_ir` drains it
  into the result of a successful slice. `verify` checks the self hashes and
  the links.
* **Offline buffer** (`offline.rs`). This is a bounded FIFO of envelopes that
  drops the oldest when full. `persist` writes it to an NDJSON file on
  disconnect, `load` restores it at start-up, and `clear_disk` removes the
  file after a flush has been sent.
* **Secret resolver** (`vault.rs`). It looks a secret up in a TTL cache, then
  a HashiCorp KV endpoint (whose answer it caches), then environment
  variables (whose answer it does not cache). The executor holds one
  resolver behind a tokio Mutex. CALL_SERVICE, LLM_CALL and every
  PARALLEL_SPAWN child resolve their `credentials_vault_path` through it
  (`inject_vault_credentials`) before they make their call.
* **Health state** (`health.rs`). These are atomics that the session writes
  and the probe reads.
* **MCU profile**. `MicroSvm` runs a four-opcode binary IR with eight u16
  registers and a flag byte. A 128-entry RAM ring holds reports. UART frames
  have the form `0xAA 0x55 len payload`.

How the parts interact: the session loop is the only caller of the executor,
and it holds the audit-chain lock for the whole slice. So slices never
overlap, and the only concurrency inside a slice is the PARALLEL_SPAWN
fan-out of LLM calls. The children are polled by `join_all` in collection
order and the vault Mutex is FIFO and held across the KV await, so the
children resolve their secrets one after another, in that order.

## Modules

| module | models | state | actions |
|---|---|---|---|
| `SvmExecutor` | `Svm::execute` (svm.rs 98-413) with the fallback wrappers, `FallbackEngine` and `inject_vault_credentials` | `ir`, `ip`, `regs`, `status`, `audit` (events appended by this slice), `dispatched` (handler runs per instruction, a history variable); the resolver's `cache`, the clock `now`, the KV store's rotation times `rotated`, the history `fetches` (every `fetch_secret` and its answer), and the history `retried` (per instruction, its last `retry_backoff` run: attempts allowed, base, calls made, total sleep, outcome) | one action per opcode handler, plus `OrderExhausted` and `MissingInstruction` for the loop's own exits (together `Exec`); environment: `Tick` and `Rotate` |
| `VaultClient` | `VaultClient::fetch_secret` (vault.rs 94-145) as the operator `FetchSecret` over the cache | (operators only; `SvmExecutor` holds the cache) | |
| `MCSvmExecutor` | model values: thirteen IR slices built from instruction records, plus an unmatched-SPAWN slice; P13 names two vault paths in a fan-out and around it | | |
| `AuditChain` | `AuditChain::append`, `drain`, `verify` (audit.rs) | `chain` (the VecDeque of events), `nextId` (UUIDs), `tampered` and `ntampers` (history of the environment's tampering) | `AppendEvent`, `Drain`; environment: `TamperField`, `TamperDelete`, `TamperSwap` |
| `OfflineBuffer` | operators of offline.rs: `push` (drop oldest), `load` (stop at `max_size`), `persist` (`Persisted`: the new content, or the old file when the write fails), `clear_disk` (`Cleared`), and flush's re-enqueue loop | (operators only; `NodeClient` holds the queue and the file) | |
| `OfflineDelivery` | the abstract promise of the offline file (spec §3, §5): at-least-once delivery, first deliveries in file order | `pending`, `sent` | `Deliver`, `Redeliver` |
| `NodeClient` | `NodeClient::run`, `connect_and_run`, the two frame handlers, `execute_ir`, `flush_offline_events` (node.rs), with the buffer's `notify_connected`, `drain_for_flush`, `persist`, `clear_disk`, the health setters and `is_healthy` (`Healthy`) | `pc` (the session task between awaits), `link`, `online`, `queue`, `disk` (the NDJSON file), `chain`, `pending` (the result being sent), `wsConn`, `depth`, `execs`; histories `flushed` and `results` (what central received) | `Load`, `Connect`, `Register`, `FlushSend`, `ClearDisk`, `ExecuteIr`, `ExecuteIrLoops`, `RefuseVersion`, `SendResult`, `ReadEnds`, `SessionEnd`; environment: `ServerClose`, `LinkFail`, `LinkRestore`, `Crash` |
| `MCNodeClient` | model values: a file of two envelopes left by an earlier run | | |
| `McuOfflineRing` | operators of the MCU offline.rs: `new`, `push`, `enqueue_report`, `flush_pending` | (operators only) | |
| `McuFirmware` | `edge_link_task` and `execute_svm_frame` (main.rs), `MicroSvm::execute` with `dispatch_service` and `dispatch_action` (svm.rs) | `stream`/`rpos` (the UART bytes), `rx` (rx_buf), `phase`, `payload`, `pc`, `r`, `flags`, `ocount`, `outLen`, `result`, `ring`; histories `frames`, `results`, `reports`, `steps`, `discarded` | `ReceiveByte` (a complete frame also records its end in the history `fends`), `Validate`, `CallService`, `CallAction`, `Branch`, `Return`, `UnknownOpcode`, `ImplicitReturn`, `FrameDone` |
| `MCMcuFirmware` | model values: ten payloads (every opcode path and every header error) framed into a stream with noise, a stream with a stray 0xAA, one whose noise holds a sync word with length 0, and one with a frame cut off after 12 bytes | | |

Data abstraction in `AuditChain`: SHA-256 is an injective constructor
(`Hash(x) == [h |-> x]`), so two hashes are equal exactly when their inputs
are. A signature wraps the self hash. A flipped byte is `Flip(v)`, which
differs from every value the node produces.

Data abstraction in `NodeClient`:
* `OfflineBuffer` is instantiated twice: `Buf` with the run's `MaxSize`, and
  `BufK(k)` with `MaxSize <- k`, so `BufferLaw` can check the push law for
  every capacity up to `MaxSize + 1`, not only the one the session uses.
* An envelope is a model value. Serialising it to a line and parsing it back
  gives the same envelope, so the file is the sequence of its envelopes. An
  absent file and an empty one are both `<<>>`, because `load`, `persist`
  and `clear_disk` treat them alike. `persist` writes a temporary file and
  renames it, so a crash leaves the old or the new content.
* A slice execution is its outcome (SUCCESS or FAILED) and the audit events
  it appended, at most `MaxSliceEvents`. `SvmExecutor` models `execute` itself.
* A send returns Ok exactly when the link is up. A connection that broke
  stays broken until the next handshake. A frame sent Ok reaches central:
  spec 3 takes a successful send as the acknowledgement.
* The text and binary request paths differ in two ways. Only the binary
  path has the version gate, which is modelled on the artifact's version
  number. Only the binary result carries the drained audit events: the text
  path converts the result to `ResultJson`, which has no `audit_events`
  field (`ResultFrame`, node.rs 495-519). Decode and checksum errors on
  either path leave the same state as a version refusal (the handler returns
  `Err`, the loop logs it, no result is sent), so `RefuseVersion` stands for
  all of them.

In `McuFirmware` the payload is real bytes (numbers 0..255). Header fields,
operands, branch targets and frame lengths are decoded from them as the code
does: big-endian, with the 3-bit register masks.

Data abstraction in `SvmExecutor`:
* A JSON value is one of `null`, `falsy`, `truthy` and `obj`, which is what
  `is_truthy`, the predicates and the path transform can tell apart. `undef`
  marks a register that was never written: `read_src` returns `Err` for it.
  LOOP's convergence predicate (`PredOutcomes`) has the outcomes these
  classes allow: values of different classes differ, two values of one
  class other than `null` may or may not be equal, the numeric comparisons
  need numbers (only `falsy` and `truthy` hold any), and `exists` is
  `!= null`. The scan writes nothing, so one outcome holds throughout it.
  TRANSFORM's path form reads a field of an object (null otherwise); its
  template form yields a String, which is empty, and so falsy, when the
  template is empty or every substitution is.
* An external call returns any value or an error, depending on its
  `dispatch_metadata`. With `none`, CALL_SERVICE, CALL_MCP and LLM_CALL
  always fail. With `noEndpoint`, LOAD_RESOURCE returns its operands,
  CALL_ACTION returns null, CALL_MCP fails, and CALL_SERVICE still returns a
  value or an error: HTTP fails, GRPC/WASM/NATIVE/DOCKER give null, and the
  LLM and EMBEDDED_JS formats call central's LLM (svm.rs 657-667).
* The fallback engine is applied exactly as the wrappers apply it:
  * RETRY_WITH_BACKOFF is `retry_backoff` (svm.rs 524-551) as the recursive
    operator `RetryBackoff(ins, k, a, w)`: the first `k` calls fail, attempt
    `a > 1` first sleeps `base·2^min(a-2, 6)`, and the loop stops at
    `max_attempts.max(1)`. An instruction carries `attempts` (the
    `max_attempts` of its fallback config, default 3) and `base`
    (`base_delay_ms`, default 2000). A run that exhausts every attempt aborts
    the slice;
  * FAIL_SAFE, SUPERVISED_RECOMPILE and unknown strategies recover
    `safe_default`;
  * DEGRADED_MODE recovers null;
  * LLM_REASONING recovers central's answer or `safe_default`.
* The vault: a secret's value is the version the KV store held when it was
  read (`rotated[p]` lists the ticks at which versions 1, 2, ... were
  written). The clock is in ticks of 30 s; `Ttl` is `cache_ttl` and
  `KvTimeout` the HTTP client's timeout. `fetch_secret` checks the cache at
  the instant its handler starts (`since`, when the previous handler
  returned) and then awaits the KV store. The round trip takes `d` ticks,
  at most `KvTimeout` and at most the time the handler took. Its outcome
  is `KvFail` (HTTP, status, parse or missing-key error) or a version that
  was current at some instant of the round trip. The entry is cached with
  its expiry counted from the end of the await (`Instant::now()` after it,
  vault.rs 112-115). Fan-out children fetch one after the other, each
  starting where the previous one ended. What the injected map then does to the request body
  is left out (see the observations below).
* The PARALLEL_SPAWN scan is the recursive operator `SpawnScan`, which keeps
  the code's nesting counter and its `merge_ip = ip + 1` default. The LOOP
  walk is the recursive operator `LoopScan`, a step-by-step copy of the
  code's inner `loop`, with `max_iterations.max(1)`.

## Runs

| run | cfg | expect | what it shows |
|---|---|---|---|
| `exec_pass` | `SvmExecutor.cfg` | pass | On thirteen slices (S1, S2, S4, S5, nested fan-out, a branch into a spawn region, LOOPs, malformed slices, a backward jump, vault-credentialed calls inside and around a fan-out), every action and disjunct fires. Forward slices end (`Terminates`), and no handler of a forward slice runs twice (`DispatchAtMostOnce`). Every `retry_backoff` run calls at most `max_attempts.max(1)` times, sleeps at least the spec's back-off sum before the calls it made, and gives up only after its last attempt (`RetryLaw`, law 6); P4 includes a retrying call with `max_attempts` 0. While the clock ticks and secrets rotate, no fetch returns a KV version `Ttl + KvTimeout` or more ticks after it was superseded (`SecretFresh`, law 8's freshness side). The bound `Ttl` alone fails: a KV read at the start of a slow round trip is cached with its expiry counted from the end. Within `Ttl` of a fetch the KV store answered, no later fetch of the same path goes upstream, whether it comes from a later instruction or from a sibling fan-out child (`CacheSparesUpstream`, law 8). |
| `exec_unmatched_spawn` | `SvmExecutor_unmatched.cfg` | violation | A SPAWN without its MERGE resumes at ip + 2. It skips the instruction after the SPAWN and runs the fanned-out LLM_CALL again (a code bug). |
| `exec_loop_body` | `SvmExecutor_loop.cfg` | violation | LOOP exits without executing any body instruction. This disagrees with spec §8 law 4 and scenario S3. |
| `exec_spawn_audit` | `SvmExecutor_audit.cfg` | violation | The LLM calls of a fan-out leave no audit event. This disagrees with spec §5 (a child's audit events are emitted as it completes) and §9 (collect them per child and drain them at the join). |
| `audit_pass` | `AuditChain.cfg` | pass | Chains of up to four events, drained and rebuilt, verify when untouched (`IntactVerifies`). A flipped byte in the body, previous hash or self hash is reported at that event's own position, whatever follows it (`FieldTamperPinpointed`). |
| `audit_tamper` | `AuditChain_tamper.cfg` | violation | Spec §8 law 1 (`TamperDetected`) fails: verify never checks signatures, the key, or the first event's previous hash. A flipped signature of the last event, or a deleted first or last event, passes. |
| `node_pass` | `NodeClient.cfg` | pass | There are two link failures and a crash at any point. The checks: no envelope of the file is lost (`NoEnvelopeLost`); no audit event reaches central in two results (`AuditDeliveredOnce`); the AUDIT_FLUSH frames implement `OfflineDelivery` under a refinement mapping (`DeliveryRefinement`, below); after any number of pushes onto the current queue, and onto an empty one with any capacity, the buffer holds the last min(n, k) envelopes in order, and a persist that succeeded loads back the same sequence (`BufferLaw`, law 5); and once the connection the node reports healthy is lost, the health flag eventually drops, even if the link comes back first (`HealthSeesLinkLoss`). The refinement's liveness half and `HealthSeesLinkLoss` exclude the session stuck in a slice that never returns (`ExecuteIrLoops`): then nothing more is flushed and `/health` stays 200. |
| `node_load_loss` | `NodeClient_loadfail.cfg` | violation | If reading the file fails at start-up, the first disconnect persists the empty queue over it, and every envelope is lost unsent. |
| `node_result_missing` | `NodeClient_result.cfg` | violation | An artifact of another major version gets no FAILED result (spec §4.5 says it should). A RESULT sent on a dead link is also dropped, not buffered. |
| `node_audit_leak` | `NodeClient_audit.cfg` | violation | A failed slice's audit events stay in the chain and are drained into the next successful slice's result. |
| `mcu_pass` | `McuFirmware.cfg` | pass | Every payload the firmware executes is exactly the bytes between a sync word with its big-endian length and the end of the frame, and these byte ranges follow each other in the stream without overlap (`FramesDelimited`). This is what the parser guarantees; it does not guarantee that a payload was sent (see the observations). It receives every frame of a clean stream (`AllFramesReceived`). It rejects exactly the malformed headers, before any opcode runs (law 9, `HeaderLaw`). The ring keeps the newest REPORTs and counts the drops (law 10, `RingLaw`). |
| `mcu_report_lost` | `McuFirmware_report.cfg` | violation | REPORT entries die with the per-frame OfflineBuffer, never sent. |

Each passing property has a mutant in `PROJECT.json`: a plausible bug in
the code it is about (clearing the file before the flush is sent, a snapshot
instead of a drain, a little-endian length, dropping the newest entry, ...).
TLC finds the property violated when the mutant replaces the definition.

### Refinement

`NodeClient` instantiates `OfflineDelivery` with `File <- InitDisk` (the file
at start-up), `pending <-` the envelopes of that file no AUDIT_FLUSH has
carried yet (in file order), and `sent <- flushed`. `DeliveryRefinement ==
Delivery!Safety /\ (Delivery!Fairness \/ <>[](pc = "spin"))` is checked as a
PROPERTY of `node_pass`. Every flush step of
the code must then be a `Deliver` or a `Redeliver`: a frame repeats some
delivered envelopes in file order and then carries the next pending ones.
This covers a flush after a failed `clear_disk` and restart, and the
re-enqueue after a failed send. All other steps must leave both unchanged.
The abstract fairness `WF(Deliver)` must also follow from the session's
fairness and the link's return, unless the session is stuck in a slice
that never returns (`pc = "spin"`, see `ExecuteIrLoops`): `Svm::execute`
has no step bound, and a session in it flushes nothing more. This one property replaces the two shallower
ones of the first sitting (flush order, eventual flush). A re-enqueue at the
front in reverse order breaks it.

### Bounds

Two registers and twelve slices of at most nine instructions are enough for
every handler, every fallback path, nesting depth 2 of SPAWN/MERGE, and
LOOPs that exit, converge, hit a RETURN or error out. Retrying
instructions keep the default three attempts, so a run can succeed at the
first, second or third call or exhaust all three; one P4 call has
`max_attempts` 0, the edge `max(1)` guards. `DispatchCap = 2`
saturates the history counts, which keeps the backward-jump slice finite.
Spawn regions with more than two LLM children change nothing that the
properties observe. For the vault: one tick is 30 s, the HTTP timeout, so
`KvTimeout = 1`; `Ttl = 1` (the default `cache_ttl` is 300 s, but only its
order relative to the round trip matters). `MaxTime = 2` gives a fetch
inside the TTL, one at the expiry instant, one after it, and round trips of
zero and one tick. `MaxVersion = 1`
gives one rotation per path at any tick. Two paths are used: `sap/api_key`
only in the KV store, and `db/password` also in the environment
(`EnvSecret`), so a KV failure takes both fallback outcomes. P13's calls
carry an endpoint, as `inject_vault_credentials` requires: it reads the
vault path from `dispatch_metadata` (svm.rs 560-562). The run reaches 126k
states in about a minute. The clock
and rotations are enabled only in slices that name a vault path.

`AuditChain`: `MaxEvents = 4` gives chains long enough for a tamper in the
middle with events on both sides. `MaxTampers = 1` is the case law 1 talks
about.

`NodeClient`: a file of two envelopes with `MaxSize = 2` is enough to see a
reorder and a partial loss. `MaxLinkFails = 2` allows a flush that fails and
a second session that fails. `MaxCrashes = 1` puts a restart at every await
of the session. `MaxRequests = 2` with one event per slice gives a failed
slice followed by a successful one. `ArtifactVersions = {0, 1, 2}` covers the
dev version, a match and a mismatch. `LoadOk = {TRUE}` in the pass run
assumes the file is readable; `node_load_loss` drops that assumption.

`McuFirmware`: `Capacity = 2` (for 128) with three REPORTs in one frame
exercises the drop. `MaxFrameLen = 112` (for 4096) is just above the longest
frame, so the stray-byte stream overflows rx_buf and resynchronises.

### Fairness

* `SvmExecutor`: weak fairness of `Exec`. `execute` is one sequential task. Each
  handler's await completes, because the HTTP client has a 30 s timeout and
  back-off sleeps are finite. So an enabled step is eventually taken. It is
  written `ExecFairness == <>(status # "running") \/ []<><<Exec>>_vars`,
  which is `WF_vars(Exec)` with `ENABLED <<Exec>>_vars` replaced by the
  state predicate it equals in every reachable state, `status = "running"`
  (a zero-tick KvFail round trip is always possible); TLC evaluates it far
  faster. The
  clock and secret rotations (`Tick`, `Rotate`) are the environment and get
  no fairness.
* `AuditChain` has no liveness property and no fairness.
* `NodeClient`:
  * The session task's own steps are weakly fair (`WF_vars(Session)`): every
    await it makes completes or fails, and the reconnect sleep ends.
  * The link's return is also weakly fair (`WF_vars(LinkRestore)`). This is
    the environment assumption under which delivery can be promised at all.
  * Central's frames (requests, Close), link failures and crashes get no
    fairness.
* `McuFirmware`: `WF_vars(Next)`. The firmware is one Embassy task, and the
  edge node's bytes keep arriving until the stream ends. The UART `Err` arm
  of `edge_link_task` (main.rs 105-108) only logs and sleeps 10 ms; it
  changes no state, so it is a stutter step and is not an action.

## What is not modelled, and why

* The resource arbiter (`acquire_resource_permit`). Slices never overlap and
  fan-out children take no permit, so a permit is never contended and its
  timeout path is dead code.
* HTTP bodies, the output mapping, what injected credentials do to a
  request, templates and hashing. These are data. The properties only need the value classes above.
* Time, except the vault clock: durations and back-off waits.
* The node entry point, configuration loading and the HTTP probe server.
  These are wiring and I/O. `Crash` models a restart of `main`: fresh
  buffer, chain and health, the same file.
* PING/PONG and CONFIG_UPDATE change no state. Decode and signature-gate
  errors end a handler without a result, as the version refusal does.
* `VaultClient::inject_into_template` and `resolve_slots` have no caller.
* The health probe server and its JSON and metrics text. `Healthy` is the
  probe's verdict.
* On the MCU: the LED task, board set-up, and `enqueue_action_result` and
  `set_link_up`, which have no caller.
* `build.rs`, which generates code from the protobuf schema.

## Observations not checked by a run

The project's run budget is spent, so the following are recorded here from
reading the code while modelling. Each one is visible in the modelled
definitions.

* `call_service_with_fallback` (svm.rs 445-454) sends `enriched_input.or(input)`. When
  a vault path is set, the JSON body becomes `{"__vault_token": <secret>}`
  and the instruction's `src` input is dropped. The comment says "Authorization
  header".
* `llm_call_with_fallback` (svm.rs 507) discards the result of
  `inject_vault_credentials`, so LLM calls never carry the credentials they
  fetched.
* The dynamic-slot resolution in `exec_llm_call` (svm.rs 756) calls `vault.fetch`, but
  `VaultClient` only defines `fetch_secret`.
* `offline_depth` (health.rs 112) is written only on disconnect and on a
  failed execution. After a successful flush, the probe still reports the old
  depth.

* `push` with `max_size` 0 (offline.rs 105-110) keeps one envelope: the
  length check pops from an empty queue, then pushes. `OFFLINE_BUFFER_MAX`
  comes from the environment, so 0 is a reachable setting; spec law 5 says
  the length is min(n, k) = 0. `BufferLaw` is checked for k ≥ 1 only.
* The text `IR_DISTRIBUTION` path (node.rs 186-194) calls
  `execute_ir_from_payload` directly: it skips both the major-version gate
  and `verify_artifact_signature`, which the binary path runs. Even on the
  binary path only the payload checksum is checked; the signature check is a
  TODO (node.rs 463).
* Vault credentials are injected once, before `retry_backoff` starts, so
  every retry reuses the secret fetched for the first attempt, even if its
  TTL expires during the back-off sleeps.

* A successful slice served on the text `IR_DISTRIBUTION` path drains the
  audit chain, but its `RESULT` frame is a `ResultJson` without the events
  (node.rs 300-303, 495-519). Those events never reach central. Spec §4.5
  says the result carries them. No property sees this, because the model
  keeps no record of appended events beyond the chain and the results.
* The health probe reads the atomics one at a time, while the session task
  writes them one at a time (health.rs 84-90, 119-126, 104-108, 111-114).
  Nothing orders the writes against the reads, so:
  * `record_execution` bumps `total` before `failed`, and `to_json` loads
    `total` before `failed`. A probe served in between reports more failed
    executions than executions.
  * `avg_exec_ms` loads `total` before the duration sum. It can report an
    average above every execution's duration.
  * `offline_depth` is left stale after a flush. Suppose the node went
    offline with 1000 or more envelopes queued. After it reconnects and
    empties the queue, it keeps answering `/ready` with 503 until the next
    disconnect. `max_size` defaults to 10,000. But in this code only a file
    loaded at start-up can fill the queue that far, since nothing enqueues
    while offline.
  * In the same case, `/ready` can answer 200 on a disconnect. It reads
    `ws_connected = true`, then the small depth the disconnect wrote. At no
    single instant were both values current.

  Every consistency claim about the probe's snapshot fails for this code,
  and no run slot is left to report a violation. The probe is therefore not
  a module; `Healthy` models `is_healthy` as one read.
* `path_to_env_key` (vault.rs 258-265) maps `/`, `-` and `.` all to `_`. So
  `db/password` and `db-password` read the same `VAULT_SECRET_DB_PASSWORD`.
* The MCU frame parser has no checksum and no timeout for a partial frame
  (main.rs 83-100). Noise containing `0xAA 0x55` starts a frame, and a
  length of 0 makes it complete at once: the firmware executes an empty
  payload nobody sent. A frame cut short on the wire takes its missing
  bytes from the frames that follow and executes the splice, and those
  frames are lost. `FramesDelimited` holds in both cases (the MC streams
  `SSync` and `STrunc`); a property that executed payloads are sent ones
  fails on them.
* `CALL_SERVICE` and `CALL_ACTION` return `Err` from `execute` when a
  resource permit times out (svm.rs 162-166, 188-192). The comment says
  "caller's FallbackEngine handles it", but the `Err` aborts the slice.
  Since slices run one at a time, the timeout cannot happen today.

## Plan

Done in the first sitting: `SvmExecutor`, `AuditChain`, `OfflineBuffer` with
`NodeClient`, and `McuOfflineRing` with `McuFirmware`. Done in the second:
`VaultClient` composed into `SvmExecutor` (law 8), the `OfflineDelivery`
refinement, and the health-liveness property. Done in the third: the
`retry_backoff` loop (law 6, `RetryLaw`), `persist`/`clear_disk` as
operators, and the law-5 check `BufferLaw`. Done in the fourth: the text
path's `ResultJson` conversion (`ResultFrame`), and the health-probe and
vault observations above. Still left:

1. `SvmExecutor`: the resource arbiter, if the node ever runs slices
   concurrently.
2. A second vault rotation per path. Measured in the fourth sitting, it
   takes `exec_pass` to 456k states and 7.5 minutes, over the run limit.
   A third envelope in `NodeClient` adds no state shape: the state count is
   identical. A file longer than `max_size` is not a state a fixed
   configuration reaches.
