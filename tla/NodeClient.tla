---------------------------- MODULE NodeClient ----------------------------
(***************************************************************************)
(* The edge node's link session (NodeClient::run, connect_and_run,         *)
(* handle_*_message, execute_ir and flush_offline_events in                *)
(* src/eyeflow-svm-node/src/node.rs) with the offline buffer and its file  *)
(* (offline.rs), the audit chain the executor appends to, and the health   *)
(* atomics (health.rs).                                                    *)
(*                                                                         *)
(* The session is one task; pc is its position between awaits.  The       *)
(* environment takes the link down and up, and may kill the process at    *)
(* any point (the file survives, memory does not).  A slice execution is   *)
(* abstracted to its outcome and the audit events it appended.  A send     *)
(* returns Ok exactly when the link is up, and a frame sent Ok reaches     *)
(* central.                                                                *)
(***************************************************************************)
EXTENDS Integers, Sequences, SequencesExt

CONSTANTS
    InitDisk,         \* the NDJSON file left by an earlier run: envelopes
    MaxSize,          \* offline_buffer_max
    NodeMajor,        \* config.ir_version_major
    ArtifactVersions, \* artifact.version values central sends
    LoadOk,           \* outcomes of reading the file at start-up
    MaxRequests,      \* bound on IR distributions central sends
    MaxSliceEvents,   \* bound on audit events one slice appends
    MaxLinkFails,     \* bound on link failures
    MaxCrashes        \* bound on process crashes

Buf == INSTANCE OfflineBuffer

\* the buffer built with another max_size
BufK(k) == INSTANCE OfflineBuffer WITH MaxSize <- k

Envelopes == ToSet(InitDisk)
Failed(r) == [failed |-> r]        \* the FAILED ExecutionResult envelope
Event(r, k) == [slice |-> r, ev |-> k]
NoResult == [req |-> 0]

VARIABLES
    pc,         \* where the session task is
    link,       \* the transport: "up" or "down"
    online,     \* OfflineBuffer::is_online
    queue,      \* OfflineBuffer::queue
    disk,       \* content of the NDJSON file
    chain,      \* AuditChain::chain, events not yet drained
    nreq,       \* IR distributions received so far (their ids)
    pending,    \* the result frame the task is sending
    wsConn,     \* HealthState::ws_connected
    depth,      \* HealthState::offline_depth
    execs,      \* HealthState::executions_total / executions_failed
    flushed,    \* history: AUDIT_FLUSH frames central received
    results,    \* history: result frames central received
    nfails,     \* link failures so far
    ncrashes    \* crashes so far

vars == <<pc, link, online, queue, disk, chain, nreq, pending, wsConn, depth,
          execs, flushed, results, nfails, ncrashes>>

Init ==
    /\ pc = "start"
    /\ link \in {"up", "down"}
    /\ online = FALSE
    /\ queue = <<>>
    /\ disk = InitDisk
    /\ chain = <<>>
    /\ nreq = 0
    /\ pending = NoResult
    /\ wsConn = FALSE
    /\ depth = 0
    /\ execs = [total |-> 0, failed |-> 0]
    /\ flushed = <<>>
    /\ results = <<>>
    /\ nfails = 0
    /\ ncrashes = 0

-----------------------------------------------------------------------------
\* run: restore the persisted buffer; a load error is only logged
Load ==
    /\ pc = "start"
    /\ \E ok \in LoadOk : queue' = IF ok THEN Buf!LoadFrom(queue, disk) ELSE queue
    /\ pc' = "connect"
    /\ UNCHANGED <<link, online, disk, chain, nreq, pending, wsConn, depth,
                   execs, flushed, results, nfails, ncrashes>>

\* connect_and_run: the handshake; on success notify_connected(true) and
\* set_ws_connected(true), on failure return Err to run
Connect ==
    /\ pc = "connect"
    /\ IF link = "up"
         THEN /\ pc' = "register"
              /\ online' = TRUE
              /\ wsConn' = TRUE
         ELSE /\ pc' = "down"
              /\ UNCHANGED <<online, wsConn>>
    /\ UNCHANGED <<link, queue, disk, chain, nreq, pending, depth, execs,
                   flushed, results, nfails, ncrashes>>

\* send REGISTER; a send error ends the session (the ? at node.rs:137)
Register ==
    /\ pc = "register"
    /\ pc' = IF link = "up" THEN "flush" ELSE "down"
    /\ UNCHANGED <<link, online, queue, disk, chain, nreq, pending, wsConn,
                   depth, execs, flushed, results, nfails, ncrashes>>

\* flush clearing the file when it drains, before the send
FlushSendClearingFirst ==
    /\ pc = "flush"
    /\ IF queue = <<>>
         THEN /\ pc' = "serve"
              /\ UNCHANGED <<queue, flushed, disk>>
         ELSE /\ disk' = <<>>
              /\ IF link = "up"
                   THEN /\ flushed' = Append(flushed, queue)
                        /\ queue' = <<>>
                        /\ pc' = "clear"
                   ELSE /\ queue' = Buf!Reenqueue(<<>>, queue)
                        /\ pc' = "serve"
                        /\ UNCHANGED flushed
    /\ UNCHANGED <<link, online, chain, nreq, pending, wsConn, depth,
                   execs, results, nfails, ncrashes>>

\* flush_offline_events: nothing to do when the queue is empty; else
\* drain_for_flush, send one AUDIT_FLUSH, and re-enqueue on a send error.
\* Either way the session goes on to the message loop.
FlushSend ==
    /\ pc = "flush"
    /\ IF queue = <<>>
         THEN /\ pc' = "serve"
              /\ UNCHANGED <<queue, flushed>>
         ELSE IF link = "up"
         THEN /\ flushed' = Append(flushed, queue)
              /\ queue' = <<>>
              /\ pc' = "clear"
         ELSE /\ queue' = Buf!Reenqueue(<<>>, queue)
              /\ pc' = "serve"
              /\ UNCHANGED flushed
    /\ UNCHANGED <<link, online, disk, chain, nreq, pending, wsConn, depth,
                   execs, results, nfails, ncrashes>>

\* clear_disk after the flush was sent; an error is only logged
ClearDisk ==
    /\ pc = "clear"
    /\ disk' \in Buf!Cleared(disk)
    /\ pc' = "serve"
    /\ UNCHANGED <<link, online, queue, chain, nreq, pending, wsConn, depth,
                   execs, flushed, results, nfails, ncrashes>>

\* HealthState::record_execution: count the execution, and the failure
RecordExecution(e, ok) ==
    [total |-> e.total + 1, failed |-> e.failed + IF ok THEN 0 ELSE 1]

\* Svm::execute of slice r: appends n audit events under the chain lock
SliceEvents(r, n) == [k \in 1 .. n |-> Event(r, k)]

\* the frame central receives for a slice result: the binary path encodes
\* the SliceExecutionResult with its audit events; the text path converts
\* it to ResultJson, which has no audit_events field
ResultFrame(frame, res) ==
    IF frame = "text" THEN [res EXCEPT !.events = <<>>] ELSE res

\* execute_ir taking a snapshot of the chain instead of draining it
ExecuteIrSnapshot ==
    /\ pc = "serve"
    /\ link = "up"
    /\ nreq < MaxRequests
    /\ \E frame \in {"text", "binary"}, v \in ArtifactVersions,
          ok \in BOOLEAN, n \in 0 .. MaxSliceEvents :
         LET r   == nreq + 1
             all == chain \o SliceEvents(r, n)
         IN  /\ frame = "binary" => v \in {0, NodeMajor}
             /\ nreq' = r
             /\ execs' = RecordExecution(execs, ok)
             /\ IF ok
                  THEN /\ pending' = ResultFrame(frame,
                                    [req |-> r, status |-> "SUCCESS", events |-> all])
                       /\ chain' = all
                       /\ UNCHANGED <<queue, depth>>
                  ELSE /\ pending' = [req |-> r, status |-> "FAILED", events |-> <<>>]
                       /\ chain' = all
                       /\ depth' = Len(queue)
                       /\ queue' = IF ~online THEN Buf!Push(queue, Failed(r)) ELSE queue
    /\ pc' = "reply"
    /\ UNCHANGED <<link, online, disk, wsConn, flushed, results, nfails, ncrashes>>

\* an IR_DISTRIBUTION (text, no version gate) or a binary
\* IRDistributionMessage whose version passes the gate: execute_ir runs
\* the slice.  On success it drains the whole chain into the result (which
\* only the binary frame carries to central: ResultFrame); on
\* failure it records the failure, sets the depth, enqueues a FAILED
\* envelope if buffering, and returns FAILED with no audit events.
ExecuteIr ==
    /\ pc = "serve"
    /\ link = "up"
    /\ nreq < MaxRequests
    /\ \E frame \in {"text", "binary"}, v \in ArtifactVersions,
          ok \in BOOLEAN, n \in 0 .. MaxSliceEvents :
         LET r   == nreq + 1
             all == chain \o SliceEvents(r, n)
         IN  /\ frame = "binary" => v \in {0, NodeMajor}
             /\ nreq' = r
             /\ execs' = RecordExecution(execs, ok)
             /\ IF ok
                  THEN /\ pending' = ResultFrame(frame,
                                    [req |-> r, status |-> "SUCCESS", events |-> all])
                       /\ chain' = <<>>
                       /\ UNCHANGED <<queue, depth>>
                  ELSE /\ pending' = [req |-> r, status |-> "FAILED", events |-> <<>>]
                       /\ chain' = all
                       /\ depth' = Len(queue)
                       /\ queue' = IF ~online THEN Buf!Push(queue, Failed(r)) ELSE queue
    /\ pc' = "reply"
    /\ UNCHANGED <<link, online, disk, wsConn, flushed, results, nfails, ncrashes>>

\* execute_ir on a slice that never returns: Svm::execute's while loop
\* (svm.rs 122) has no step bound, and a backward JUMP or BRANCH
\* (240-248) keeps it running while its audited handlers append to the
\* chain.  The session task never reads again; only a crash ends it.
ExecuteIrLoops ==
    /\ pc = "serve"
    /\ link = "up"
    /\ nreq < MaxRequests
    /\ \E n \in 0 .. MaxSliceEvents : chain' = chain \o SliceEvents(nreq + 1, n)
    /\ nreq' = nreq + 1
    /\ pc' = "spin"
    /\ UNCHANGED <<link, online, queue, disk, pending, wsConn, depth, execs,
                   flushed, results, nfails, ncrashes>>

\* a binary IRDistributionMessage of another major version: the alert is
\* posted and handle_binary_message returns Err, which the loop logs
RefuseVersion ==
    /\ pc = "serve"
    /\ link = "up"
    /\ nreq < MaxRequests
    /\ ArtifactVersions \ {0, NodeMajor} # {}
    /\ nreq' = nreq + 1
    /\ UNCHANGED <<pc, link, online, queue, disk, chain, pending, wsConn, depth,
                   execs, flushed, results, nfails, ncrashes>>

\* send the RESULT (or binary result) frame; a send error propagates to
\* the loop, which logs it and reads on
SendResult ==
    /\ pc = "reply"
    /\ results' = IF link = "up" THEN Append(results, pending) ELSE results
    /\ pending' = NoResult
    /\ pc' = "serve"
    /\ UNCHANGED <<link, online, queue, disk, chain, nreq, wsConn, depth, execs,
                   flushed, nfails, ncrashes>>

\* read.next() on a dead link yields an error: the ? ends the session
ReadEnds ==
    /\ pc = "serve"
    /\ link = "down"
    /\ pc' = "down"
    /\ UNCHANGED <<link, online, queue, disk, chain, nreq, pending, wsConn,
                   depth, execs, flushed, results, nfails, ncrashes>>

\* central sends Close: the loop breaks and connect_and_run returns Ok
ServerClose ==
    /\ pc = "serve"
    /\ link = "up"
    /\ pc' = "down"
    /\ UNCHANGED <<link, online, queue, disk, chain, nreq, pending, wsConn,
                   depth, execs, flushed, results, nfails, ncrashes>>

\* persist opening the file for append instead of replacing it
SessionEndAppending ==
    /\ pc = "down"
    /\ wsConn' = FALSE
    /\ online' = FALSE
    /\ depth' = Len(queue)
    /\ \E ok \in BOOLEAN : disk' = IF ok THEN disk \o queue ELSE disk
    /\ pc' = "connect"
    /\ UNCHANGED <<link, queue, chain, nreq, pending, execs, flushed, results,
                   nfails, ncrashes>>

\* run after connect_and_run returns, leaving the health flag set
SessionEndKeepsHealth ==
    /\ pc = "down"
    /\ online' = FALSE
    /\ depth' = Len(queue)
    /\ disk' \in Buf!Persisted(queue, disk)
    /\ pc' = "connect"
    /\ UNCHANGED <<link, queue, chain, nreq, pending, wsConn, execs, flushed,
                   results, nfails, ncrashes>>

\* run after connect_and_run returns: mark offline, set the depth,
\* persist (an error is only logged), sleep, and connect again.  persist
\* writes a temporary file and renames it: the file is old or new.
SessionEnd ==
    /\ pc = "down"
    /\ wsConn' = FALSE
    /\ online' = FALSE
    /\ depth' = Len(queue)
    /\ disk' \in Buf!Persisted(queue, disk)
    /\ pc' = "connect"
    /\ UNCHANGED <<link, queue, chain, nreq, pending, execs, flushed, results,
                   nfails, ncrashes>>

\* Environment: the link drops
LinkFail ==
    /\ link = "up"
    /\ nfails < MaxLinkFails
    /\ link' = "down"
    /\ nfails' = nfails + 1
    /\ UNCHANGED <<pc, online, queue, disk, chain, nreq, pending, wsConn, depth,
                   execs, flushed, results, ncrashes>>

\* Environment: central becomes reachable again.  A connection that broke
\* stays broken: only the next handshake sees the link back.
LinkRestore ==
    /\ link = "down"
    /\ pc \in {"start", "connect", "down"}
    /\ link' = "up"
    /\ UNCHANGED <<pc, online, queue, disk, chain, nreq, pending, wsConn, depth,
                   execs, flushed, results, nfails, ncrashes>>

\* Environment: the process dies and main starts a fresh NodeClient with a
\* new OfflineBuffer, AuditChain and HealthState; the file survives
Crash ==
    /\ pc # "start"
    /\ ncrashes < MaxCrashes
    /\ pc' = "start"
    /\ online' = FALSE
    /\ queue' = <<>>
    /\ chain' = <<>>
    /\ pending' = NoResult
    /\ wsConn' = FALSE
    /\ depth' = 0
    /\ execs' = [total |-> 0, failed |-> 0]
    /\ ncrashes' = ncrashes + 1
    /\ UNCHANGED <<link, disk, nreq, flushed, results, nfails>>

\* the steps the session task takes on its own (not on a frame from central)
Session == Load \/ Connect \/ Register \/ FlushSend \/ ClearDisk \/ SendResult
           \/ ReadEnds \/ SessionEnd

\* what central sends
Central == ExecuteIr \/ ExecuteIrLoops \/ RefuseVersion \/ ServerClose

Next == Session \/ Central \/ LinkFail \/ LinkRestore \/ Crash

\* the session task is never starved (every await it makes completes, the
\* sleep ends); the link comes back after it fails
Spec == Init /\ [][Next]_vars /\ WF_vars(Session) /\ WF_vars(LinkRestore)

-----------------------------------------------------------------------------
(***************************************************************************)
(* Properties                                                              *)
(***************************************************************************)
FlushedEnvs == UNION {ToSet(flushed[i]) : i \in DOMAIN flushed}

\* HealthState::is_healthy: what /health reports as "ok" and /ready as 200
Healthy == wsConn /\ depth < 1000

\* Type invariant
TypeOK ==
    /\ pc \in {"start", "connect", "register", "flush", "clear", "serve",
              "reply", "down", "spin"}
    /\ link \in {"up", "down"}
    /\ online \in BOOLEAN /\ wsConn \in BOOLEAN
    /\ Len(queue) <= MaxSize
    /\ ToSet(queue) \subseteq Envelopes \cup {Failed(r) : r \in 1 .. MaxRequests}
    /\ Len(disk) <= MaxSize
    /\ ToSet(disk) \subseteq Envelopes \cup {Failed(r) : r \in 1 .. MaxRequests}
    /\ nreq \in 0 .. MaxRequests
    /\ depth \in 0 .. MaxSize
    /\ execs.failed <= execs.total /\ execs.total <= MaxRequests

\* Spec 3 lifecycles: an envelope of the file lives until an AUDIT_FLUSH
\* carrying it was sent.  Flush, clear_disk, re-enqueue, persist and load
\* (node.rs 390-432, 95-104, 77-81) must keep every envelope in memory, on
\* disk or delivered, across link failures and crashes at any await.
NoEnvelopeLost ==
    \A e \in Envelopes : e \in ToSet(queue) \cup ToSet(disk) \cup FlushedEnvs


\* An audit event reaches central in at most one result: execute_ir drains
\* the chain into a SUCCESS result (node.rs 352), so no later result
\* carries it again.
AuditDeliveredOnce ==
    \A i, j \in DOMAIN results :
        i # j => ToSet(results[i].events) \cap ToSet(results[j].events) = {}

\* The session seen by central: the file's envelopes never flushed are
\* pending, the AUDIT_FLUSH frames are the deliveries.
Delivery == INSTANCE OfflineDelivery
    WITH File <- InitDisk,
         pending <- SelectSeq(InitDisk, LAMBDA e : e \notin FlushedEnvs),
         sent <- flushed

\* Spec 3 and 5: the node implements an at-least-once, in-order channel
\* for its offline file.  Every AUDIT_FLUSH (drain_for_flush after load or
\* re-enqueue, node.rs 390-432) repeats delivered envelopes in file order
\* and then carries the next undelivered ones in file order, across link
\* failures, failed clear_disk and crashes; and once the link stays up,
\* every envelope is delivered (run's reconnect loop, the flush after
\* REGISTER), unless the session ends stuck in a slice that never returns.
DeliveryRefinement == Delivery!Safety /\ (Delivery!Fairness \/ <>[](pc = "spin"))

\* Spec 4.5 and 7: every IR distribution gets a slice result (but for a
\* slice still running); a refused version gets a FAILED result, and
\* results emitted while the link is down are buffered.
\* (handle_binary_message, handle_text_message)
ResultForEveryRequest ==
    \A r \in 1 .. nreq :
        \/ \E i \in DOMAIN results : results[i].req = r
        \/ pending.req = r
        \/ pc = "spin" /\ r = nreq      \* its slice is still running

\* Spec 4.5: a result carries the drained audit events of its own slice;
\* a FAILED slice's events stay in the chain (node.rs 323-347).
ResultAuditOwn ==
    \A i \in DOMAIN results :
        \A k \in DOMAIN results[i].events : results[i].events[k].slice = results[i].req

\* The probe task reads the health atomics without coordination (spec 6):
\* once the connection the node reports healthy is lost, /health and /ready
\* eventually stop reporting it healthy, even if central becomes reachable
\* again meanwhile, unless the session is stuck in a slice that never
\* returns (then it stays "healthy" until the process dies).  The session
\* task must notice the loss (read.next() errs, or the send of REGISTER, a
\* result or a flush fails) and reach set_ws_connected(false) in run
\* (node.rs 84-110) before its next handshake, whatever step it was in.
HealthSeesLinkLoss ==
    (Healthy /\ link = "down") ~> (~Healthy \/ pc = "spin")

\* Spec 8 law 5, from every queue the node reaches and, for every max_size
\* k from 1 to one past the configured size, from an empty buffer: after
\* n more enqueues (push, drop oldest, offline.rs 105-115) the buffer holds
\* the last k of all its envelopes in order, and a persist of that queue
\* followed by a load into a fresh buffer (offline.rs 174-201) restores it.
\* The reached queue must itself respect max_size for this to hold.
BufferLaw ==
    LET Fresh(n) == [i \in 1 .. n |-> [fresh |-> i]]
        Law(k, q0, n) ==
            LET all  == q0 \o Fresh(n)
                q    == FoldLeft(LAMBDA acc, e : BufK(k)!Push(acc, e), q0, Fresh(n))
                kept == IF Len(all) <= k THEN Len(all) ELSE k
            IN  /\ q = SubSeq(all, Len(all) - kept + 1, Len(all))
                /\ \A f \in BufK(k)!Persisted(q, <<>>) :
                       f = q => BufK(k)!LoadFrom(<<>>, f) = q
    IN  /\ \A n \in 0 .. MaxSize + 1 : Law(MaxSize, queue, n)
        /\ \A k \in 1 .. MaxSize + 1, n \in 0 .. MaxSize + 2 : Law(k, <<>>, n)
=============================================================================
