-------------------------- MODULE McuOfflineRing --------------------------
(***************************************************************************)
(* The MCU's SRAM offline ring (src/eyeflow-svm-mcu/src/offline.rs): a     *)
(* heapless Deque of OFFLINE_CAPACITY entries and its dropped counter.  A  *)
(* ring is [q |-> entries, dropped |-> n, linkUp |-> b]; an entry is       *)
(* [type, flags, value] as OfflineEntry has it.                            *)
(***************************************************************************)
EXTENDS Naturals, Sequences

CONSTANT Capacity   \* OFFLINE_CAPACITY

\* OfflineBuffer::new
Empty == [q |-> <<>>, dropped |-> 0, linkUp |-> FALSE]

\* push keeping the old entries and dropping the new one when full
PushDropNewest(b, e) ==
    IF Len(b.q) < Capacity THEN [b EXCEPT !.q = Append(@, e)]
    ELSE [b EXCEPT !.dropped = @ + 1]

\* push: push_back; when that fails, pop_front, count the drop, push again
Push(b, e) ==
    IF Len(b.q) < Capacity THEN [b EXCEPT !.q = Append(@, e)]
    ELSE [b EXCEPT !.q = Append(Tail(@), e), !.dropped = @ + 1]

\* enqueue_report: a REPORT entry with no flags
EnqueueReport(b, v) == Push(b, [type |-> "REPORT", flags |-> 0, value |-> v])

\* flush_pending: nothing while the link is down; else pop every entry
\* (the write to the USART is a stub) and reset dropped
FlushPending(b) ==
    IF ~b.linkUp \/ b.q = <<>> THEN b
    ELSE [b EXCEPT !.q = <<>>, !.dropped = 0]
=============================================================================
