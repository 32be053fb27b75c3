-------------------------- MODULE OfflineDelivery --------------------------
(***************************************************************************)
(* What the edge node promises central about the envelopes its offline    *)
(* file held at start-up (spec 3 lifecycles, spec 5 ordering): each one is *)
(* delivered at least once, and the envelopes are first delivered in file  *)
(* order.  A delivery is one AUDIT_FLUSH frame: it may repeat envelopes    *)
(* already delivered (a flush whose clear_disk failed is flushed again     *)
(* after a restart), in file order, followed by the next envelopes still   *)
(* pending.                                                                *)
(***************************************************************************)
EXTENDS Sequences, SequencesExt

CONSTANT File        \* the envelopes of the file, in order

VARIABLES
    pending,         \* envelopes never delivered, in file order
    sent             \* the AUDIT_FLUSH frames central received

Delivered == ToSet(File) \ ToSet(pending)

InFileOrder(S) == SelectSeq(File, LAMBDA e : e \in S)

Init ==
    /\ pending = File
    /\ sent = <<>>

\* a frame that carries the next k pending envelopes, after a repeat of
\* some delivered ones
Deliver ==
    /\ pending # <<>>
    /\ \E k \in 1 .. Len(pending), again \in SUBSET Delivered :
         /\ sent' = Append(sent, InFileOrder(again) \o SubSeq(pending, 1, k))
         /\ pending' = SubSeq(pending, k + 1, Len(pending))

\* a frame that only repeats delivered envelopes
Redeliver ==
    /\ \E again \in SUBSET Delivered \ {{}} :
         sent' = Append(sent, InFileOrder(again))
    /\ UNCHANGED pending

Next == Deliver \/ Redeliver

Safety == Init /\ [][Next]_<<pending, sent>>

\* pending envelopes do not wait forever
Fairness == WF_<<pending, sent>>(Deliver)

Spec == Safety /\ Fairness
=============================================================================
