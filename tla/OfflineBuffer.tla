--------------------------- MODULE OfflineBuffer ---------------------------
(***************************************************************************)
(* The node's offline buffer (src/eyeflow-svm-node/src/offline.rs) as      *)
(* operators on its queue and on the content of its NDJSON file.  An       *)
(* envelope is a model value; serialising it to a line and parsing it back *)
(* gives the same envelope, so the file is the sequence of its lines.  An  *)
(* absent file and an empty one are both <<>>: load, persist and clear_disk *)
(* treat them alike.                                                       *)
(***************************************************************************)
EXTENDS Naturals, Sequences, SequencesExt

CONSTANT MaxSize   \* OfflineBuffer::max_size

\* push checking the bound after the push instead of before
PushOverfull(q, e) ==
    Append(IF Len(q) > MaxSize /\ q # <<>> THEN Tail(q) ELSE q, e)

\* push: when full, pop_front the oldest, then push_back
Push(q, e) ==
    Append(IF Len(q) >= MaxSize /\ q # <<>> THEN Tail(q) ELSE q, e)

\* the re-enqueue loop putting each envelope at the front
ReenqueueFront(q, evs) == FoldLeft(LAMBDA acc, e : <<e>> \o acc, q, evs)

\* enqueue_* of each envelope of evs in turn (flush's re-enqueue loop)
Reenqueue(q, evs) == FoldLeft(Push, q, evs)

\* load: push_back each readable line, and stop once len >= max_size; the
\* check follows the push, so a non-empty file always yields one envelope
LoadFrom(q, file) ==
    IF file = <<>> THEN q
    ELSE q \o SubSeq(file, 1, Min({Len(file), Max({1, MaxSize - Len(q)})}))

\* persist: an empty queue truncates the file; a non-empty one is written
\* to a temporary file that is renamed over it.  An error at any await
\* returns before the rename, leaving the file as it was.
Persisted(q, file) == {q, file}

\* clear_disk: the file is removed, or left as it was on an error
Cleared(file) == {<<>>, file}
=============================================================================
