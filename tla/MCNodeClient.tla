--------------------------- MODULE MCNodeClient ---------------------------
(***************************************************************************)
(* Model values for NodeClient: a file of two envelopes left by an earlier *)
(* run.                                                                    *)
(***************************************************************************)
EXTENDS NodeClient

MCInitDisk == << [env |-> 1], [env |-> 2] >>
=============================================================================
