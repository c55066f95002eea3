----------------------------- MODULE MCAccQueue -----------------------------
(***************************************************************************)
(* A binary queue of subtrees of four leaves, up to four subtrees.         *)
(***************************************************************************)
EXTENDS AccQueueTs

MCOpLimits == {0, 1, 2}
MCMainDepths == {2, 4}
=============================================================================
