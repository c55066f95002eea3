------------------------------- MODULE MCMaci -------------------------------
(***************************************************************************)
(* Polls over a binary state queue of subtrees of two leaves.              *)
(***************************************************************************)
EXTENDS TreeMerger

MCSrQueueLimits == {0, 1}
=============================================================================
