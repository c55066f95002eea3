------------------------------ MODULE MCTally -------------------------------
(***************************************************************************)
(* One poll: batches of two messages, at most five messages, two or three  *)
(* sign-ups (a full and a partial last batch) in ballot batches of two.    *)
(***************************************************************************)
EXTENDS TallyRefinement

MCSignUpCounts == {2, 3}
MCNumSrQueueOps == {0, 1}
=============================================================================
