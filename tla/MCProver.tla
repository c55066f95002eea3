------------------------------ MODULE MCProver ------------------------------
(***************************************************************************)
(* Up to four messages in batches of two, and sign-ups in ballot batches   *)
(* of two: three batches, so that a subsidy may resume at a row beyond the *)
(* first, or two, when the next number is then taken for the last.         *)
(***************************************************************************)
EXTENDS Prover

MCSignUpCounts == {5}
MCThreeSignUps == {3}
MCNumSrQueueOps == {0}
=============================================================================
