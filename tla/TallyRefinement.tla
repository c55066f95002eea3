-------------------------- MODULE TallyRefinement ---------------------------
(***************************************************************************)
(* The contracts of a poll keep the promise of AbstractPoll: sign-ups are  *)
(* its voters, MessageProcessor's commitment the one that becomes final,   *)
(* and Tally's own copy the source of the result.                          *)
(***************************************************************************)
EXTENDS Tally

Promise == INSTANCE AbstractPoll WITH
  voters <- numSignups,
  commitment <- sbCommitment,
  final <- processingComplete,
  source <- tallySbCommitment,
  counted <- tallyCommitment

\* Every step of Poll, MessageProcessor, Tally and Subsidy is a step of the
\* abstract poll or none: what is tallied comes from the final commitment and
\* nothing that is called later changes it.
KeepsPromise == Promise!APSpec
=============================================================================
