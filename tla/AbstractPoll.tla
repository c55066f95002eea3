---------------------------- MODULE AbstractPoll ----------------------------
(***************************************************************************)
(* What the contracts of a poll promise to those who rely on its result,   *)
(* whoever calls them and in whatever order: the voters are fixed once; a  *)
(* commitment to the processed state moves until it is final and never     *)
(* again; the ballots are counted from the final commitment, in order,     *)
(* each once, and none but the voters'.                                    *)
(***************************************************************************)
EXTENDS Integers, Sequences

VARIABLES
  voters,       (* 0 until they are fixed                                   *)
  commitment,   (* to the state and the ballots                             *)
  final,
  source,       (* the commitment the result is computed from               *)
  counted       (* the ballots in the result                                *)

apVars == <<voters, commitment, final, source, counted>>

None == << >>

APInit ==
  /\ voters = 0
  /\ commitment = None
  /\ final = FALSE
  /\ source = None
  /\ counted = << >>

FixVoters ==
  /\ voters = 0
  /\ voters' \in Nat \ {0}
  /\ UNCHANGED <<commitment, final, source, counted>>

Process ==
  /\ voters > 0
  /\ ~final
  /\ final' \in BOOLEAN
  /\ UNCHANGED <<voters, source, counted>>

Choose ==
  /\ final
  /\ source = None
  /\ source' = commitment
  /\ UNCHANGED <<voters, commitment, final, counted>>

\* The ballots from the first to the k-th make up the new result.
Count ==
  /\ final
  /\ source \in {None, commitment}
  /\ source' = commitment
  /\ \E k \in (Len(counted) + 1)..voters : counted' = [i \in 1..k |-> i - 1]
  /\ UNCHANGED <<voters, commitment, final>>

APNext == FixVoters \/ Process \/ Choose \/ Count

APSpec == APInit /\ [][APNext]_apVars
=============================================================================
