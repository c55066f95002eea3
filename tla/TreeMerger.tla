----------------------------- MODULE TreeMerger -----------------------------
(***************************************************************************)
(* The script that merges a poll's sign-ups (mergeSignupSubtrees and       *)
(* mergeSignups of contracts/tasks/helpers/TreeMerger.ts, called by        *)
(* runner/merge.ts; cli/ts/commands/mergeSignups.ts is the same loop).     *)
(* One script per poll runs beside the sign-ups and the other polls'       *)
(* scripts; between what it reads and the transaction it sends anything    *)
(* may happen.  A transaction that reverts ends the script, it may crash   *)
(* after any step, and the coordinator starts it again.                    *)
(***************************************************************************)
EXTENDS Maci

CONSTANT MaxCrashes     (* bound on the crashes of all scripts together     *)

ASSUME MaxCrashesBound == MaxCrashes \in Nat

VARIABLES
  script,   (* where each poll's script is: "stopped", "loop" (to read      *)
            (*   subTreesMerged), "subroots" (to send its transaction),     *)
            (*   "check" (to read the main root), "merge" (to send), "wait" *)
            (*   (for the receipt), "done" (goes on to the message queue)   *)
  crashes

mergerVars == <<vars, script, crashes>>

MergerInit == Init /\ script = [p \in PollIds |-> "stopped"] /\ crashes = 0

At(p, pc) == p \in DOMAIN polls /\ script[p] = pc
GoTo(p, pc) == script' = [script EXCEPT ![p] = pc] /\ UNCHANGED crashes

\* The task's start, after the end of the voting period.
start(p) == At(p, "stopped") /\ GoTo(p, "loop") /\ UNCHANGED vars

\* while (!subTreesMerged): the read that decides.
readSubTreesMerged(p) ==
  /\ At(p, "loop")
  /\ GoTo(p, IF stateAq.subTreesMerged THEN "check" ELSE "subroots")
  /\ UNCHANGED vars

\* mergeMaciStateAqSubRoots(queueOps), or the error of a revert.
sendMergeSubRoots(p) ==
  /\ At(p, "subroots")
  /\ \/ MergeSubRootsBy(p) /\ GoTo(p, "loop")
     \/ /\ polls[p].stateAqMerged \/ ~CanMergeSubRoots(stateAq)
        /\ GoTo(p, "stopped") /\ UNCHANGED vars

\* Mutant: nobody asks for the main root of the first poll.
AlwaysMerges(p) == TRUE

\* mainRoot === "0" || pollId > 0
HasToMerge(p) == getMainRoot(stateAq, stateTreeDepth) = Empty \/ p > 1

readMainRoot(p) ==
  /\ At(p, "check")
  /\ GoTo(p, IF ~CanGetMainRoot(stateAq, stateTreeDepth) THEN "stopped"
             ELSE IF HasToMerge(p) THEN "merge" ELSE "done")
  /\ UNCHANGED vars

sendMerge(p) ==
  /\ At(p, "merge")
  /\ \/ MergeBy(p) /\ GoTo(p, "wait")
     \/ /\ polls[p].stateAqMerged \/ ~CanMerge(stateAq, stateTreeDepth)
        /\ GoTo(p, "stopped") /\ UNCHANGED vars

receive(p) == At(p, "wait") /\ GoTo(p, "done") /\ UNCHANGED vars

crash(p) ==
  /\ p \in DOMAIN polls /\ script[p] \notin {"stopped", "done"}
  /\ crashes < MaxCrashes
  /\ crashes' = crashes + 1
  /\ script' = [script EXCEPT ![p] = "stopped"]
  /\ UNCHANGED vars

ScriptStep(p) ==
  \/ start(p)
  \/ readSubTreesMerged(p)
  \/ sendMergeSubRoots(p)
  \/ readMainRoot(p)
  \/ sendMerge(p)
  \/ receive(p)

Idle == UNCHANGED <<script, crashes>>

MergerNext ==
  \/ signUp /\ Idle
  \/ deployPoll /\ Idle
  \/ \E p \in PollIds : ScriptStep(p) \/ crash(p)

Unfinished(p) == p \in DOMAIN polls /\ script[p] # "done"

\* The coordinator lets the script run and starts it again when it stops: weak
\* fairness of ScriptStep(p), with its ENABLED, Unfinished(p), written out.
MergerSpec ==
  /\ MergerInit /\ [][MergerNext]_mergerVars
  /\ \A p \in PollIds : <>[]Unfinished(p) => []<><<ScriptStep(p)>>_mergerVars

-----------------------------------------------------------------------------
\* mergeSignups goes on without a merge if the queue has a main root and the
\* poll is the first one; the root is then the one this poll has recorded,
\* and no other script or earlier run can have left it there.
DoneHoldsSnapshot == \A p \in PollIds : At(p, "done") => Merged(p)

\* A script that is interrupted after its merge may not get past mergeSignups
\* again: mergeMaciStateAq, or mergeMaciStateAqSubRoots after a sign-up,
\* reverts with StateAqAlreadyMerged.
CannotResume(p) ==
  At(p, "stopped") /\ Merged(p) /\ (p > 1 \/ ~stateAq.subTreesMerged)

\* Every poll's script comes to its end, sign-ups, other scripts and crashes
\* notwithstanding, except when a crash hits it after its last transaction.
ScriptsFinish ==
  \A p \in PollIds : p \in DOMAIN polls ~> At(p, "done") \/ CannotResume(p)
=============================================================================
