-------------------------------- MODULE Poll --------------------------------
(***************************************************************************)
(* The Poll contract (contracts/Poll.sol): voters publish messages into    *)
(* its message queue, the coordinator merges the state tree of MACI and    *)
(* the message queue and thereby fixes what has to be processed.           *)
(*                                                                         *)
(* The k-th message published is modelled by the number k; message 1 is    *)
(* the placeholder that init() publishes.  A state and ballot commitment   *)
(* is modelled by the messages processed on the way to it, after a first   *)
(* element, InitialState, that stands for the merged state root and the    *)
(* empty ballots; the empty sequence is the storage value 0.               *)
(***************************************************************************)
EXTENDS AccQueueOps

CONSTANTS
  messageTreeDepth,  (* depth of the merged message tree                   *)
  maxMessages,       (* maxValues.maxMessages                              *)
  SignUpCounts,      (* the numbers of sign-ups MACI may report at merging *)
  NumSrQueueOps,     (* the mergeSubRoots limits the coordinator passes    *)
  MaxBatchLength,    (* bound on the length of a publishMessageBatch       *)
  Gate               (* what the deadline modifiers check: "none" in       *)
                     (*   contracts/, where the checks are commented out,  *)
                     (*   "finished", a flag, in maci-interface's copy     *)

\* MACI.deployPoll sets maxMessages to TREE_ARITY ** messageTreeDepth, which a
\* queue of depth MAX_DEPTH holds.
ASSUME PollConstants ==
  /\ messageTreeDepth \in Levels
  /\ maxMessages \in Nat \ {0} /\ maxMessages <= hashLength ^ MAX_DEPTH
  /\ SignUpCounts \subseteq Nat \ {0}
  /\ NumSrQueueOps \subseteq Nat
  /\ MaxBatchLength \in Nat
  /\ Gate \in {"none", "finished"}

VARIABLES
  over,                 (* more than `duration` has passed since deployTime *)
  finished,             (* the flag of maci-interface's copy                *)
  numMessages,
  messageAq,            (* the storage of the poll's AccQueue               *)
  stateAqMerged,
  numSignups,           (* MACI's sign-ups as of mergeMaciStateAq           *)
  currentSbCommitment,
  merging               (* history: "no" before the first call of           *)
                        (*   mergeMessageAqSubRoots, then "yes", and        *)
                        (*   "late" once a message has followed             *)

pollVars == <<over, finished, numMessages, messageAq, stateAqMerged,
              numSignups, currentSbCommitment, merging>>

InitialState == 0

\* The factory calls init() before anybody else can: the poll starts with its
\* placeholder message queued.
PollInit ==
  /\ over = FALSE
  /\ finished = FALSE
  /\ numMessages = 1
  /\ messageAq = enqueue(NewAccQueue, 1)
  /\ stateAqMerged = FALSE
  /\ numSignups = 0
  /\ currentSbCommitment = Empty
  /\ merging = "no"

isAfterVotingDeadline == Gate = "finished" => finished

isWithinVotingDeadline == Gate = "finished" => ~finished

\* block.timestamp - deployTime exceeds the poll's duration.
PeriodEnds ==
  /\ ~over
  /\ over' = TRUE
  /\ UNCHANGED <<finished, numMessages, messageAq, stateAqMerged, numSignups,
                 currentSbCommitment, merging>>

\* setFinish, which only maci-interface's copy has and anybody may call.
setFinish(state) ==
  /\ Gate = "finished"
  /\ finished' = state
  /\ UNCHANGED <<over, numMessages, messageAq, stateAqMerged, numSignups,
                 currentSbCommitment, merging>>

\* numMessages after n more messages.
MessagesAfter(n) == numMessages + n

\* The messages k+1..k+n in the queue, one enqueue each.
EnqueueMessages(k, n) ==
  LET after[i \in 0..n] == IF i = 0 THEN messageAq ELSE enqueue(after[i - 1], k + i)
  IN  after[n]

\* publishMessage, topup and, for n messages in one transaction,
\* publishMessageBatch: all of them or none.
Publish(n) ==
  /\ isWithinVotingDeadline
  /\ numMessages + n <= maxMessages
  /\ numMessages' = MessagesAfter(n)
  /\ messageAq' = EnqueueMessages(numMessages, n)
  /\ merging' = IF merging = "no" THEN "no" ELSE "late"
  /\ UNCHANGED <<over, finished, stateAqMerged, numSignups, currentSbCommitment>>

publishMessage == Publish(1)
topup == Publish(1)
publishMessageBatch == \E n \in 2..MaxBatchLength : Publish(n)

\* mergeMaciStateAq: MACI's subtrees are merged by then, and MACI reports its
\* number of sign-ups.
mergeMaciStateAq(maciNumSignUps) ==
  /\ isAfterVotingDeadline
  /\ ~stateAqMerged
  /\ stateAqMerged' = TRUE
  /\ currentSbCommitment' = <<InitialState>>
  /\ numSignups' = maciNumSignUps
  /\ UNCHANGED <<over, finished, numMessages, messageAq, merging>>

mergeMessageAqSubRoots(numSrQueueOps) ==
  /\ isAfterVotingDeadline
  /\ CanMergeSubRoots(messageAq)
  /\ messageAq' = mergeSubRoots(messageAq, numSrQueueOps)
  /\ merging' = IF merging = "no" THEN "yes" ELSE merging
  /\ UNCHANGED <<over, finished, numMessages, stateAqMerged, numSignups,
                 currentSbCommitment>>

mergeMessageAq ==
  /\ isAfterVotingDeadline
  /\ CanMerge(messageAq, messageTreeDepth)
  /\ messageAq' = merge(messageAq, messageTreeDepth)
  /\ UNCHANGED <<over, finished, numMessages, stateAqMerged, numSignups,
                 currentSbCommitment, merging>>

MergeStateTree == \E n \in SignUpCounts : mergeMaciStateAq(n)
MergeMessageSubRoots == \E n \in NumSrQueueOps : mergeMessageAqSubRoots(n)

PollNext ==
  \/ PeriodEnds
  \/ \E state \in BOOLEAN : setFinish(state)
  \/ publishMessage
  \/ topup
  \/ publishMessageBatch
  \/ MergeStateTree
  \/ MergeMessageSubRoots
  \/ mergeMessageAq
=============================================================================
