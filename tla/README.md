# MACI in TLA+

This directory holds a verification development of MACI (Minimal Anti-Collusion
Infrastructure) as it stands in this repository: TLA+ modules translated from
the contracts, the coordinator's TypeScript and the circuits, TLC configurations
that check them on small instances, and proofs that TLAPS checks for every
instance.

    tlc -workers 2 -config Tally.cfg MCTally     # one run; the others alike
    tlapm TallyProofs.tla                        # one module of proofs

`PROJECT.json` lists every run, the source lines behind every definition, a
mutant for every property (a plausible bug under which TLC finds the property
violated), the findings and the hazards.

## 1. The system

Users sign up with the **MACI** contract, which queues a state leaf for each in
an **AccQueue** (an incremental Merkle tree built in three stages). A **Poll**
contract collects encrypted messages in an AccQueue of its own. When the poll is
over the coordinator merges both queues, decrypts and processes the messages off
chain (**core**), proves each batch with a circuit, and submits the proofs to
**MessageProcessor**, then to **Tally** and **Subsidy**.

| component | state | operations | interacts with |
|---|---|---|---|
| AccQueue (`contracts/contracts/trees/`) | leaf queue, subroots, subroot queue, small-tree root, main roots, counters, two merge flags | enqueue, fill, insertSubTree, mergeSubRoots(limit), merge(depth) | called by its owner, MACI or a Poll |
| MACI (`MACI.sol`) | numSignUps, polls, block on sign-ups, state queue | signUp, deployPoll, mergeStateAqSubRoots, mergeStateAq | gatekeeper, voice credit proxy, AccQueue; called back by its polls |
| Poll (`Poll.sol`) | numMessages, message queue, snapshot (merged root, numSignups, first commitment) | publishMessage, topup, publishMessageBatch, four merges | MACI for the state queue |
| MessageProcessor | batch index and count, commitment, completeness | processMessages | reads Poll and its queue; verifier |
| Tally, TallyNonQv, Subsidy | copy of the commitment, result commitment, batch counters | updateSbCommitment, tallyVotes, updateSubsidy | read MessageProcessor and Poll |
| core `MaciState`, `Poll` | state leaves, messages, ballots, trees, batch index, salts, processing lock shared by the polls | signUp, publishMessage, updatePoll, processMessages, tallyVotes, subsidyPerBatch, copy, JSON | fed by genMaciState from events; its outputs are circuit inputs |
| processMessages circuit | none | the statement of one batch | must agree with core and with the contract's public inputs |
| genMaciState | the state being rebuilt, one request after the other | fetch, sort, replay, assert | the events and the head of a chain that goes on, core |
| TreeMerger, genProofs, proveOnChain, Prover | where a script is; files of proofs | loops of reads and transactions | all contracts, genMaciState, each other through files and chain |
| deployment tasks (`contracts/tasks/`) | `deployed-contracts.json`, the step being run | deploy-full, deploy-poll, incremental or clean, merge | the contracts and their addresses |
| crypto | TypeScript AccQueue, quinary tree; keys, hashes | the queue's and the tree's methods, copy | used by core and by the tests of contracts/ |
| maci-interface | a copy of the contracts with a `finished` flag | setFinish | as Poll |

What is hard here, and what makes each part correct:

* **AccQueue.** A merge may take several transactions with leaves coming between
  them; blanks fill partial subtrees and complete the small tree. Correct: the
  index returned for a leaf stays its position, a root served commits to all
  leaves in order, counters agree with what is stored, a limited merge advances.
* **MACI and its polls.** One state queue is merged by several polls in turn,
  while users sign up. Correct: a snapshot opens to each user at the index of
  the SignUp event, a block on sign-ups is always lifted, every poll gets its
  snapshot, and the coordinator can recompute the root.
* **Poll and MessageProcessor.** The deadline is not enforced, so messages may
  come between merge and batches; batches go backwards and the last may be
  partial. Correct: the batches cover the messages once, last first, and the
  completeness flag rises with the last one.
* **Tally and Subsidy.** They copy another contract's commitment at a time of
  their own. Correct: they use the final one, every ballot is tallied once,
  every pair of batches visited once.
* **core and the circuit.** Two programs in two languages process the same
  messages, one batch at a time. Correct: what core computes is what the circuit
  proves; credits are conserved; the lock is held for a poll in progress; tally
  and subsidy are those of the final ballots, written to a file in between or not.
* **genMaciState.** It reads a moving chain in windows of blocks and asserts
  its result against the chain's head. Correct: what it returns is the contract's
  state; on a quiet chain it returns.
* **Scripts.** Each reads, decides and sends, and may die at any point and be
  started again, beside other scripts and voters. Correct: what was compared is
  accepted, what is reported is true, a run that was interrupted can be completed.
* **Queue and tree in TypeScript.** Objects shared between two queues or between
  a tree and its copy. Correct: roots are those of the contract and of the leaves
  written, proofs verify.
* **Deployment.** Contracts on the chain and a file of addresses, which a crash
  can leave apart. Correct: what is registered is complete, wired to what else is
  registered, and a resumed deployment ends.

## 2. The modules

| module | models | extends |
|---|---|---|
| `AccQueueOps` | the AccQueue contract as operators on a record of its storage | |
| `AccQueue` | the contract as a state machine under an arbitrary owner | AccQueueOps |
| `AccQueueTs` | the TypeScript AccQueue given the same calls beside it | AccQueue |
| `QuinTree` | the TypeScript IncrementalQuinTree and its copy | |
| `Poll` | the Poll contract with its message queue, and the voting period | AccQueueOps |
| `MessageProcessor` | the MessageProcessor contract beside the Poll | Poll |
| `Tally` | Tally and Subsidy: all contracts of one poll | MessageProcessor |
| `AbstractPoll` | what a poll's contracts promise, whoever calls them | |
| `TallyRefinement` | the mapping from Tally to AbstractPoll | Tally |
| `Prover` | genProofs and proveOnChain, with crashes, on top of all contracts of a poll | Tally |
| `Maci` | MACI, its state queue, and the state merges of all polls | AccQueueOps |
| `TreeMerger` | the merge scripts of all polls, with crashes, on top of Maci | Maci |
| `CorePoll` | core's MaciState and Polls, and the circuit's statement | |
| `GenMaciState` | genMaciStateFromContract and the chain it reads, with the queues of MACI and of the polls | AccQueueOps |
| `Deployment` | deploy-full and deploy-poll | |
| `Recursion` | functions defined by recursion over a range of numbers, and induction on it, in sets | WellFoundedInduction, TLAPS |
| `AccQueueOpsProofs` | lemmas on the queue's operators | AccQueueOps, Recursion |
| `TreeProofs` | theorems on the queue, on the TypeScript queue beside it, and on the TypeScript tree | AccQueueTs, QuinTree, AccQueueOpsProofs |
| `TallyProofs` | theorems on the contracts of a poll, the MessageProcessor first, on their refinement, and on the proving scripts | Prover, TallyRefinement, AccQueueOpsProofs |
| `MaciProofs` | theorems on the state queue's snapshots, on replayed roots and on the merge scripts | TreeMerger, AccQueueOpsProofs |
| `CorePollProofs` | theorems on core's state, batches, credits, results and lock | CorePoll, Recursion |
| `GenMaciStateProofs` | theorems on what genMaciStateFromContract returns | GenMaciState, AccQueueOpsProofs |
| `DeploymentProofs` | theorems on the deployment tasks | Deployment |
| `MCAccQueue`, `MCTally`, `MCProver`, `MCMaci`, `MCCorePoll`, `MCGenMaciState`, `MCQuinTree`, `MCDeployment` | constants for TLC | |

**Roots are leaves.** A Merkle root is modelled by the sequence of leaves under
it, a commitment by what was committed to. So two roots are equal exactly when
they commit to the same leaves in the same order, which is what a collision-free
hash gives, and a property can say *which* leaves a root holds. `Zero` is the
blank leaf and the empty sequence is the storage value 0.

**AccQueueOps** keeps `leafQueue` and `subRootQueue` with their levels and
indices. `EnqueueAt` is the recursion of `_enqueue` (`Climb` hashes a level when
its last slot is filled), `QueueSubRoot` is `queueSubRoot`, `FillQueue` is `_fill`. What the
contract deletes and what it forgets to delete is kept apart on purpose:
`enqueue` invalidates the roots, `fill` the main roots only if a subtree was
started, `mergeSubRoots` never resets `subRootQueue`. Levels are arrays whose
old entries stay where the contract leaves them.

**AccQueue** gives the operators an owner that calls anything in any order. The
history variables record the index returned for each leaf, whether the owner
called `fill` or `insertSubTree` itself, and whether a merge resumed after blank
subroots: the last marks the defect of section 5, and the passing properties
hold where it has not happened.

**AccQueueTs** runs the TypeScript queue beside the contract. Its counters and loops are
the contract's, so the operators are reused and only what differs is written out: main
roots that are never cleared, `fill` that blanks or abandons a subtree's Maps,
`mergeDirect`, `calcSRTdepth`, and the one Map object that is the level of both queues
(`shared`). `ShowInSubRoots` and `ShowInLeaves` carry a write over to the other queue.

**QuinTree** keeps the nodes in one array as the class does, with its index
arithmetic; a tree and its copy are two handles over the same nodes.

**Poll, MessageProcessor, Tally.** The k-th message is the number k; message 1 is the
placeholder of `init`. `Gate` chooses the deadline's checks: `"none"` for
`contracts/`, where they are commented out, `"finished"` for maci-interface's
flag. `processMessages` follows the contract's order of guards;
`ProofExists` says when the circuit has a witness: the merged tree holds messages
up to the end of the batch and blanks after it. A revert is a step not taken.
`tallyVotes` and `updateSubsidy` call `updateSbCommitment` first, as the code
does (`Updated`). Tally only says where a batch of ballots starts; that it stops at the last ballot (`BallotBatch`)
is core's `tallyVotes`, whose batch the circuit proves.

**AbstractPoll** is the promise to those who rely on a result: the voters are fixed
once, a commitment moves until it is final and never again, ballots are counted from
the final commitment, in order, each once. `TallyRefinement` maps
`numSignups`, `sbCommitment`, `processingComplete`, `tallySbCommitment` and `tallyCommitment` to
it; the run `tally` checks it and `TallyProofs` proves it.

**Prover** adds the coordinator to Tally. `genProofs` reads the chain once and then
writes file after file, in the order process, subsidy, tally; it may crash after any of
them, so that files of two runs can lie side by side. A file is modelled by the number of
the run that wrote it, for that is what its salts tell apart; `salts` keeps the run
behind each commitment on the chain. `proveOnChain` has one action per decision
(`nextProcess`, `readSubsidy`, `nextSubsidy`, `nextTally`: the loop's condition and all
comparisons) and one per transaction, and the contracts' guards stand apart from the
script's (`ProcessAccepted`, `ProcessProofValid`). Voters, the flag `finished` and the merges go on between them.

**Maci** lets users sign up at any time, deploys polls one after the other and
lets each merge. `mergeMaciStateAqSubRoots` and `mergeMaciStateAq` contain both the
Poll's and MACI's part, which is one transaction. `updatePollRoot` is the root
the coordinator gets from replaying the events. **TreeMerger** drives the merges by one
script per poll; what a script has read may be stale when it sends.

**CorePoll.** A message is what it decrypts to, signed with a key. `processMessage`,
`processTopup` and `BatchResult` are core's code, `ProcessOne`, `ProcessTopup` and
`Proved` the circuit's; `BatchesAreProvable` compares them. In the code a batch that
the circuit disagrees with shows as a witness that cannot be generated, so the
comparison is of the states behind the two roots. Leaves and ballots are kept beside the ballot tree, which
a second `updatePoll` and `fromJSON` build anew. `restore` is toJSON followed by fromJSON, at any time. `processMessagesThrows` is the
first batch called before `updatePoll`, which takes the lock and sets the batch
index before it fails. `Garbage` stands for a root that results from putting a leaf
at an index other than the one opened. What is held is a constant's choice
(`Elections`), so one run covers one and two polls, with and without quadratic voting.

**GenMaciState** has a chain of events, one transaction after the other, and one call
that makes its requests between them: `Requests` is one window of blocks, `sortActions` the order by block and
transaction, `replay` the loop over the actions, `readCounts` and `readRoot` the reads at the
head. The contracts keep their queues as AccQueueOps has them, and the roots in the events are what the queues give: the
merges take limited steps, neither merge of the messages is restricted to one call, messages and sign-ups come between
merges, and then the root has blanks where the replayed tree has none, or lacks the later leaves. `excused`
records why a call may well throw: events left out by the arguments, a poll not merged or merged after such a late leaf
(`LateMerge`), a transaction with messages of both kinds, a chain that went on.

**Deployment** keeps the chain, the storage file and the run. A step settles what it will
do when it begins (`StepOf`) and then performs one effect at a time (`deployContract`,
`setsMaciInstance`, `setsKeys`, `deployPoll`), between any two of which it may `crash`. A registration is two effects,
`registersInstance` and `registersName`, for `register` writes the file twice. The merge task takes a poll by its ID from MACI, so
`mergeTrees` asks for no registration. The first step does nothing if the configuration switches the voice credit proxy off
(`VoiceCreditsStep`). The history variables keep which polls and instances an interrupted run has left behind.

## 3. The runs

Each run takes from some seconds to about three minutes on two workers.

| run | question | bounds |
|---|---|---|
| `accqueue` | does a queue keep its leaves, positions and roots under any calls, and does the TypeScript queue agree? | binary, subtrees of 4, no new leaf from the 13th on; limits 0 to 2, trees of depth 2 and 4; 111,966 states |
| `accqueue_remerge` | is a root that of *all* leaves? (violated) | same |
| `quintree` | are a tree's and its copy's roots and proofs right? | 8 leaves, one update at a free index, three writes after copy(); 10,171 states |
| `tally` | are messages, ballots and pairs each taken once, from the final commitment, does tallying come to an end, and is the abstract poll implemented? | up to 5 messages in batches of 2, batches of publishing up to 2; 5,124 states |
| `prover` | are proofs that passed the script's comparison accepted, reports true, and is an interrupted run completed? | up to 4 messages, 5 sign-ups in batches of 2, two runs of genProofs, one crash; 462,228 states |
| `prover_subsidy` | is "all subsidy proofs submitted" true? (violated) | same with 3 sign-ups |
| `maci` | do snapshots hold the users, does every poll get one, and does every script end? | three polls, up to 6 sign-ups, one crash, subtrees of 2, tree of 16; 112,979 states |
| `maci_replay` | does the coordinator compute the same root? (violated) | the same, up to 7 sign-ups |
| `core` | does core compute what the circuit proves, is the lock right, are the results those of the final ballots, is every poll processed? | two users, four messages of a set with votes, key changes, topups and invalid ones, or two polls of two batches; 430,051 states |
| `core_lock` | is only one poll in progress? (violated) | two polls of two batches |
| `genmacistate` | is what a replay returns the contract's state, and does it return over a chain merged in any way, in time? | four transactions after the first block, or seven in one block; two blocks per request, two polls, merges limited to one subroot, subtrees of 2, trees of 8; 961,338 states |
| `deploy` | is what is registered usable and wired, does the check warn when it should, and is an interrupted deployment completed? | two interruptions, clean runs or runs with `--skip`, two polls, three configurations; 409,027 states |

Why these bounds are enough to meet the cases:

* 13 leaves in subtrees of 4 give one, two, three and four subtrees: a merge
  with one subtree, with a full small tree, with blanks, a merge that resumes
  after blanks, and partial subtrees in each. Arity 2 is the Binary contract
  and the smallest that has a full and a non-full level; the quinary contract
  differs in the constant `hashLength` (and in the queues' width). A tree of depth 2 is a
  single subtree, the least that merges accept, one of depth 4 takes all leaves there can be. The
  positions are all there is to a root, so larger subtrees bring nothing new.
* 1 to 5 messages in batches of 2 give one and several batches, a full and a
  partial last batch. `maxMessages` is a bound that keeps the message tree small.
* Three polls are the fewest for which the second can be skipped by
  `deployPoll`; six sign-ups are enough for a subtree filled between two
  polls. The state tree is deep enough for the blanks: at the edge of its
  capacity `merge` reverts (see the hazards).
* In `core` the weights cost more than a user has after a first vote, so that
  refunds matter; indices reach from 0 past the number of sign-ups; batches of
  two with up to four messages give partial and full batches.
* Five sign-ups in batches of two are three batches: the fewest for which the subsidy
  can resume at a row that is neither the first nor the last. Two runs of genProofs
  and one crash give files and salts of two runs in every mixture.
* Four transactions after the first block with windows of two blocks put events on both sides of a seam, and leave room
  for some that come during the call. Seven in one block are enough to merge a queue in several limited calls and again
  with a leaf in between, or for a second poll's merge behind a late sign-up: without `LateMerge` in `excused`, or with only one half of
  it, the run finds the call throw. Beyond four, only chains in one block whose call is given every block are
  explored (`ShortOrOneBlock`). Two mishaps in a deployment are enough
  for a crash in the run that repairs a crash.
* Eight leaves give a tree three levels, so that a subtree lies neither at the leaves
  nor at the root.

`CHECK_DEADLOCK FALSE` is given everywhere because all these systems end: users
need not come and bounds stop them, and a coordinator is done after the last batch.

**Fairness.** Voters and users owe nothing: publishing, signing up and deploying
have no fairness. The coordinator's steps are weakly fair because the scripts
repeat them: `TreeMerger` loops until `subTreesMerged`
(`contracts/tasks/helpers/TreeMerger.ts:96-121`, 159), `genProofs` loops over all batches
(`cli/ts/commands/genProofs.ts:279`, 343, 415) and so do `proveOnChain` and `Prover`, and a script that fails is started
again by whoever wants the result. In `TreeMerger` and `Prover` that last part is written as a script that goes from
"stopped" or idle to its start under the same weak fairness; crashes have none. `genProofs` is run to its end if it is possible again and again while the last run was cut short.
`PeriodEnds` is fair because time passes. In `Deployment` a run gets on, and the operator runs
`deploy-full` again: strongly fair, for other runs come in between. In four modules weak fairness is
written out with the guard in place of ENABLED, which TLC evaluates far faster:
`<>[]guard => []<><<A>>_vars`. The guards are those of the actions.

What the liveness properties except is what really can go wrong:

* `TalliedUnlessLate`: a message published after the message queue's merge
  began may leave the poll unprocessable, since the merged tree then holds blanks
  below the number of messages.
* `ProvenAfterCrashes`: proofs generated anew over batches already on the chain have
  other salts and do not continue them; and the defect of `prover_subsidy`. It assumes the flag
  `finished` to be raised for good some day.
* `ScriptsFinish`: a script that dies after its last transaction cannot be resumed
  (`CannotResume`): `mergeMaciStateAq` reverts with StateAqAlreadyMerged when it is sent again.
* `DeploymentCompletes`: the voice credit proxy is switched off in the configuration, and MACI's step, which needs its
  address, throws in each run.
* `EveryPollProcessed`: no first batch throws (the case
  `LockHeldInProgress` describes), and the state is not read back from its file between two batches, which loses the salts.

## 4. The proofs

TLAPS proves, for every value of the constants:

| theorem | statement |
|---|---|
| `TreeProofs!QueueInvariant` | `Spec => []QueueInv`, the inductive invariant of the queue |
| `TreeProofs!EveryPositionCounted` | `Spec => []CountsEveryPosition` |
| `TreeProofs!IndicesArePositions` | `Spec => []IndexIsPosition` |
| `TreeProofs!ServedRootsAreFresh` | `Spec => []MainRootIsFresh` |
| `TreeProofs!MergeIsOfAllLeaves` | `Spec => MergeCommitsToAllLeaves`, an action property |
| `TreeProofs!LimitedMergesProgress` | `Spec => LimitedMergeProgresses`, an action property |
| `TreeProofs!TsQueueInvariant` | `SpecTs => []TsQueueInv`, the inductive invariant of the two queues side by side |
| `TreeProofs!TsQueueMirrors` | `SpecTs => []TsQueueConforms` |
| `TreeProofs!MergesAgree` | `SpecTs => []TsMergesAgree` |
| `TreeProofs!RootIsOfLeaves` | `SpecTree => []RootOfLeaves` |
| `TreeProofs!ProofsAlwaysVerify` | `SpecTree => []ProofsVerify` |
| `TallyProofs!Invariant` | `MPSpec => []IInv`, the inductive invariant |
| `TallyProofs!CountersTyped` | `MPSpec => []MPTypeOK`, the types of the processor's storage |
| `TallyProofs!BatchesTile` | `MPSpec => []BatchesTileMessages` |
| `TallyProofs!EveryMessageProcessed` | `MPSpec => []EveryMessageOnceInReverse`, with what the queue's roots hold |
| `TallyProofs!BatchesTileWithTally` | `Spec => []BatchesTileMessages`, with Tally and Subsidy in place |
| `TallyProofs!FinalCommitment` | `Spec => []ResultsUseFinalCommitment` |
| `TallyProofs!EveryBallotOnce` | `Spec => []BallotsTalliedOnce` |
| `TallyProofs!StorageTyped` | `Spec => []TypeOK`, all storage of a poll's contracts |
| `TallyProofs!EveryPairOnce` | `Spec => []SubsidyPairsOnce` |
| `TallyProofs!Refinement` | `Spec => KeepsPromise`: the contracts of a poll implement AbstractPoll |
| `MaciProofs!BlockLiftable` | `MergerSpec => []BlockIsLiftable`, with the merge scripts of all polls and their crashes |
| `MaciProofs!DoneSnapshot` | `MergerSpec => []DoneHoldsSnapshot` |
| `MaciProofs!SnapshotIsOfVoters` | `MergerSpec => []SnapshotAtStateIndices` |
| `MaciProofs!RootReplayed` | `MergerSpec => []RootIsReplayable` |
| `CorePollProofs!LockInProgress` | `Spec => []LockHeldInProgress`, for every electorate, batch size and number of polls |
| `CorePollProofs!CoreTypes` | `Spec => []TypeOK` |
| `CorePollProofs!CircuitFollows` | `Spec => []BatchesAreProvable` |
| `CorePollProofs!CreditsAreConserved` | `Spec => []CreditsConserved` |
| `CorePollProofs!ResultsAreFinal` | `Spec => []ResultsOfFinalBallots` |
| `TallyProofs!ReportsTrue` | `ProverSpec => []ReportsAreTrue`, with genProofs, proveOnChain and their crashes |
| `TallyProofs!ComparedAccepted` | `ProverSpec => []ComparedIsAccepted` |
| `TallyProofs!NoneSkipped` | `ProverSpec => []NoPairSkipped` |
| `GenMaciStateProofs!ReturnedIsContractState` | `Spec => []ReturnsContractState`, for every window of blocks and whatever the contracts do meanwhile |
| `GenMaciStateProofs!QuietCallsReturn` | `Spec => []QuietCallReturns` |
| `DeploymentProofs!DeploymentInvariant` | `Spec => []DeploymentInv`, the inductive invariant of the deployment tasks |
| `DeploymentProofs!RegisteredContractsUsable` | `Spec => []RegisteredIsUsable` |
| `DeploymentProofs!RegisteredTogether` | `Spec => []WiredTogether` |
| `DeploymentProofs!PollsByTheirIds` | `Spec => []PollsUnderTheirIds` |
| `DeploymentProofs!OnePollWarnsWhenDue` | `Spec => []WarnsWhenDue` |

They rest on the modules' named assumptions only, each evaluated by TLC in the runs:

* `AccQueueConstants` and `PowersOfHashLength` say that subtrees and trees have a positive depth and what
  `hashLength ^ l` is on the depths of a tree. The prover knows nothing of `^`, so its recursion is stated
  where it is used; it is a fact about numbers, not about the contract. `PowersOfMainDepths` says for the same reason
  that the swapped power `depth ** hashLength` of `mergeDirect` is a number, and `PowersOfArity` what `arity ^ l` is on the
  levels of a QuinTree, with `QuinTreeConstants`: two children or more, one level or more.
* `AccQueueBounds`, `PollConstants` and `MaciConstants` keep the number of leaves below what a queue of the
  deepest depth takes. Beyond it `calcMinHeight` has no depth to return and the code reverts.
* `MessageBatchSize`, `TallyConstants` and `CoreConstants` make batch sizes positive; `CoreConstants` and
  `MessagesTyped` type the users' leaves and the messages that may come, and say that nobody signs
  with the key of the blank leaf, of which nobody has the private key. `PowerOfTen` says that the width of the
  subsidy's scaling factor makes its power of ten a number, again for want of `^`.
* `GenMaciStateConstants` says that the depths of the trees are positive and within the queues' reach, that the blank leaf is no
  event's number, and that the blocks asked for, the window and the bounds are numbers.
* `ConfigsTyped` says that deploy-config.json names the two gatekeepers the tasks know and no other.

*Recursion.* The library's induction theorems take an operator, which these provers cannot instantiate.
`Recursion` states induction with a set in the operator's place: `SetInduction` follows from Nat being well founded,
`RangeInduction` says that a set with the first number of a range that every number in it continues has the whole
range, and `RangeRecursion` that a function defined by recursion over a range exists. So every recursive function of the models
(`Climb`, `merge`'s loops, the batches of core, publishing a batch of messages) is given its defining equations by a lemma,
and what it computes is proved by naming the set of numbers for which it is true.

*The queue.* `QueueInv` describes the storage: below its index each level of `leafQueue` and
`subRootQueue` holds nodes whose leaves are those of the queue, in rows from left to right without a gap (`Stored`); a
queue that can be merged has its subroots in a row (`Mergeable`); while no merge has queued blanks,
the two queues are those that enqueueing alone gives (`Unmixed`); and once the subtrees are merged the small-tree root commits to all
leaves (`Rooted`). `AccQueueOpsProofs` shows for each operator what it does to that description: `enqueue` adds
one leaf at the end, whatever levels it climbs; `fill` adds blanks up to the next subtree; `mergeSubRoots` leaves the leaves
as they are but for the blanks behind them. The properties are then read off the description.

*The TypeScript queue.* `TsQueueInv` takes the contract's invariant along and says how the other record stands to it. The leaf queue
has the contract's leaves, level by level, but not its slots: `fill` leaves old nodes behind, or starts with new Maps, and below its
indices is all that counts (`Conforms`, and `RowsAgree` for the leaves of two such queues). The queue of the subroots is
described by the contract's own `Unmixed`, for the record that has the contract's storage and the TypeScript queues (`TsUnmixed`), so every
lemma on merging applies to it. What a write of a leaf shows there is harmless because of `Apart`: the Maps are separate,
no subroot is queued, or no leaf waits; only an `enqueue` behind queued subroots breaks that, which is the state called `mixed`. Since both classes
then merge the same subroots, `SameMerge` gives the same root, and `SameRoots` hands it to the main roots. For `TsMergesAgree`,
`MergedUp` says that a merged queue consists of whole subtrees, so that what one class compares with the leaves counted and the
other with the subroots stored is the same number (`SRTdepthIsLeast`), and `DirectMerge` that the leaves flattened are
those of the subroots.

*The TypeScript tree.* Its indices are worked out first. Seen from the leaves, level `l` begins at `LevelStart[l]`; seen from the root it
begins at a sum of powers. That both are the same place is why the children that `calcChildIndices` finds are the nodes whose parent
`calcParentIndices` finds (`NextLevelStart`, `PowerSumClosed`, `RootNode`, `ChildNodes`). From there `NodeAt(l, k)` names a node by its level and its place
on it, and `Shown` says that each such node, present or absent, is read as the part of the leaves under it. `RootOfLeaves` is not
inductive without that: an update hashes siblings it does not write. `UpdatedShown` follows `update` up the levels; in between the
nodes are right up to the level reached, and above it off the leaf's way (`ShownBut`, `LevelRehashed`). A handle may rely on the nodes
as long as the other has not written (`NodesShown`); its own write after the other's is what the properties except, and a write into the full tree
ends it for good. `ProofsVerify` is then no more induction over steps: a path of `genProof` or `genSubrootProof` consists of the children of the
nodes above the leaf (`Siblings`), so each hash of `verifyProof` is the part of the next level (`SplicedNode`, `PathVerifies`).

*The argument for the batches.* `BatchesTileMessages` is not inductive: it says
nothing of the index the next batch will begin at, nor of a state in which a
message has come after the first batch. `IInv` adds that the batch index is a
multiple of the batch size; that, as long as the count of messages is the one
the first batch saw, the index is the previous batch's start less one batch size,
or 0 at the end; that the number of batches done and the index together give
the total; and that the count of messages only grows. The lemmas on `FirstBatchIndex` and
on multiples (`FirstBatch`, `OneBatchBack`, `LessThanABatch`) carry the arithmetic, which
would be out of the solver's reach in one step. `ProcessStep` then has one case
for the first batch and one for the others, `PollStep` one for all that
Poll may do.

*The commitment.* `ResultsUseFinalCommitment` needs only that a non-empty copy is
taken when processing is complete and that `processMessages` is refused from then
on: `CommitmentStep`.

*The ballots.* `TallyInv` says that `tallyCommitment` is the first
`tallyBatchNum * tallyBatchSize` ballots, or all `numSignups` of them if those are
fewer, and that neither completeness nor a tallied batch comes before the state
tree is merged. The latter is what makes it inductive: the merge sets `numSignups`,
and after it the number of ballots is fixed.

*The messages.* `MessageInv` adds what the queue holds: as long as no message came during the merge, its leaves are
the messages in the order of their numbers, then blanks (`MessagesInOrder`), and the commitment was moved over
the messages from the last to the beginning of the last batch, downwards (`MovedOver`). A batch takes the part of the
merged root between its bounds in reverse; that such parts join without a gap is `DescendingJoins`.

*The pairs.* `CountersInv` bounds `tallyBatchNum`, `rbi` and `cbi` by the number of
batches (one more for the row that `>` lets begin), with `rbi <= cbi`, and has nothing counted before the
state tree is merged. `WalkInv` says that the pairs taken go up in the
order of the walk, all come before `(rbi, cbi)`, and no pair of batches before `(rbi, cbi)`
is missing. "Once" follows from the order, and "every" from `rbi` and `cbi` having
reached the end; `BatchStarts` turns the code's comparisons of products with
`numSignUps` into comparisons of batch numbers.

*The refinement.* `RefInv` adds to the tally's invariant that the number of sign-ups
is 0 until the state tree is merged and positive from then on (`SignUpsFixed`): that is what maps the
merge to `FixVoters` and every later step to one that leaves the voters alone. Each
action of Next is then one step of the abstract poll or none.

*The block.* Sign-ups are blocked while the state queue's subtrees are merged.
`mergeStateAqSubRoots` reverts in that state, so the only step that can begin a block is the one that merges the
last subtree, and its sender is a poll without a snapshot, whose script goes on to the merge that lifts it.

*The snapshot.* `TreeMerger` skips the merge for poll 0 when it finds a main root. `FirstPollMerged` says
why that is right: a main root, `treeMerged` and a second poll all come after the first poll's merge
(`deployPoll` waits for it), whoever made it. `PastMerge` then says the same of any script that waits or is done. The lemmas from
`EnqueueKeeps` to `MergeSubRootsKeeps` show that no other operation sets a root.

*The voters.* `StateInv` keeps the state queue's description beside what the events said: each user is in the leaves at the state index of
his event (`UsersInPlace`), a poll's snapshot opens to the users it counts and counts none who has not signed up
(`SnapshotAtStateIndices`, `SnapshotsCount`), a subtree holds a user or the first blank leaf, so that the tree is deep enough
(`StateQueueInv`), and the leaves are the users in order and then zeros for as long as nobody signed up after a merge began
(`ReplayInv`). A sign-up adds at the end, merges add blanks at the end only, and so a snapshot once taken stays right.

*The lock.* `LockInv` adds to `LockHeldInProgress` that no poll has begun before the first lock is taken
(`NobodyYet`), and the shapes of the two records. The heart is `BatchCount`: `hasUnprocessedMessages`,
which releases the lock, compares a count of batches, and it is false exactly when the batch just processed was the last.
A first batch that throws keeps the lock and leaves its batch index behind (`ThrowStep`), which is how the invariant
tells a failed poll; a state read back from its file turns an unset poll of the lock into poll 0, which has not begun then (`RestoreStep`).

*core's state.* `WorkInv` says of each poll where it is: before its first batch it holds nothing, or the copy that
`updatePoll` made of the leaves; between batches its leaves and ballots are what the copy becomes after the messages
of the batches done, last message first (`After`). `AfterRest` joins the batches: applying one
after another is applying all messages at once. A state that was written to a file and read back is never
begun again, and is left out from there. From it, `ManyProved` takes the circuit along each message of a batch (`VoteProved`,
`TopupProved`, and what both make of an invalid message), and `ManyConserved` the credits: a vote replaces the cost of the
user's former vote for the option by the new one, which changes the sum by the same number (`SumChanged`, `VoteCost`). `CircuitFollows` keeps the
exceptions that the property names, a topup of the index `numSignUps` and a vote of a user who came after the poll's end.

*The results.* `ResultsOfFinalBallots` speaks of finished walks only, so the invariant describes unfinished ones: `ResultsInv` says
that there are no results while messages are left (`Untallied`), that the tally is the sum over the ballots of the batches tallied
(`TalliedSoFar`), and that the subsidy is the sum over the pairs before the one the walk stands at (`PairedSoFar`, `PairsBefore`); unless tallying began too
early. That a sum over a set is the sums over two parts of it (`BallotSums`, `SubsidyOfParts`) takes both from one batch to the next.
The ballots are final because only processing changes them; and the total spent is the users' loss of credits by `CreditsConserved`.

*The replay.* Fetched, sorted and replayed, the events are sequences whose order is known: they are those of some
set, by type (`InKind`), by transaction and type (`Sorted`), or by number (`Less`). A sequence in an asymmetric order is determined by
the set of its elements (`OneList`), begins with what lists a part that comes before the rest (`FirstPart`), and is
complete if it is as long as the whole (`WholeList`). So `GenInv` can speak of sets. `ChainNow` says that the events are numbered, stamped
with growing blocks and transactions, that what a poll emits follows its deployment, and that the data of a merge are
the users or messages before it, then blanks, unless a leaf was late. That comes from `QueuesOK`: a queue is in one of three phases, no merge has
begun, one has and no leaf came since, or a leaf was late (`StateQueueOK`, `MessageQueueOK`). In the first two its leaves are the blank one and the users, or the
messages, in order, and blanks only behind them; `AccQueueOpsProofs` says what the queue's operations do to its leaves and that a root served
is that of the leaves. In the third nothing is claimed, and nothing is needed. `MaciLogsOK` and `PollLogsOK` say that the logs hold the events of the blocks before the next request, each once, which is
where `NextRequest` and `toBlock` must fit together (`RequestStep`). `LeavesReplayed`, `PollsReplayed`, `MessagesReplayed` and `MergesAccepted` follow the replay action by action:
the messages come out in their order because within a type sorting keeps it, and a message
is dropped only if its poll's deployment was not fetched. `ReplayOK` and `CountsOK` carry what the replay gave through later events of the chain: messages that
were all there are when they were counted are the first ones of any later chain. For an unexcused call each `threw` branch is
refuted: its logs are complete (`Whole`), so every merge finds its messages (`MergeFinds`), the counts agree
and the leaves begin with the snapshot's. Conversely, what returns has passed its assertions: `Commits` keeps that a message root was that of the first messages, and such a root tells the leaves under it (`RootTells`): no event's number is the blank leaf's, and behind the
blank first leaf a user tells a snapshot from a shorter one (`BlanksTell`).

*The scripts.* Files and chain are tied together by the runs of genProofs: `ChainInv` says that the batches
on the chain end with one of the run `salts["process"]`, that the contract's index is that run's first index less
one batch size per batch done (`IndexBack`), and that processing is complete exactly when the batches
done reach that run's last message. `MessageBatches` turns the scripts' count of batches, with its
division and remainder, into that comparison. `JobInv` says what the script still knows after other steps: the number of messages it
has read is not less than that of the run on the chain, and what it compared stays valid until it submits, since
nobody else submits for the poll. Hence a process report is true: all batches of a number of messages not
smaller are done. A tally report is true because a positive number of sign-ups (`SignUpsFixed`) makes a positive number of
ballot batches, and the first one fixes the copy (`CommitmentInv`). What was compared is accepted because the merged root can be read whenever the
script has read it: the message queue has a root of exactly the poll's depth that its leaves fit (`ServableInv`).

*The pairs proved.* Files and contract count the pairs in the same order but not in the same way: the script's loop goes by the number of
proofs, the contract by a row and a column. `PlaceInv` says that the number of pairs counted is the place of `(rbi, cbi)` in the triangle of pairs, and `SubsidyInv` that
a run which began in the first row, where that number is the column, stands at the file of that number until the walk is done. `LoopEnds` shows that the loop's bound, a triangular number, is reached by the last pair only. A run
that resumes beyond the first row is the defect of section 5; there the two counts differ, and the property excepts it.

*The deployment.* None of the four properties is inductive, for each says what is registered and nothing of the run
that registers. `DeploymentInv` has three parts. `StorageInv` describes chain and file: addresses built
with are on the chain, names lead to contracts of their kind, a registered MACI has all gatekeepers registered unless their
step was jumped, and as long as no name is registered twice the instances are exactly the names' addresses, those a stopped run left without a name, and
the one whose registration is half done (`CountsInv`). `RunInv` describes the list of
effects the running step has left: the order of `Turn` is the order of the catalog, what is to be registered has been deployed by the run
or is deployed earlier in the list, no registered contract depends on it, and before MACI or the registry is registered
each setting it needs is done or comes earlier in the list (`MaciItem`, `RegistryItem`). `PollsKnownInv` says that each poll's
contracts are registered, are about to be, or the poll is lost. Then each effect takes one item off the list and hands
what the item promised to the storage, and stopping a run, wherever, only drops promises. `Fresh` says what holds of the list a step
begins with; it is shown for each step of the catalog (`PoseidonFresh` to `VkRegistryFresh`). For `WarnsWhenDue`, names and
addresses are shown to be one to one (`OneToOne`, `NamesApart`), and the instances to be the names' addresses and those in `unnamed`,
so that the check's two counts differ exactly by the instances without a name.

Model-checked only:

* all liveness (`TalliedUnlessLate`, `ScriptsFinish` and the like), which with ENABLED is out of TLAPS's reach;
* the completion of a deployment (`DeploymentCompletes`), which is liveness too.

## 5. What the checks show

The properties of the passing runs hold. Four times the program does
something other than its own text says; each has a run that exhibits it:

1. `accqueue_remerge`: a queue merged again after a merge that queued blank
   subroots stores a root without the later leaves. MACI's state queue is merged
   once per poll, so this concerns `SnapshotAtStateIndices`, which excepts it.
2. `maci_replay`: after a first poll's merge filled a subtree with blanks, later
   users' state indices have a gap that the coordinator's replay does not have.
3. `core_lock`: the first batch of another poll takes the lock. `core` shows
   what remains true: the lock is held for some poll in progress and every
   poll still gets processed.
4. `prover_subsidy`: a run of proveOnChain that resumes the subsidy beyond the first row skips
   proofs and may report them all submitted. `NoPairSkipped` shows that a run that does not resume there skips none.

The passing properties carry further observations in their exceptions and in the hazards:

* The deadline's checks are commented out in `contracts/`, so messages are accepted
  after the period, against `Poll.sol:202`.
* `treeMerged` is never reset, so `deployPoll` waits for the first merge ever and for no
  other; the merge scripts still leave every poll with its snapshot (`DoneHoldsSnapshot`).
* A topup of the index `numSignUps`, and a vote of a user who signed up after the poll's
  end, have no proof for what core computes.
* A state read back from its file between two batches cannot be processed any further; it never commits to anything wrong.
* The TypeScript queue has the contract's roots although its two queues share their Maps, unless a leaf is
  enqueued behind queued subroots; `copy()` separates them. A merge that resumes after blanks is excepted too: in
  the levels no subroot had reached it finds a node `fill` abandoned where the contract has 0 (seen with three
  children a node).
* `mergeDirect` agrees with the two-step merge wherever that is accepted, although its depth check has the powers
  swapped, unless `depth ** hashLength` is less than the leaves of a full tree (`DirectDepth`): a quinary tree of depth 6 or more
  may be refused.
* A tree and its copy do not survive writes through both, for `copy()` shares the nodes.
* A topup and a vote in one transaction are replayed vote first; only a MergeMessageAq event
  among those fetched catches it.
* Nothing keeps the coordinator from merging the messages again, or a message from coming between the two merges, and
  a second poll merges behind the blanks of the first one's merge. Then an assertion of genMaciState throws on a quiet chain, and for good
  (`genMaciState.ts:342`, 362); `QuietCallReturns` excepts these and shows that nothing else makes it throw.
  If the later root lacks the late leaf altogether (finding 1), a call with an end block before that leaf even returns, with fewer users
  than the contract counts, which is why `ReturnsContractState` says nothing of such a merge's leaves.
* A deployment interrupted between the two writes of a registration leaves an instance without a name in the file. The contract is deployed
  again and everything works, but the check of the results warns from then on (`WarnsWhenDue`).
* Deploying a poll that is interrupted leaves a poll nobody has registered, which can be merged by its ID all the same. With `--skip` the
  gatekeepers' step may replace a gatekeeper that MACI still uses. With two polls the check of the storage warns of
  a correct deployment.
* `Prover.ts:306` reads `currentSbCommitment` from the subsidy's circuit inputs, which core's
  `subsidyPerBatch` does not put there: the hardhat task's check of a resumed subsidy would throw. The
  hardhat task `prove` also generates all proofs anew in each run (`runner/prove.ts:205-218`), with new salts, so it
  cannot resume one that was interrupted after its first batch.

## 6. Not modelled, and why

Abstracted away throughout: hashing, encryption and signatures (a
message is its plaintext and its signer), field and bit ranges, gas, ownership
checks (the coordinator is one actor), token transfers. Left out as
components: key registry and verifier (write-once, pure), gatekeepers and voice
credits (one map each; a sign-up that is refused is a step not taken), the tally and
subsidy circuits (sums without control), domainobjs and the ciphers (pure functions), the
CLI's voter commands (one transaction each), the interface's pages and its generated contract data, website,
benchmarks.

Of the modelled components:

* core: messages published after the first batch, `copy` and `equals`. `genMaciState` publishes
  all messages first; a `MaciState` that lives on in a test may do otherwise, and the hazards
  say what then may go wrong. The layout of the circuit inputs is left out.
* scripts: the merge of the messages, which is the same loop over a queue that has one owner; the
  stand-alone generation of proofs in the hardhat task.
* deployment: `verifyFull`, and the functions of `contracts/ts/deploy.ts` the tests use.
* genMaciState: pauses between requests and decoding of events.
