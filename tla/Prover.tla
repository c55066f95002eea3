------------------------------- MODULE Prover -------------------------------
(***************************************************************************)
(* The coordinator's scripts beside the contracts of one poll: genProofs   *)
(* (cli/ts/commands/genProofs.ts) replays the chain and writes one file    *)
(* per proof, proveOnChain (cli/ts/commands/proveOnChain.ts; Prover of     *)
(* contracts/tasks/helpers/Prover.ts submits the same way) reads them and  *)
(* submits what the contracts have not seen yet.  A script may crash after *)
(* any step, files and chain stay as they are, and it is started again.    *)
(*                                                                         *)
(* Every run of genProofs draws new salts for its commitments.  A file is  *)
(* modelled by the number of the run that wrote it, and of each commitment *)
(* on the chain, `salts` keeps the run whose proof put it there.           *)
(***************************************************************************)
EXTENDS Tally

CONSTANTS
  MaxGenerations,   (* bound on the runs of genProofs, not counting one that *)
                    (*   makes up for a run cut short                       *)
  MaxCrashes        (* bound on the crashes                                 *)

ASSUME ProverBounds == MaxGenerations \in Nat /\ MaxCrashes \in Nat

VARIABLES
  gens,         (* the runs of genProofs: the number n of messages replayed *)
                (*   and whether the run came to its end                    *)
  files,        (* for each kind of proof the run that wrote the i-th file  *)
  salts,        (* of each commitment on the chain the run, 0 before        *)
  job,          (* proveOnChain: where it is and its local variables        *)
  pendingSb,    (* Subsidy's updateSbCommitment is sent and not mined       *)
  announced,    (* the kinds reported "All ... proofs have been submitted." *)
  crashes,
  regenerated,  (* history: proofs were generated when batches of an        *)
                (*   earlier run were on the chain                          *)
  resumed       (* history: a run of proveOnChain found the subsidy begun   *)
                (*   and beyond its first row                               *)

coordinatorVars == <<gens, files, salts, job, pendingSb, announced, crashes,
                     regenerated, resumed>>
proverVars == <<vars, coordinatorVars>>

Idle == [pc |-> "idle", n |-> 0, root |-> Empty, nb |-> 0, i |-> 0]

ProverInit ==
  /\ Init
  /\ gens = << >>
  /\ files = [kind \in {"process", "subsidy", "tally"} |-> << >>]
  /\ salts = [kind \in {"process", "subsidy", "tally"} |-> 0]
  /\ job = Idle
  /\ pendingSb = FALSE
  /\ announced = {}
  /\ crashes = 0
  /\ regenerated = FALSE /\ resumed = FALSE

-----------------------------------------------------------------------------
(* genProofs *)

MessageTree(n) ==
  [i \in 1..n |-> i] \o ZeroLeaves(hashLength ^ messageTreeDepth - n)

\* genProofs' own checks and those of genMaciStateFromContract.
CanGenerate ==
  /\ stateAqMerged
  /\ CanGetMainRoot(messageAq, messageTreeDepth)
  /\ getMainRoot(messageAq, messageTreeDepth) = MessageTree(numMessages)

\* Mutant: a partial batch is not counted.
WholeBatches(n) == IF n <= messageBatchSize THEN 1 ELSE n \div messageBatchSize

totalMessageBatches(n) ==
  IF n <= messageBatchSize THEN 1
  ELSE n \div messageBatchSize + (IF n % messageBatchSize > 0 THEN 1 ELSE 0)

totalTallyBatches ==
  numSignups \div tallyBatchSize + (IF numSignups % tallyBatchSize = 0 THEN 0 ELSE 1)

num1DBatches == (numSignups + tallyBatchSize - 1) \div tallyBatchSize

\* Mutant: the pairs on the diagonal are not counted.
PairsOffDiagonal == (num1DBatches * (num1DBatches - 1)) \div 2

totalBatchNum == (num1DBatches * (num1DBatches + 1)) \div 2

\* increaseSubsidyIndex of core/ts/Poll.ts: the pair of the i-th subsidy file.
SubsidyPair ==
  LET pair[i \in 0..totalBatchNum] ==
        IF i = 0 THEN <<0, 0>>
        ELSE LET p == pair[i - 1]
             IN  IF p[2] * tallyBatchSize + tallyBatchSize < numSignups
                 THEN <<p[1], p[2] + 1>> ELSE <<p[1] + 1, p[1] + 1>>
  IN  pair

FileCount(n) ==
  [process |-> totalMessageBatches(n), subsidy |-> totalBatchNum,
   tally |-> totalTallyBatches]

\* The first k files of a run, in the order they are written, replace those
\* of the same names.
Written(old, count, k, g) ==
  LET ofSubsidy == k - count.process
      Overwrite(kind, m) ==
        [i \in 1..(IF m > Len(old[kind]) THEN m ELSE Len(old[kind])) |->
           IF i <= m THEN g ELSE old[kind][i]]
      Cut(m, max) == IF m < 0 THEN 0 ELSE IF m > max THEN max ELSE m
  IN  [process |-> Overwrite("process", Cut(k, count.process)),
       subsidy |-> Overwrite("subsidy", Cut(ofSubsidy, count.subsidy)),
       tally |-> Overwrite("tally", Cut(ofSubsidy - count.subsidy, count.tally))]

LastRunComplete == gens # << >> /\ gens[Len(gens)].complete
MayGenerate == Len(gens) < MaxGenerations \/ ~LastRunComplete

\* A run reads the chain once, at its start, and then only writes files; it
\* crashes after the k-th of them, or comes to its end.
genProofs(k, ends) ==
  LET count == FileCount(numMessages)
      total == count.process + count.subsidy + count.tally
  IN  /\ job = Idle
      /\ MayGenerate
      /\ CanGenerate
      /\ IF ends THEN k = total /\ UNCHANGED crashes
         ELSE k < total /\ crashes < MaxCrashes /\ crashes' = crashes + 1
      /\ gens' = Append(gens, [n |-> numMessages, complete |-> ends])
      /\ files' = Written(files, count, k, Len(gens) + 1)
      /\ regenerated' = (regenerated \/ numBatchesProcessed > 0)
      /\ UNCHANGED <<vars, salts, job, pendingSb, announced, resumed>>

MaxFiles == totalMessageBatches(maxMessages) + totalBatchNum + totalTallyBatches

-----------------------------------------------------------------------------
(* proveOnChain *)

Stop == job' = Idle
GoTo(pc) == job' = [job EXCEPT !.pc = pc]
FileOf(kind, i) == files[kind][i + 1]
HasFile(kind, i) == i < Len(files[kind])

startProve ==
  /\ job = Idle
  /\ files["process"] # << >>
  /\ job' = [Idle EXCEPT !.pc = "read", !.n = numMessages]
  /\ UNCHANGED <<vars, gens, files, salts, pendingSb, announced, crashes, regenerated, resumed>>

readRoot ==
  /\ job.pc = "read"
  /\ IF CanGetMainRoot(messageAq, messageTreeDepth)
     THEN job' = [job EXCEPT !.pc = "process", !.nb = numBatchesProcessed,
                             !.i = numBatchesProcessed,
                             !.root = getMainRoot(messageAq, messageTreeDepth)]
     ELSE Stop
  /\ UNCHANGED <<vars, gens, files, salts, pendingSb, announced, crashes, regenerated, resumed>>

\* Mutant: the index of a later batch is the end of that batch.
IndexOfBatchEnd ==
  IF job.nb = 0 THEN FirstBatchIndex(job.n)
  ELSE (totalMessageBatches(job.n) - job.nb) * messageBatchSize

currentMessageBatchIndex_ ==
  IF job.nb = 0 THEN FirstBatchIndex(job.n)
  ELSE LET end == (totalMessageBatches(job.n) - job.nb) * messageBatchSize
       IN  IF end > 0 THEN end - messageBatchSize ELSE end

\* The start of the i-th batch of run g, for core/ts/Poll.ts goes down from
\* the last one.
ProvedIndex(g, i) == FirstBatchIndex(gens[g].n) - i * messageBatchSize

\* Mutant: the commitment is not compared.
CommitmentIgnored(g) == TRUE

\* currentSbCommitment matches the chain's, salt included.
CommitmentMatches(g) == numBatchesProcessed = 0 \/ salts["process"] = g

ProcessProofValid ==
  /\ HasFile("process", job.i)
  /\ LET g == FileOf("process", job.i)
     IN  /\ job.root = MessageTree(gens[g].n)
         /\ CommitmentMatches(g)
         /\ job.n = gens[g].n
         /\ currentMessageBatchIndex_ = ProvedIndex(g, job.i)

\* The condition of the loop, then all that is compared before the transaction.
nextProcess ==
  /\ job.pc = "process"
  /\ IF job.i >= totalMessageBatches(job.n)
     THEN /\ announced' = announced \cup
                            (IF job.nb = totalMessageBatches(job.n) THEN {"process"} ELSE {})
          /\ GoTo("readSubsidy")
     ELSE /\ UNCHANGED announced
          /\ IF ProcessProofValid THEN GoTo("sendProcess") ELSE Stop
  /\ UNCHANGED <<vars, gens, files, salts, pendingSb, crashes, regenerated, resumed>>

\* The contract checks the proof against its own index, root and counters.
ProcessAccepted ==
  LET g == FileOf("process", job.i)
  IN  /\ over /\ ~processingComplete /\ stateAqMerged
      /\ CanGetMainRoot(messageAq, messageTreeDepth)
      /\ getMainRoot(messageAq, messageTreeDepth) = MessageTree(gens[g].n)
      /\ numMessages = gens[g].n
      /\ BatchIndex = ProvedIndex(g, job.i)
      /\ numBatchesProcessed > 0 => salts["process"] = g

sendProcess ==
  /\ job.pc = "sendProcess"
  /\ \/ /\ ProcessAccepted
        /\ processMessages
        /\ salts' = [salts EXCEPT !["process"] = FileOf("process", job.i)]
        /\ job' = [job EXCEPT !.pc = "process", !.i = job.i + 1, !.nb = numBatchesProcessed']
        /\ UNCHANGED <<tallyVars, subsidyVars>>
     \/ ~ProcessAccepted /\ Stop /\ UNCHANGED <<vars, salts>>
  /\ UNCHANGED <<gens, files, pendingSb, announced, crashes, regenerated, resumed>>

\* The number of the next subsidy proof, as if every row had all columns.
subsidyBatchNum == rbi * num1DBatches + cbi

readSubsidy ==
  /\ job.pc = "readSubsidy"
  /\ IF files["subsidy"] = << >>
     THEN job' = [job EXCEPT !.pc = "tally", !.i = tallyBatchNum] /\ UNCHANGED resumed
     ELSE /\ job' = [job EXCEPT !.i = subsidyBatchNum,
                       !.pc = IF subsidyBatchNum = 0 THEN "updateSb" ELSE "subsidy"]
          /\ resumed' = (resumed \/ (rbi > 0 /\ rbi < num1DBatches))
  /\ UNCHANGED <<vars, gens, files, salts, pendingSb, announced, crashes, regenerated>>

\* updateSbCommitment(), sent and not waited for.
sendUpdateSb ==
  /\ job.pc = "updateSb"
  /\ IF processingComplete THEN pendingSb' = TRUE /\ GoTo("subsidy")
     ELSE UNCHANGED pendingSb /\ Stop
  /\ UNCHANGED <<vars, gens, files, salts, announced, crashes, regenerated, resumed>>

mineUpdateSb ==
  /\ pendingSb
  /\ pendingSb' = FALSE
  /\ updateSubsidySbCommitment
  /\ UNCHANGED <<gens, files, salts, job, announced, crashes, regenerated, resumed>>

SubsidyProofValid ==
  /\ HasFile("subsidy", job.i)
  /\ LET g == FileOf("subsidy", job.i)
     IN  /\ Len(subsidyCommitment) = job.i
         /\ job.i > 0 => salts["subsidy"] = g
         /\ <<rbi, cbi>> = SubsidyPair[job.i]
         /\ subsidySbCommitment # Empty /\ salts["process"] = g

nextSubsidy ==
  /\ job.pc = "subsidy"
  /\ IF job.i >= totalBatchNum
     THEN /\ announced' = announced \cup
                            (IF subsidyBatchNum = totalBatchNum THEN {"subsidy"} ELSE {})
          /\ job' = [job EXCEPT !.pc = "tally", !.i = tallyBatchNum]
     ELSE /\ UNCHANGED announced
          /\ IF SubsidyProofValid THEN GoTo("sendSubsidy") ELSE Stop
  /\ UNCHANGED <<vars, gens, files, salts, pendingSb, crashes, regenerated, resumed>>

\* Nobody else submits for this poll: what was compared still holds.
sendSubsidy ==
  /\ job.pc = "sendSubsidy"
  /\ updateSubsidy
  /\ salts' = [salts EXCEPT !["subsidy"] = FileOf("subsidy", job.i)]
  /\ job' = [job EXCEPT !.pc = "subsidy", !.i = job.i + 1]
  /\ UNCHANGED <<gens, files, pendingSb, announced, crashes, regenerated, resumed>>

TallyProofValid ==
  /\ HasFile("tally", job.i)
  /\ LET g == FileOf("tally", job.i)
     IN  /\ job.i > 0 => salts["tally"] = g
         /\ salts["process"] = g

\* The first iteration also sends updateSbCommitment(), which tallyVotes would
\* make up for if it were mined late.
nextTally ==
  /\ job.pc = "tally"
  /\ IF job.i >= totalTallyBatches
     THEN /\ announced' = announced \cup
                            (IF tallyBatchNum = totalTallyBatches THEN {"tally"} ELSE {})
          /\ Stop
          /\ UNCHANGED vars
     ELSE /\ UNCHANGED announced
          /\ IF (job.i = 0 => processingComplete) /\ TallyProofValid
             THEN GoTo("sendTally") ELSE Stop
          /\ IF job.i = 0 /\ processingComplete THEN updateTallySbCommitment
             ELSE UNCHANGED vars
  /\ UNCHANGED <<gens, files, salts, pendingSb, crashes, regenerated, resumed>>

sendTally ==
  /\ job.pc = "sendTally"
  /\ tallyVotes
  /\ salts' = [salts EXCEPT !["tally"] = FileOf("tally", job.i)]
  /\ job' = [job EXCEPT !.pc = "tally", !.i = tallyBatchNum']
  /\ UNCHANGED <<gens, files, pendingSb, announced, crashes, regenerated, resumed>>

crash ==
  /\ job # Idle
  /\ crashes < MaxCrashes
  /\ crashes' = crashes + 1
  /\ Stop
  /\ UNCHANGED <<vars, gens, files, salts, pendingSb, announced, regenerated, resumed>>

ProveStep ==
  \/ startProve \/ readRoot
  \/ nextProcess \/ sendProcess
  \/ readSubsidy \/ sendUpdateSb \/ nextSubsidy \/ sendSubsidy
  \/ nextTally \/ sendTally

ChainStep == PollNext /\ UNCHANGED <<mpVars, tallyVars, subsidyVars, coordinatorVars>>

ProverNext ==
  \/ ChainStep
  \/ \E k \in 0..MaxFiles, ends \in BOOLEAN : genProofs(k, ends)
  \/ ProveStep
  \/ mineUpdateSb
  \/ crash

-----------------------------------------------------------------------------
(* Fairness: as in Tally the period ends and the trees are merged; the scripts *)
(* run to their ends and the coordinator starts proveOnChain again and again,  *)
(* and genProofs, some time, while its last run was cut short.  Each ENABLED   *)
(* is written out.                                                             *)
OnChain(A) == A /\ UNCHANGED <<mpVars, tallyVars, subsidyVars, coordinatorVars>>

wholeGenProofs == \E k \in 0..MaxFiles : genProofs(k, TRUE)

ProverFairness ==
  /\ <>[](~over) => []<><<OnChain(PeriodEnds)>>_proverVars
  /\ <>[](isAfterVotingDeadline /\ ~stateAqMerged) =>
       []<><<OnChain(MergeStateTree)>>_proverVars
  /\ <>[](isAfterVotingDeadline /\ CanMergeSubRoots(messageAq)) =>
       []<><<OnChain(MergeMessageSubRoots)>>_proverVars
  /\ <>[](/\ isAfterVotingDeadline
          /\ CanMerge(messageAq, messageTreeDepth)
          /\ getMainRoot(messageAq, messageTreeDepth) = Empty) =>
       []<><<OnChain(mergeMessageAq)>>_proverVars
  /\ <>[](job # Idle \/ files["process"] # << >>) => []<><<ProveStep>>_proverVars
  /\ <>[]pendingSb => []<><<mineUpdateSb>>_proverVars
  /\ []<>(job = Idle /\ CanGenerate /\ ~LastRunComplete) =>
       []<><<wholeGenProofs>>_proverVars

ProverSpec == ProverInit /\ [][ProverNext]_proverVars /\ ProverFairness

-----------------------------------------------------------------------------
\* What the script has compared is all the contract compares: a batch that
\* passed is accepted, unless a message or the flag came in between; the batch
\* index the script computes anew from a count is the one the contract stores.
ComparedIsAccepted ==
  (job.pc = "sendProcess" /\ over /\ job.n = numMessages
     /\ getMainRoot(messageAq, messageTreeDepth) = job.root) => ProcessAccepted

\* "All message processing proofs have been submitted." and the same of the
\* tally are reported only when the contracts are done.
ReportsAreTrue ==
  /\ "process" \in announced => processingComplete
  /\ "tally" \in announced => tallySbCommitment # Empty /\ isTallied

EveryPairCounted ==
  \A row, column \in 0..(num1DBatches - 1) :
    row <= column => <<row, column>> \in Range(subsidyCommitment)

\* A run that reaches the tally has left no pair of ballot batches without its
\* subsidy proof, unless it was a run that resumed beyond the first row.
NoPairSkipped ==
  (job.pc \in {"tally", "sendTally"} /\ files["subsidy"] # << >> /\ ~resumed) =>
    EveryPairCounted

\* If the flag of the deadline is raised some day and not lowered again the
\* votes are tallied, whatever crashes, unless proofs were generated anew over
\* batches already on the chain, or the subsidy resumed beyond its first row.
ProvenAfterCrashes ==
  (<>finished /\ [](finished => []finished)) =>
    <>((tallySbCommitment # Empty /\ isTallied) \/ regenerated \/ resumed)

\* "All subsidy calculation proofs have been submitted." (proveOnChain.ts,
\* Prover.ts): reported only if every pair of ballot batches has its proof.
SubsidyReportIsTrue ==
  "subsidy" \in announced => EveryPairCounted
=============================================================================
