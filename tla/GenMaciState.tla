---------------------------- MODULE GenMaciState ----------------------------
(***************************************************************************)
(* genMaciStateFromContract (contracts/ts/genMaciState.ts): the            *)
(* coordinator's MaciState rebuilt from the events of MACI and of one      *)
(* poll, fetched a few blocks at a time, sorted and replayed, then checked *)
(* against what the poll contract says.  The chain goes on meanwhile: the  *)
(* events are those up to lastBlock, the contract is read at its head.     *)
(*                                                                         *)
(* A user or a message is modelled by the number of its event, a root by   *)
(* the leaves under it.  The roots come from the contracts' queues, with   *)
(* the gaps that a merge of subroots leaves in front of a later leaf.      *)
(***************************************************************************)
EXTENDS AccQueueOps

CONSTANTS
  stateTreeDepth, messageTreeDepth,
  NumSrQueueOps,           (* limits of the merges tried; 0 is none        *)
  MessageLists,            (* the messages of a transaction tried          *)
  blocksPerRequest,
  Ranges,                  (* fromBlock and endBlock tried; 0 is none      *)
  MaxPolls,
  MaxTransactions, MaxBlocks   (* bounds on the chain                      *)

MessageTypes == {"PublishMessage", "TopupMessage"}

ASSUME GenMaciStateConstants ==
  /\ Zero = 0
  /\ stateTreeDepth \in Levels \ {0} /\ messageTreeDepth \in Levels \ {0}
  /\ NumSrQueueOps \subseteq Nat /\ MessageLists \subseteq Seq(MessageTypes)
  /\ blocksPerRequest \in Nat /\ Ranges \subseteq Nat \X Nat
  /\ MaxPolls \in Nat /\ MaxTransactions \in Nat /\ MaxBlocks \in Nat

VARIABLES
  chain,            (* the events, those of the block being built included *)
  head,             (* the last block mined                                *)
  transactions,     (* how many there are                                  *)
  stateAq,          (* MACI's queue of state leaves                        *)
  subtreesMerged,   (* MACI: sign-ups are blocked                          *)
  messageAq,        (* the queue of each poll                              *)
  gen,              (* the call of genMaciStateFromContract                *)
  excused           (* history: why the call may well throw                *)

queues == <<stateAq, subtreesMerged, messageAq>>
env == <<chain, head, transactions, queues>>
vars == <<env, gen, excused>>

Blank == Zero

-----------------------------------------------------------------------------
(***************************************************************************)
(* The contracts.                                                          *)
(***************************************************************************)
\* The k-th event of a transaction is the n-th of the chain.
Event(k, type, poll, data) ==
  [n |-> Len(chain) + k, block |-> head + 1, tx |-> transactions + 1,
   type |-> type, poll |-> poll, data |-> data]

\* The events at the positions K, in their order.
Those(events, K) ==
  LET picked[k \in 0..Len(events)] ==
        IF k = 0 THEN << >> ELSE IF k \in K THEN Append(picked[k - 1], events[k]) ELSE picked[k - 1]
  IN  picked[Len(events)]
OfType(events, type) == Those(events, {k \in DOMAIN events : events[k].type = type})

DataOf(events, types, p) ==
  FlattenSeq([k \in DOMAIN events |->
    IF events[k].type \in types /\ events[k].poll = p THEN events[k].data ELSE << >>])

Everybody == -1            \* the poll of a SignUp event
UsersIn(events) == DataOf(events, {"SignUp"}, Everybody)
MessagesIn(events, p) == DataOf(events, MessageTypes, p)
nextPollId == Len(OfType(chain, "DeployPoll"))
Has(events, type, p) == \E k \in DOMAIN events : events[k].type = type /\ events[k].poll = p

numSignUps == 1 + Len(UsersIn(chain))

\* Blocks before the call have one or more transactions, those mined during
\* the call have one: what the call reads from then on is newer than what it
\* has read.  The chain is of no interest once the call has ended.
Running ==
  /\ gen.at \notin {"returned", "threw"}
  /\ transactions < MaxTransactions /\ head < MaxBlocks

Emit(events) ==
  /\ transactions' = transactions + 1
  /\ chain' = chain \o events
  /\ head' = IF gen.at = "idle" THEN head ELSE head + 1
  /\ excused' = (excused \/ gen.at # "idle")
  /\ UNCHANGED gen

\* The leaves in the queue, one enqueue each.
EnqueueAll(aq, leaves) ==
  LET after[i \in 0..Len(leaves)] ==
        IF i = 0 THEN aq ELSE enqueue(after[i - 1], leaves[i])
  IN  after[Len(leaves)]

signUp ==
  /\ ~subtreesMerged
  /\ numSignUps < hashLength ^ stateTreeDepth
  /\ stateAq' = enqueue(stateAq, Len(chain) + 1)
  /\ Emit(<<Event(1, "SignUp", Everybody, <<Len(chain) + 1>>)>>)
  /\ UNCHANGED <<subtreesMerged, messageAq>>

\* The new poll publishes its placeholder in the same transaction.
deployPoll ==
  /\ nextPollId < MaxPolls
  /\ nextPollId > 0 => stateAq.treeMerged
  /\ messageAq' = [messageAq EXCEPT ![nextPollId] = enqueue(NewAccQueue, Len(chain) + 1)]
  /\ Emit(<<Event(1, "PublishMessage", nextPollId, <<Len(chain) + 1>>),
            Event(2, "DeployPoll", nextPollId, << >>)>>)
  /\ UNCHANGED <<stateAq, subtreesMerged>>

\* One call, or the calls of a contract in one transaction.  Nothing enforces
\* the deadline: a message may follow a merge.
publish(p, types) ==
  /\ Has(chain, "DeployPoll", p)
  /\ Len(MessagesIn(chain, p)) + Len(types) <= hashLength ^ messageTreeDepth
  /\ messageAq' = [messageAq EXCEPT ![p] = EnqueueAll(@, [k \in DOMAIN types |-> Len(chain) + k])]
  /\ Emit([k \in DOMAIN types |-> Event(k, types[k], p, <<Len(chain) + k>>)])
  /\ UNCHANGED <<stateAq, subtreesMerged>>

\* Neither merge of the messages is restricted to one call.
mergeMessageAqSubRoots(p, numSrQueueOps) ==
  /\ Has(chain, "DeployPoll", p)
  /\ CanMergeSubRoots(messageAq[p])
  /\ messageAq' = [messageAq EXCEPT ![p] = mergeSubRoots(@, numSrQueueOps)]
  /\ Emit(<<Event(1, "MergeMessageAqSubRoots", p, << >>)>>)
  /\ UNCHANGED <<stateAq, subtreesMerged>>

mergeMessageAq(p) ==
  /\ Has(chain, "DeployPoll", p)
  /\ CanMerge(messageAq[p], messageTreeDepth)
  /\ messageAq' = [messageAq EXCEPT ![p] = merge(@, messageTreeDepth)]
  /\ Emit(<<Event(1, "MergeMessageAq", p, MergedRoot(messageAq[p], messageTreeDepth))>>)
  /\ UNCHANGED <<stateAq, subtreesMerged>>

mergeMaciStateAqSubRoots(p, numSrQueueOps) ==
  /\ Has(chain, "DeployPoll", p) /\ ~Has(chain, "MergeMaciStateAq", p)
  /\ CanMergeSubRoots(stateAq)
  /\ stateAq' = mergeSubRoots(stateAq, numSrQueueOps)
  /\ subtreesMerged' = (stateAq'.subTreesMerged \/ subtreesMerged)
  /\ Emit(<<Event(1, "MergeMaciStateAqSubRoots", p, << >>)>>)
  /\ UNCHANGED messageAq

\* The data of the event is the number of sign-ups and then the root.
mergeMaciStateAq(p) ==
  /\ Has(chain, "DeployPoll", p) /\ ~Has(chain, "MergeMaciStateAq", p)
  /\ CanMerge(stateAq, stateTreeDepth)
  /\ stateAq' = merge(stateAq, stateTreeDepth)
  /\ subtreesMerged' = FALSE
  /\ Emit(<<Event(1, "MergeMaciStateAq", p, <<numSignUps>> \o MergedRoot(stateAq, stateTreeDepth))>>)
  /\ UNCHANGED messageAq

Pending == \E k \in DOMAIN chain : chain[k].block > head

mine ==
  /\ gen.at = "idle" /\ Pending
  /\ head' = head + 1
  /\ UNCHANGED <<chain, transactions, queues, gen, excused>>

Mined == Those(chain, {k \in DOMAIN chain : chain[k].block <= head})

\* What the poll contract answers; it has no number and no root of 0 until
\* it has merged the state queue.
Snapshot(p) == DataOf(Mined, {"MergeMaciStateAq"}, p)
NoRoot == << >>
numSignups(p) == IF Has(Mined, "MergeMaciStateAq", p) THEN Head(Snapshot(p)) ELSE 0
mergedStateRoot(p) == IF Has(Mined, "MergeMaciStateAq", p) THEN Tail(Snapshot(p)) ELSE NoRoot
numMessages(p) == Len(MessagesIn(Mined, p))

-----------------------------------------------------------------------------
(***************************************************************************)
(* The call.                                                               *)
(***************************************************************************)
queryFilter(types, p, from, to) ==
  Those(chain, {k \in DOMAIN chain :
                  /\ chain[k].block <= head /\ chain[k].block \in from..to
                  /\ chain[k].type \in types /\ (p = Everybody \/ chain[k].poll = p)})

MaciTypes == {"SignUp", "DeployPoll"}
PollTypes == MessageTypes \cup {"MergeMessageAq"}

NoCall == [at |-> "idle", pollId |-> 0, fromBlock |-> 0, lastBlock |-> 0, i |-> 0,
           logs |-> << >>, polls |-> << >>, leaves |-> << >>, messages |-> << >>,
           stateLeaves |-> << >>]

\* There is a poll, with or without a user who signed up after its deployment.
FirstEvent(n, tx, type, poll, data) ==
  [n |-> n, block |-> 1, tx |-> tx, type |-> type, poll |-> poll, data |-> data]
FirstPoll == <<FirstEvent(1, 1, "PublishMessage", 0, <<1>>), FirstEvent(2, 1, "DeployPoll", 0, << >>)>>
FirstUser == FirstEvent(3, 2, "SignUp", Everybody, <<3>>)
FirstAq == enqueue(NewAccQueue, Blank)

Init ==
  /\ chain \in {FirstPoll, Append(FirstPoll, FirstUser)}
  /\ head = 1 /\ transactions = 2
  /\ stateAq = EnqueueAll(FirstAq, UsersIn(chain)) /\ subtreesMerged = FALSE
  /\ messageAq = [p \in 0..(MaxPolls - 1) |-> IF p = 0 THEN enqueue(NewAccQueue, 1) ELSE NewAccQueue]
  /\ gen = NoCall
  /\ excused = FALSE

\* A transaction that both publishes and tops up.
Mixed(p) ==
  \E j, k \in DOMAIN chain :
    /\ chain[j].tx = chain[k].tx /\ chain[j].poll = p /\ chain[k].poll = p
    /\ chain[j].type = "PublishMessage" /\ chain[k].type = "TopupMessage"

At(types, p) == {k \in DOMAIN chain : chain[k].type \in types /\ chain[k].poll = p}

\* At the position m of the chain, a leaf has come after a merge of subroots:
\* blanks may sit in front of it, and the next root is not of the leaves alone.
LateMessage(p, m) ==
  \E k \in At(MessageTypes, p), j \in At({"MergeMessageAqSubRoots"}, p) : j < k /\ k < m
LateSignUp(m) ==
  \E k \in At({"SignUp"}, Everybody), j \in DOMAIN chain :
    chain[j].type = "MergeMaciStateAqSubRoots" /\ j < k /\ k < m

LateMerge(p) ==
  \/ \E m \in At({"MergeMessageAq"}, p) : LateMessage(p, m)
  \/ \E m \in At({"MergeMaciStateAq"}, p) : LateSignUp(m)

lastBlock(endBlock) == IF endBlock = 0 THEN head ELSE endBlock

\* The call is excused if its arguments leave events out, if its poll is not
\* merged or was merged late, and if a transaction has messages of both kinds.
begin(p, from, end) ==
  /\ gen.at = "idle" /\ ~Pending
  /\ gen' = [NoCall EXCEPT !.at = "maciLogs", !.pollId = p, !.fromBlock = from, !.i = from,
                           !.lastBlock = lastBlock(end)]
  /\ excused' = (from > 1 \/ lastBlock(end) < head \/ mergedStateRoot(p) = NoRoot
                  \/ LateMerge(p) \/ Mixed(p))
  /\ UNCHANGED env

\* Mutant: the next request begins with the block this one ended with.
NextOverlapping(i) == i + blocksPerRequest

NextRequest(i) == i + blocksPerRequest + 1

toBlock ==
  IF gen.i + blocksPerRequest >= gen.lastBlock THEN gen.lastBlock ELSE gen.i + blocksPerRequest

Requests(at, types, p) ==
  /\ gen.at = at /\ gen.i <= gen.lastBlock
  /\ gen' = [gen EXCEPT !.logs = @ \o queryFilter(types, p, gen.i, toBlock),
                        !.i = NextRequest(@)]
  /\ UNCHANGED <<env, excused>>

fetchMaciLogs == Requests("maciLogs", MaciTypes, Everybody)
fetchPollLogs == Requests("pollLogs", PollTypes, gen.pollId)

\* The IDs of the DeployPoll events count from 0 and the poll is among them.
PollsFound ==
  LET ids == OfType(gen.logs, "DeployPoll")
  IN  (\A k \in DOMAIN ids : ids[k].poll = k - 1) /\ gen.pollId < Len(ids)

checkPolls ==
  /\ gen.at = "maciLogs" /\ gen.i > gen.lastBlock
  /\ gen' = [gen EXCEPT !.at = IF PollsFound THEN "pollLogs" ELSE "threw",
                        !.i = gen.fromBlock]
  /\ UNCHANGED <<env, excused>>

\* The order in which the events become actions; sorting by block and by
\* transaction is stable and keeps it within a transaction.
ActionOrder == <<"SignUp", "DeployPoll", "PublishMessage", "TopupMessage", "MergeMessageAq">>

sortActions ==
  LET byType == FlattenSeq([k \in DOMAIN ActionOrder |-> OfType(gen.logs, ActionOrder[k])])
  IN  FlattenSeq([t \in 1..transactions |-> Those(byType, {k \in DOMAIN byType : byType[k].tx = t})])

NullPoll == Everybody

\* The root of a tree of the depth, blank after the leaves.
RootOf(leaves, depth) == leaves \o ZeroLeaves(hashLength ^ depth - Len(leaves))

\* One action on the state s being rebuilt for the poll p; messages for a poll
\* that is not there are dropped.
Replayed(s, e, p) ==
  CASE e.type = "SignUp" -> [s EXCEPT !.leaves = @ \o e.data]
    [] e.type = "DeployPoll" ->
         [s EXCEPT !.polls = Append(@, IF e.poll = p THEN e.poll ELSE NullPoll)]
    [] e.type \in MessageTypes ->
         IF p \in ToSet(s.polls) THEN [s EXCEPT !.messages = @ \o e.data] ELSE s
    [] e.type = "MergeMessageAq" -> 
         [s EXCEPT !.ok = @ /\ RootOf(s.messages, messageTreeDepth) = e.data]

NothingYet == [leaves |-> <<Blank>>, polls |-> << >>, messages |-> << >>, ok |-> TRUE]

AfterAll(actions, p) ==
  LET after[k \in 0..Len(actions)] ==
        IF k = 0 THEN NothingYet ELSE Replayed(after[k - 1], actions[k], p)
  IN  after[Len(actions)]

replay ==
  LET s == AfterAll(sortActions, gen.pollId)
  IN  /\ gen.at = "pollLogs" /\ gen.i > gen.lastBlock
      /\ gen' = [gen EXCEPT !.at = IF s.ok THEN "counts" ELSE "threw",
                            !.leaves = s.leaves, !.polls = s.polls, !.messages = s.messages]
      /\ UNCHANGED <<env, excused>>

\* numSignUpsAndMessages, then updatePoll.
readCounts ==
  LET n == numSignups(gen.pollId)
  IN  /\ gen.at = "counts"
      /\ gen' = [gen EXCEPT
           !.at = IF numMessages(gen.pollId) = Len(gen.messages) THEN "root" ELSE "threw",
           !.stateLeaves = SubSeq(gen.leaves, 1, IF n < Len(gen.leaves) THEN n
                                                 ELSE Len(gen.leaves))]
      /\ UNCHANGED <<env, excused>>

\* Mutant: the state root is not asserted.
RootUnchecked == TRUE

StateRootAgrees == RootOf(gen.stateLeaves, stateTreeDepth) = mergedStateRoot(gen.pollId)

readRoot ==
  /\ gen.at = "root"
  /\ gen' = [gen EXCEPT !.at = IF StateRootAgrees THEN "returned" ELSE "threw"]
  /\ UNCHANGED <<env, excused>>

Next ==
  \/ Running /\ (signUp \/ deployPoll)
  \/ mine
  \/ \E p \in 0..(MaxPolls - 1) :
       \/ Running /\ \/ \E types \in MessageLists : publish(p, types)
                     \/ \E n \in NumSrQueueOps : mergeMessageAqSubRoots(p, n)
                     \/ mergeMessageAq(p)
                     \/ \E n \in NumSrQueueOps : mergeMaciStateAqSubRoots(p, n)
                     \/ mergeMaciStateAq(p)
       \/ \E range \in Ranges : begin(p, range[1], range[2])
  \/ fetchMaciLogs \/ checkPolls \/ fetchPollLogs \/ replay \/ readCounts \/ readRoot

Spec == Init /\ [][Next]_vars

-----------------------------------------------------------------------------
\* Whatever happens on the chain during a call and whatever blocks it is asked
\* for, if it returns, its poll sits at its own ID and holds the messages of
\* the contract in their order.  Messages of both kinds in one transaction may
\* be out of order, but not those before a root of the messages among the
\* events.  The state leaves are the users of the contract's snapshot; a poll
\* without users may be returned with no state leaf at all.  A merge that was
\* late says nothing of the leaves.
ReturnsContractState ==
  gen.at = "returned" =>
    LET p == gen.pollId
        IsStart(messages) == SubSeq(gen.messages, 1, Len(messages)) = messages
    IN  /\ gen.polls[p + 1] = p
        /\ ~Mixed(p) => IsStart(SubSeq(MessagesIn(chain, p), 1, Len(gen.messages)))
        /\ \A m \in At({"MergeMessageAq"}, p) :
             chain[m] \in ToSet(gen.logs) /\ ~LateMessage(p, m) =>
               IsStart(MessagesIn(SubSeq(chain, 1, m), p))
        /\ \A m \in At({"MergeMaciStateAq"}, p) :
             LET users == UsersIn(SubSeq(chain, 1, m))
             IN  \/ LateSignUp(m)
                 \/ gen.stateLeaves = <<Blank>> \o users
                 \/ gen.stateLeaves = << >> /\ users = << >>

\* A call that is given every block of a quiet chain with a merged poll does
\* not throw: no event is missed or taken twice between two requests.
QuietCallReturns == gen.at = "threw" => excused
=============================================================================
