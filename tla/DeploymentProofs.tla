--------------------------- MODULE DeploymentProofs ---------------------------
(***************************************************************************)
(* For every configuration and choice of --skip, any number of polls and   *)
(* of interruptions: what deploy-full and deploy-poll have registered is   *)
(* complete and belongs together, polls are under their IDs, and the check *)
(* of the results warns when it should while there is one poll.            *)
(***************************************************************************)
EXTENDS Deployment, FiniteSetTheorems, TLAPS

-----------------------------------------------------------------------------
(***************************************************************************)
(* The names of the contracts, and what each is built with.                *)
(***************************************************************************)
Ids ==
  Poseidons \cup Factories
    \cup {"ConstantInitialVoiceCreditProxy", "TopupCredit", "FreeForAllGatekeeper",
          "EASGatekeeper", "Verifier", "MACI", "VkRegistry"}
AllKinds == {"Poll", "MessageProcessor", "Tally", "Subsidy"}
Kinds ==
  {"Poll", "MessageProcessor", "Tally"} \cup (IF config.subsidyPolls THEN {"Subsidy"} ELSE {})
AllIds == Ids \cup AllKinds
AllKeys == {"verifying", "subsidy"}
Keys == {"verifying"} \cup (IF config.subsidyKeys THEN {"subsidy"} ELSE {})

Needs(id) ==
  IF id \in Factories THEN Poseidons ELSE IF id = "MACI" THEN MaciNeeds ELSE {}

\* The number of the step that deploys a contract.
Turn(id) ==
  CASE id = "ConstantInitialVoiceCreditProxy" -> 1
    [] id \in Gatekeepers -> 2
    [] id = "Verifier" -> 3
    [] id = "TopupCredit" -> 4
    [] id \in Poseidons -> 5
    [] id = "PollFactory" -> 6
    [] id = "MessageProcessorFactory" -> 7
    [] id = "TallyFactory" -> 8
    [] id = "SubsidyFactory" -> 9
    [] id = "MACI" -> 10
    [] id = "VkRegistry" -> 11

-----------------------------------------------------------------------------
(***************************************************************************)
(* Types.                                                                  *)
(***************************************************************************)
Addresses == 1..Len(chain)
References == UNION {[ids -> Nat] : ids \in SUBSET AllIds}
Names == (Ids \X {NoKey}) \cup (AllKinds \X Nat)

Contracts ==
  [id : AllIds, refs : References, maci : Nat, keys : SUBSET AllKeys, polls : Seq(Nat),
   treeMerged : BOOLEAN]

Items ==
  [do : {"deploy"}, id : Ids, refs : References]
    \cup [do : {"register"}, id : Ids] \cup [do : {"registerPoll"}, id : AllKinds]
    \cup [do : {"setMaciInstance"}, id : Nat] \cup [do : {"setKeys"}, id : AllKeys]
    \cup [do : {"deployPoll", "throw"}]

Runs ==
  [task : {"none", "full", "poll"}, incremental : BOOLEAN, skip : Skips \cup {0}, step : Nat,
   todo : Seq(Items), written : BOOLEAN, pollId : Nat, mine : References]

Types ==
  /\ config \in Configs
  /\ chain \in Seq(Contracts)
  /\ DOMAIN named \subseteq Names /\ IsFiniteSet(DOMAIN named)
  /\ named \in [DOMAIN named -> [address : Addresses, count : Nat \ {0}]]
  /\ run \in Runs
  /\ skippedGatekeepers \in BOOLEAN

-----------------------------------------------------------------------------
(***************************************************************************)
(* The storage.                                                            *)
(***************************************************************************)
RefsOnChain == \A a \in Addresses : \A id \in DOMAIN chain[a].refs : chain[a].refs[id] \in Addresses

\* Built with what is registered.
Wired(refs, id) ==
  /\ DOMAIN refs = Needs(id)
  /\ \A need \in Needs(id) : Saved(need) /\ refs[need] = AddressOf(need)

Exempt == skippedGatekeepers /\ Cardinality(config.gatekeepers) > 1

NamesInv ==
  /\ \A name \in DOMAIN named :
       chain[named[name].address].id = name[1] /\ named[name].address \in instance
  /\ \A id \in Ids : Saved(id) => DOMAIN chain[AddressOf(id)].refs = Needs(id)
  /\ ~Exempt => \A id \in Ids : Saved(id) => Wired(chain[AddressOf(id)].refs, id)

GatekeepersInv ==
  (Saved("MACI") /\ ~skippedGatekeepers) => \A g \in config.gatekeepers : Saved(g)

-----------------------------------------------------------------------------
(***************************************************************************)
(* deploy-full.                                                            *)
(***************************************************************************)
todo == run.todo
Left == 1..Len(todo)

Deployed(id, k) ==
  id \in DOMAIN run.mine \/ \E j \in 1..(k - 1) : todo[j].do = "deploy" /\ todo[j].id = id

DeployItem(k) ==
  todo[k].do = "deploy" =>
    /\ Turn(todo[k].id) = run.step
    /\ Wired(todo[k].refs, todo[k].id)
    /\ todo[k].id \in {"MACI", "VkRegistry"} => k = 1

RegisterItem(k) ==
  todo[k].do = "register" =>
    /\ Turn(todo[k].id) = run.step
    /\ Deployed(todo[k].id, k)
    /\ ~Exempt => \A id \in Ids : Saved(id) => todo[k].id \notin Needs(id)
    /\ todo[k].id \in {"MACI", "VkRegistry"} => k = Len(todo) /\ ~Saved(todo[k].id)

InstanceItem(k) ==
  todo[k].do = "setMaciInstance" =>
    /\ run.step = Turn("MACI") /\ ~Saved("MACI") /\ Deployed("MACI", k)
    /\ config.gatekeeper = "EASGatekeeper"
    /\ Saved("EASGatekeeper") /\ todo[k].id = AddressOf("EASGatekeeper")

KeysItem(k) ==
  todo[k].do = "setKeys" =>
    /\ run.step = Turn("VkRegistry") /\ ~Saved("VkRegistry") /\ Deployed("VkRegistry", k)
    /\ todo[k].id \in Keys

\* Before MACI and the registry are registered they are complete.
MaciItem(k) ==
  (todo[k].do = "register" /\ todo[k].id = "MACI" /\ config.gatekeeper = "EASGatekeeper") =>
    \/ \E j \in 1..(k - 1) : todo[j].do = "setMaciInstance"
    \/ /\ todo[1].do # "deploy"
       /\ chain[AddressOf("EASGatekeeper")].maci = run.mine["MACI"]

RegistryItem(k) ==
  (todo[k].do = "register" /\ todo[k].id = "VkRegistry") =>
    \A key \in Keys :
      \/ \E j \in 1..(k - 1) : todo[j].do = "setKeys" /\ todo[j].id = key
      \/ todo[1].do # "deploy" /\ key \in chain[run.mine["VkRegistry"]].keys

FullItem(k) ==
  /\ todo[k].do \in {"deploy", "register", "setMaciInstance", "setKeys", "throw"}
  /\ DeployItem(k) /\ RegisterItem(k) /\ InstanceItem(k) /\ KeysItem(k)
  /\ MaciItem(k) /\ RegistryItem(k)

MineInv ==
  \A id \in DOMAIN run.mine :
    /\ id \in Ids /\ Turn(id) = run.step
    /\ run.mine[id] \in Addresses
    /\ LET it == chain[run.mine[id]]
       IN  it.id = id /\ it.polls = << >> /\ it.keys \subseteq Keys /\ Wired(it.refs, id)

FullInv ==
  /\ run.step <= 11
  /\ MineInv
  /\ \A k \in Left : FullItem(k)
  /\ ~run.incremental => \A id \in Ids : Saved(id) => Turn(id) <= run.step
  /\ (run.step >= 2 /\ ~skippedGatekeepers) =>
       \A g \in config.gatekeepers :
         Saved(g) \/ \E k \in Left : todo[k].do = "register" /\ todo[k].id = g

-----------------------------------------------------------------------------
(***************************************************************************)
(* deploy-poll.                                                            *)
(***************************************************************************)
Polls == chain[AddressOf("MACI")].polls

\* A contract at a is one of the poll of this ID.
OfPoll(a, kind, id) ==
  IF kind = "Poll" THEN a = Polls[id + 1]
  ELSE "Poll" \in DOMAIN chain[a].refs /\ chain[a].refs["Poll"] = Polls[id + 1]

PollItem(k) ==
  /\ todo[k].do \in {"deployPoll", "registerPoll", "throw"}
  /\ todo[k].do = "throw" => Len(todo) = 1
  /\ todo[k].do = "deployPoll" => k = 1
  /\ todo[k].do = "registerPoll" =>
       todo[k].id \in Kinds /\ (todo[1].do = "deployPoll" \/ todo[k].id \in DOMAIN run.mine)

PollInv ==
  /\ run.step <= 1
  /\ \A k \in Left : PollItem(k)
  /\ (todo # << >> /\ todo[1].do # "throw") => \A id \in {"MACI", "Verifier", "VkRegistry"} : Saved(id)
  /\ (todo # << >> /\ todo[1].do = "deployPoll") =>
       /\ run.pollId = Len(Polls)
       /\ \A kind \in Kinds : \E k \in Left : todo[k].do = "registerPoll" /\ todo[k].id = kind
  /\ (todo # << >> /\ todo[1].do = "registerPoll") =>
       /\ run.pollId + 1 = Len(Polls)
       /\ \A id \in DOMAIN run.mine :
            /\ id \in Kinds /\ run.mine[id] \in Addresses
            /\ chain[run.mine[id]].id = id /\ OfPoll(run.mine[id], id, run.pollId)

PollNamesInv ==
  \A name \in DOMAIN named : name[1] \in AllKinds =>
    /\ Saved("MACI") /\ name[2] < Len(Polls)
    /\ OfPoll(named[name].address, name[1], name[2])

\* The kind is under this ID, or its turn is to come.
PollKnown(kind, id) ==
  \/ <<kind, id>> \in DOMAIN named
  \/ /\ run.task = "poll" /\ id = run.pollId
     /\ \E k \in Left : todo[k].do = "registerPoll" /\ todo[k].id = kind

PollsKnownInv ==
  Saved("MACI") =>
    \A id \in 0..(Len(Polls) - 1) : id \notin lost => \A kind \in Kinds : PollKnown(kind, id)

StorageInv ==
  RefsOnChain /\ NamesInv /\ RegisteredIsUsable /\ GatekeepersInv /\ PollNamesInv

RunInv ==
  /\ run.task = "none" => run = Idle
  /\ run.task = "full" => FullInv
  /\ run.task = "poll" => PollInv

TasksInv == Types /\ StorageInv /\ PollsKnownInv /\ RunInv

-----------------------------------------------------------------------------
(***************************************************************************)
(* The two writes of a registration.                                       *)
(***************************************************************************)
Registers(k) == todo[k].do \in {"register", "registerPoll"}
NamedAddresses == {named[name].address : name \in DOMAIN named}

\* The instance that is written and whose name comes next.
HalfRegistered == IF run.written THEN {run.mine[todo[1].id]} ELSE {}

WrittenInv ==
  run.written => 1 \in Left /\ Registers(1) /\ run.mine[todo[1].id] \in instance

\* What an earlier run has left without a name is never named, and what this
\* run deployed is named once.
UnnamedInv ==
  /\ unnamed \subseteq Addresses /\ unnamed \cap NamedAddresses = {}
  /\ \A id \in DOMAIN run.mine : run.mine[id] \notin unnamed
  /\ \A k \in Left : Registers(k) /\ todo[k].id \in DOMAIN run.mine =>
       run.mine[todo[k].id] \notin NamedAddresses
  /\ \A j \in Left, k \in Left :
       Registers(j) /\ Registers(k) /\ todo[j].id = todo[k].id => j = k

InstancesInv ==
  (\A name \in DOMAIN named : named[name].count = 1) =>
    instance = NamedAddresses \cup unnamed \cup HalfRegistered

CountsInv == WrittenInv /\ UnnamedInv /\ InstancesInv

DeploymentInv == TasksInv /\ CountsInv

-----------------------------------------------------------------------------
(***************************************************************************)
(* Functions, records and what is left to do.                              *)
(***************************************************************************)
LEMMA ReferencesTyped ==
  ASSUME NEW ids \in SUBSET AllIds, NEW f, DOMAIN f = ids, \A id \in ids : f[id] \in Nat,
         f = [id \in ids |-> f[id]]
  PROVE  f \in References
<1>1. f \in [ids -> Nat]
  OBVIOUS
<1> QED
  BY <1>1 DEF References

LEMMA ReferencesDef ==
  ASSUME NEW f \in References
  PROVE  DOMAIN f \subseteq AllIds /\ \A id \in DOMAIN f : f[id] \in Nat
  BY DEF References

LEMMA WithTyped ==
  ASSUME NEW f \in References, NEW id \in AllIds, NEW a \in Nat
  PROVE  With(f, id, a) \in References
<1> DEFINE g == With(f, id, a)
           ids == DOMAIN f \cup {id}
<1>1. ids \in SUBSET AllIds /\ \A i \in DOMAIN f : f[i] \in Nat
  BY ReferencesDef
<1>2. DOMAIN g = ids /\ g = [i \in ids |-> g[i]]
  BY DEF With
<1>3. \A i \in ids : g[i] \in Nat
  <2>1. g[id] = a /\ \A i \in DOMAIN f : i # id => g[i] = f[i]
    BY DEF With
  <2> HIDE DEF g
  <2> QED
    BY <1>1, <2>1
<1> HIDE DEF g, ids
<1>4. g \in References
  BY <1>1, <1>2, <1>3, ReferencesTyped
<1> QED
  BY <1>4 DEF g

LEMMA RunTyped ==
  ASSUME run \in Runs
  PROVE  /\ run.task \in {"none", "full", "poll"} /\ run.incremental \in BOOLEAN
         /\ run.step \in Nat /\ run.pollId \in Nat /\ run.mine \in References
         /\ todo \in Seq(Items) /\ Len(todo) \in Nat
  BY DEF Runs, todo

\* What is left after one item more has been done.
LEMMA TailOfTodo ==
  ASSUME NEW s, NEW T, s \in Seq(T), s # << >>
  PROVE  /\ Len(s) \in Nat \ {0} /\ Head(s) = s[1]
         /\ Tail(s) \in Seq(T) /\ Len(Tail(s)) = Len(s) - 1
         /\ \A k \in 1..Len(Tail(s)) : k + 1 \in 1..Len(s) /\ Tail(s)[k] = s[k + 1]
  OBVIOUS

LEMMA DoneRun ==
  ASSUME run \in Runs, todo # << >>, NEW mine \in References,
         run' = [run EXCEPT !.todo = Tail(@), !.written = FALSE, !.mine = mine]
  PROVE  /\ run' \in Runs
         /\ todo' = Tail(todo) /\ run'.mine = mine /\ ~run'.written
         /\ run'.task = run.task /\ run'.incremental = run.incremental
         /\ run'.step = run.step /\ run'.pollId = run.pollId
<1>1. Tail(todo) \in Seq(Items)
  BY RunTyped
<1> QED
  BY <1>1 DEF Runs, todo

LEMMA DoneSame ==
  ASSUME run \in Runs, todo # << >>, run' = Done
  PROVE  /\ run' \in Runs
         /\ todo' = Tail(todo) /\ run'.mine = run.mine /\ ~run'.written
         /\ run'.task = run.task /\ run'.incremental = run.incremental
         /\ run'.step = run.step /\ run'.pollId = run.pollId
<1>1. run' = [run EXCEPT !.todo = Tail(@), !.written = FALSE, !.mine = run.mine]
  BY DEF Runs, Done
<1> QED
  BY <1>1, DoneRun, RunTyped

LEMMA ItemTyped ==
  ASSUME NEW it \in Items
  PROVE  /\ it.do \in {"deploy", "register", "registerPoll", "setMaciInstance", "setKeys",
                       "deployPoll", "throw"}
         /\ it.do = "deploy" => it.id \in Ids /\ it.refs \in References
         /\ it.do = "register" => it.id \in Ids
         /\ it.do = "registerPoll" => it.id \in AllKinds
         /\ it.do = "setMaciInstance" => it.id \in Nat
         /\ it.do = "setKeys" => it.id \in AllKeys
  BY DEF Items

LEMMA ConfigTyped ==
  ASSUME config \in Configs
  PROVE  /\ config.gatekeepers \subseteq Gatekeepers /\ config.gatekeeper \in Gatekeepers
         /\ config.subsidyKeys \in BOOLEAN /\ config.subsidyPolls \in BOOLEAN
         /\ config.voiceCredits \in BOOLEAN
  BY ConfigsTyped

\* What a contract needs is deployed by an earlier step.
LEMMA NeedsBefore ==
  ASSUME config \in Configs, NEW id \in Ids, NEW need \in Needs(id)
  PROVE  need \in Ids /\ Turn(need) < Turn(id)
  BY ConfigTyped DEF Needs, MaciNeeds, Ids, Turn, Poseidons, Factories, Gatekeepers

LEMMA TurnTyped ==
  ASSUME NEW id \in Ids PROVE Turn(id) \in 1..11
  BY DEF Ids, Turn, Poseidons, Factories, Gatekeepers

-----------------------------------------------------------------------------
(***************************************************************************)
(* Contracts keep their kind and what they were built with.                *)
(***************************************************************************)
Grown ==
  /\ chain' \in Seq(Contracts) /\ Len(chain') >= Len(chain)
  /\ \A a \in Addresses : chain'[a].id = chain[a].id /\ chain'[a].refs = chain[a].refs

LEMMA NameTyped ==
  ASSUME Types, NEW name \in DOMAIN named
  PROVE  named[name].address \in Addresses /\ named[name].count \in Nat \ {0}
  BY DEF Types

LEMMA SavedTyped ==
  ASSUME Types, NEW id, Saved(id)
  PROVE  AddressOf(id) \in Addresses
  BY NameTyped DEF Saved, AddressOf

LEMMA NeedsSame ==
  ASSUME UNCHANGED config
  PROVE  \A id : Needs(id)' = Needs(id)
  BY DEF Needs, MaciNeeds

LEMMA NamesKept ==
  ASSUME Types, NamesInv, Grown, UNCHANGED <<config, storage>>,
         skippedGatekeepers => skippedGatekeepers'
  PROVE  NamesInv'
<1>1. UNCHANGED <<config, named, instance>>
  BY DEF storage
<1>2. \A name \in DOMAIN named : chain'[named[name].address].id = name[1] /\ named[name].address \in instance
  BY NameTyped DEF NamesInv, Grown
<1>3. \A id : Saved(id) => chain'[AddressOf(id)].refs = chain[AddressOf(id)].refs
  BY SavedTyped DEF Grown
<1>4. \A id : (Saved(id)' <=> Saved(id)) /\ AddressOf(id)' = AddressOf(id) /\ Needs(id)' = Needs(id)
  BY <1>1, NeedsSame DEF Saved, AddressOf
<1>5. ~Exempt' => ~Exempt
  BY <1>1 DEF Exempt
<1>6. \A id \in Ids : Saved(id)' => DOMAIN chain'[AddressOf(id)'].refs = Needs(id)'
  BY <1>3, <1>4 DEF NamesInv
<1>7. ~Exempt' => \A id \in Ids : Saved(id)' => Wired(chain[AddressOf(id)].refs, id)'
  <2>1. ~Exempt => \A id \in Ids : Saved(id) =>
          \A need \in Needs(id) : Saved(need) /\ chain[AddressOf(id)].refs[need] = AddressOf(need)
    BY DEF NamesInv, Wired
  <2>2. ~Exempt' => \A id \in Ids : Saved(id)' =>
          \A need \in Needs(id)' : Saved(need)' /\ chain'[AddressOf(id)'].refs[need] = AddressOf(need)'
    BY <1>3, <1>4, <1>5, <2>1
  <2> QED
    BY <1>6, <2>2 DEF Wired
<1> QED
  BY <1>1, <1>2, <1>6, <1>7 DEF NamesInv

LEMMA StorageKept ==
  ASSUME Types, NamesInv, GatekeepersInv, Grown,
         UNCHANGED <<config, storage>>, skippedGatekeepers => skippedGatekeepers'
  PROVE  NamesInv' /\ GatekeepersInv'
<1>1. NamesInv'
  BY NamesKept
<1>2. GatekeepersInv'
  BY DEF GatekeepersInv, Saved, storage
<1> QED
  BY <1>1, <1>2

LEMMA NothingYet == << >> \in References /\ << >> \in Seq(Items)
<1>1. << >> \in [{} -> Nat]
  OBVIOUS
<1> QED
  BY <1>1 DEF References

LEMMA StorageSame ==
  ASSUME Types, StorageInv, UNCHANGED <<config, chain, storage>>,
         skippedGatekeepers => skippedGatekeepers'
  PROVE  StorageInv'
<1>1. chain \in Seq(Contracts)
  BY DEF Types
<1>2. Grown
  BY <1>1 DEF Grown, Addresses
<1>3. NamesInv' /\ GatekeepersInv'
  BY <1>2, StorageKept DEF StorageInv
<1>4. RefsOnChain'
  BY DEF RefsOnChain, Addresses, StorageInv
<1>5. RegisteredIsUsable'
  BY DEF RegisteredIsUsable, Saved, AddressOf, storage, StorageInv
<1>6. PollNamesInv'
  BY DEF PollNamesInv, OfPoll, Polls, Saved, AddressOf, storage, StorageInv
<1> QED
  BY <1>3, <1>4, <1>5, <1>6 DEF StorageInv

LEMMA TypesSame ==
  ASSUME Types, UNCHANGED <<config, chain, storage>>, skippedGatekeepers' \in BOOLEAN,
         run' \in Runs
  PROVE  Types'
  BY DEF Types, Addresses, storage

LEMMA IdleTyped == Idle \in Runs /\ Idle.task = "none"
  BY NothingYet DEF Idle, Runs

-----------------------------------------------------------------------------
(***************************************************************************)
(* A run begins or ends.                                                   *)
(***************************************************************************)
\* A run that ends leaves no poll behind that is neither known nor lost.
LEMMA NoPollForgotten ==
  ASSUME Types, PollsKnownInv, RunInv, throws \/ finish \/ crash
  PROVE  Saved("MACI") =>
           \A id \in 0..(Len(Polls) - 1) : id \notin lost' =>
             \A kind \in Kinds : <<kind, id>> \in DOMAIN named
<1> SUFFICES ASSUME Saved("MACI"), NEW id \in 0..(Len(Polls) - 1), id \notin lost',
                    NEW kind \in Kinds, <<kind, id>> \notin DOMAIN named
             PROVE  FALSE
  OBVIOUS
<1>1. id \notin lost
  BY DEF throws, finish, crash, history
<1>2. run.task = "poll" /\ id = run.pollId
  BY <1>1 DEF PollsKnownInv, PollKnown
<1>3. PICK k \in Left : todo[k].do = "registerPoll"
  BY <1>1 DEF PollsKnownInv, PollKnown
<1>4. PollInv
  BY <1>2 DEF RunInv
<1>5. todo \in Seq(Items) /\ todo # << >> /\ Head(todo) = todo[1] /\ 1 \in Left
  BY <1>3, RunTyped DEF Types, Left
<1>6. ~finish
  BY <1>5 DEF finish, Checking, todo
<1>7. todo[1].do # "throw"
  BY <1>3, <1>4, <1>5 DEF PollInv, PollItem, Left
<1>8. crash
  BY <1>5, <1>6, <1>7 DEF throws, Doing, todo
<1>9. todo[1].do # "registerPoll"
  BY <1>1, <1>2, <1>5, <1>8 DEF crash, Doing, todo
<1>10. todo[1].do = "deployPoll"
  BY <1>4, <1>5, <1>7, <1>9 DEF PollInv, PollItem
<1>11. run.pollId = Len(Polls)
  BY <1>4, <1>5, <1>10 DEF PollInv
<1>12. id < Len(Polls)
  BY DEF Types
<1> QED
  BY <1>2, <1>11, <1>12

LEMMA StopStep ==
  ASSUME TasksInv, throws \/ finish \/ crash
  PROVE  TasksInv'
<1>1. run' = Idle /\ UNCHANGED <<config, chain, storage, skippedGatekeepers>>
  BY DEF throws, finish, crash, history
<1>2. Types'
  BY <1>1, TypesSame, IdleTyped DEF TasksInv, Types
<1>3. StorageInv'
  BY <1>1, StorageSame DEF TasksInv
<1>4. PollsKnownInv'
  <2>1. Saved("MACI") =>
           \A id \in 0..(Len(Polls) - 1) : id \notin lost' =>
             \A kind \in Kinds : <<kind, id>> \in DOMAIN named
    BY NoPollForgotten DEF TasksInv
  <2> QED
    BY <1>1, <2>1 DEF PollsKnownInv, PollKnown, Polls, Saved, AddressOf, Kinds, storage
<1>5. RunInv'
  BY <1>1, IdleTyped DEF RunInv
<1> QED
  BY <1>2, <1>3, <1>4, <1>5 DEF TasksInv

LEMMA StartedRun ==
  ASSUME NEW task \in {"full", "poll"}, NEW incremental \in BOOLEAN, NEW skip \in Skips \cup {0},
         start(task, incremental, skip)
  PROVE  /\ run' \in Runs
         /\ run'.task = task /\ run'.incremental = incremental /\ run'.step = 0
         /\ todo' = << >> /\ run'.mine = << >>
  BY NothingYet DEF start, Idle, Runs, todo

LEMMA StartedInv ==
  ASSUME run'.task \in {"full", "poll"}, run'.step = 0, todo' = << >>, run'.mine = << >>,
         run'.incremental \/ named' = << >>
  PROVE  RunInv'
<1>1. DOMAIN << >> = {} /\ Len(<< >>) = 0
  OBVIOUS
<1>2. Left' = {} /\ DOMAIN run'.mine = {}
  BY <1>1 DEF Left
<1>3. ~run'.incremental => \A id \in Ids : ~Saved(id)'
  BY <1>1 DEF Saved
<1>4. FullInv'
  BY <1>2, <1>3 DEF FullInv, MineInv
<1>5. PollInv'
  BY <1>2 DEF PollInv
<1> QED
  BY <1>4, <1>5 DEF RunInv

LEMMA CleanedStorage ==
  ASSUME Types, StorageInv, UNCHANGED <<config, chain>>, named' = << >>, instance' = {},
         run' \in Runs, UNCHANGED skippedGatekeepers
  PROVE  Types' /\ StorageInv' /\ PollsKnownInv'
<1>1. DOMAIN << >> = {}
  OBVIOUS
<1>2. DOMAIN named' = {} /\ \A id : ~Saved(id)'
  BY <1>1 DEF Saved
<1>3. Types'
  <2>1. << >> \in [{} -> [address : Addresses', count : Nat \ {0}]]
    OBVIOUS
  <2>2. IsFiniteSet({})
    BY FS_EmptySet
  <2> QED
    BY <1>1, <2>1, <2>2 DEF Types
<1>4. RefsOnChain'
  BY DEF RefsOnChain, Addresses, StorageInv
<1>5. NamesInv' /\ GatekeepersInv' /\ RegisteredIsUsable' /\ PollNamesInv' /\ PollsKnownInv'
  BY <1>2 DEF NamesInv, GatekeepersInv, RegisteredIsUsable, PollNamesInv, PollsKnownInv
<1> QED
  BY <1>3, <1>4, <1>5 DEF StorageInv

LEMMA StartStep ==
  ASSUME TasksInv, NEW task \in {"full", "poll"}, NEW incremental \in BOOLEAN,
         NEW skip \in Skips \cup {0}, start(task, incremental, skip)
  PROVE  TasksInv'
<1>1. run' \in Runs
  BY StartedRun
<1>2. UNCHANGED <<config, chain, skippedGatekeepers>>
  BY DEF start
<1>3. RunInv'
  <2>1. incremental \/ named' = << >>
    BY DEF start, CleanedNames
  <2> QED
    BY <2>1, StartedRun, StartedInv
<1>4. CASE incremental
  <2>1. UNCHANGED <<storage, lost>>
    BY <1>4 DEF start, storage
  <2>2. Types' /\ StorageInv'
    BY <1>1, <1>2, <2>1, TypesSame, StorageSame DEF TasksInv, Types
  <2>3. \A kind, id : PollKnown(kind, id) => <<kind, id>> \in DOMAIN named
    BY DEF start, Idle, PollKnown
  <2>4. PollsKnownInv'
    BY <1>2, <2>1, <2>3 DEF PollsKnownInv, PollKnown, Polls, Saved, AddressOf, Kinds, storage, TasksInv
  <2> QED
    BY <1>3, <2>2, <2>4 DEF TasksInv
<1>5. CASE ~incremental
  <2>1. named' = << >> /\ instance' = {}
    BY <1>5 DEF start, CleanedNames, CleanedInstances
  <2> QED
    BY <1>1, <1>2, <1>3, <2>1, CleanedStorage DEF TasksInv
<1> QED
  BY <1>4, <1>5

-----------------------------------------------------------------------------
(***************************************************************************)
(* The chain grows, or something is set in a contract.                     *)
(***************************************************************************)
LEMMA HeadItem ==
  ASSUME Types, NEW what, Doing(what)
  PROVE  /\ todo # << >> /\ 1 \in Left /\ todo[1] \in Items
         /\ Head(run.todo) = todo[1] /\ todo[1].do = what
<1>1. todo \in Seq(Items) /\ todo # << >> /\ Head(todo).do = what
  BY RunTyped DEF Types, Doing, todo
<1>2. Len(todo) \in Nat \ {0} /\ Head(todo) = todo[1]
  BY <1>1, TailOfTodo
<1> QED
  BY <1>1, <1>2 DEF Left, todo

LEMMA TodoTyped ==
  ASSUME Types, NEW k \in Left
  PROVE  todo[k] \in Items
  BY RunTyped DEF Types, Left

LEMMA NextItem ==
  ASSUME Types, todo # << >>, todo' = Tail(todo)
  PROVE  Len(todo') = Len(todo) - 1 /\ \A k \in Left' : k + 1 \in Left /\ todo'[k] = todo[k + 1]
<1>1. todo \in Seq(Items)
  BY RunTyped DEF Types
<1> QED
  BY <1>1, TailOfTodo DEF Left

LEMMA UsableKept ==
  ASSUME Types, StorageInv, Grown, UNCHANGED <<config, storage>>,
         Saved("MACI") => \A a \in Addresses : chain'[a].maci = chain[a].maci,
         Saved("VkRegistry") => \A a \in Addresses : chain'[a].keys = chain[a].keys
  PROVE  RegisteredIsUsable'
<1>1. \A id : (Saved(id)' <=> Saved(id)) /\ AddressOf(id)' = AddressOf(id)
  BY DEF Saved, AddressOf, storage
<1>2. ASSUME Saved("MACI"), config.gatekeeper = "EASGatekeeper"
      PROVE  chain'[chain'[AddressOf("MACI")].refs["EASGatekeeper"]].maci = AddressOf("MACI")
  <2>1. AddressOf("MACI") \in Addresses
    BY <1>2, SavedTyped
  <2>2. "EASGatekeeper" \in DOMAIN chain[AddressOf("MACI")].refs
    BY <1>2 DEF StorageInv, NamesInv, Needs, MaciNeeds, Ids, Factories
  <2>3. chain[AddressOf("MACI")].refs["EASGatekeeper"] \in Addresses
    BY <2>1, <2>2 DEF StorageInv, RefsOnChain
  <2>4. chain[chain[AddressOf("MACI")].refs["EASGatekeeper"]].maci = AddressOf("MACI")
    BY <1>2 DEF StorageInv, RegisteredIsUsable
  <2> QED
    BY <1>2, <2>1, <2>3, <2>4 DEF Grown
<1>3. ASSUME Saved("VkRegistry")
      PROVE  chain'[AddressOf("VkRegistry")].keys = Keys
  <2>1. AddressOf("VkRegistry") \in Addresses
    BY <1>3, SavedTyped
  <2>2. chain[AddressOf("VkRegistry")].keys = Keys
    BY <1>3 DEF StorageInv, RegisteredIsUsable, Keys
  <2> QED
    BY <1>3, <2>1, <2>2
<1> QED
  BY <1>1, <1>2, <1>3 DEF RegisteredIsUsable, Keys

LEMMA PollNamesKept ==
  ASSUME Types, StorageInv, Grown, UNCHANGED <<config, storage>>,
         \A a \in Addresses : chain'[a].polls = chain[a].polls
  PROVE  PollNamesInv' /\ (Saved("MACI") => Polls' = Polls)
<1>1. \A id : (Saved(id)' <=> Saved(id)) /\ AddressOf(id)' = AddressOf(id)
  BY DEF Saved, AddressOf, storage
<1>2. Saved("MACI") => Polls' = Polls
  BY <1>1, SavedTyped DEF Polls
<1>3. ASSUME NEW name \in DOMAIN named, name[1] \in AllKinds
      PROVE  /\ Saved("MACI") /\ name[2] < Len(Polls)
             /\ OfPoll(named[name].address, name[1], name[2])'
  <2>1. /\ Saved("MACI") /\ name[2] < Len(Polls)
        /\ OfPoll(named[name].address, name[1], name[2])
    BY <1>3 DEF StorageInv, PollNamesInv
  <2>2. Polls' = Polls /\ named' = named
    BY <1>2, <2>1 DEF storage
  <2>3. chain'[named[name].address].refs = chain[named[name].address].refs
    BY NameTyped DEF Grown
  <2> QED
    BY <2>1, <2>2, <2>3 DEF OfPoll
<1>4. named' = named
  BY DEF storage
<1> QED
  BY <1>1, <1>2, <1>3, <1>4 DEF PollNamesInv

\* What deploy-full has left to do, when it does what is not a registration.
LEMMA DeployedNext ==
  ASSUME Types, todo # << >>, todo' = Tail(todo), NEW k \in Left', NEW id,
         DOMAIN run.mine \subseteq DOMAIN run'.mine,
         todo[1].do = "deploy" => todo[1].id \in DOMAIN run'.mine, Deployed(id, k + 1)
  PROVE  Deployed(id, k)'
<1>1. CASE id \in DOMAIN run.mine
  BY <1>1 DEF Deployed
<1>2. CASE \E j \in 1..((k + 1) - 1) : todo[j].do = "deploy" /\ todo[j].id = id
  <2>1. PICK j \in 1..((k + 1) - 1) : todo[j].do = "deploy" /\ todo[j].id = id
    BY <1>2
  <2>2. CASE j = 1
    BY <2>1, <2>2 DEF Deployed
  <2>3. CASE j # 1
    <3>1. k \in Nat /\ j - 1 \in 1..(k - 1) /\ j - 1 \in Left'
      BY <2>1, <2>3 DEF Left
    <3>2. \A m \in Left' : todo'[m] = todo[m + 1]
      BY NextItem
    <3>3. (j - 1) + 1 = j
      BY <2>1, <3>1
    <3>4. todo'[j - 1] = todo[j]
      BY <3>1, <3>2, <3>3
    <3> QED
      BY <2>1, <3>1, <3>4 DEF Deployed
  <2> QED
    BY <2>2, <2>3
<1> QED
  BY <1>1, <1>2 DEF Deployed

LEMMA ItemsKept ==
  ASSUME Types, FullInv, UNCHANGED <<config, storage, skippedGatekeepers>>,
         todo # << >>, todo' = Tail(todo), run'.step = run.step,
         DOMAIN run.mine \subseteq DOMAIN run'.mine,
         todo[1].do = "deploy" => todo[1].id \in DOMAIN run'.mine, NEW k \in Left'
  PROVE  /\ todo'[k].do \in {"deploy", "register", "setMaciInstance", "setKeys", "throw"}
         /\ DeployItem(k)' /\ RegisterItem(k)' /\ InstanceItem(k)' /\ KeysItem(k)'
<1>1. k + 1 \in Left /\ todo'[k] = todo[k + 1] /\ FullItem(k + 1) /\ Len(todo') = Len(todo) - 1
  BY NextItem DEF FullInv
<1>2. \A id : (Saved(id)' <=> Saved(id)) /\ AddressOf(id)' = AddressOf(id) /\ Needs(id)' = Needs(id)
  BY NeedsSame DEF Saved, AddressOf, storage
<1>3. \A id : Deployed(id, k + 1) => Deployed(id, k)'
  BY DeployedNext
<1>4. k \in Nat /\ k + 1 # 1 /\ Len(todo) \in Nat
  BY RunTyped DEF Left, Types
<1>5. DeployItem(k)'
  BY <1>1, <1>2, <1>4 DEF FullItem, DeployItem, Wired
<1>6. RegisterItem(k)'
  <2>1. Exempt' <=> Exempt
    BY DEF Exempt
  <2>2. ASSUME todo'[k].do = "register"
        PROVE  /\ Turn(todo'[k].id) = run.step /\ Deployed(todo[k + 1].id, k + 1)
               /\ ~Exempt => \A id \in Ids : Saved(id) => todo'[k].id \notin Needs(id)
               /\ todo'[k].id \in {"MACI", "VkRegistry"} =>
                    k + 1 = Len(todo) /\ ~Saved(todo'[k].id)
    BY <1>1, <2>2 DEF FullItem, RegisterItem
  <2>3. \A id : (todo'[k].do = "register" /\ id = todo'[k].id) => Deployed(id, k)'
    BY <1>1, <1>3, <2>2
  <2>4. todo'[k].do = "register" => Deployed(todo[k].id, k)'
    BY <2>3 DEF Deployed
  <2>5. ASSUME todo'[k].do = "register", todo'[k].id \in {"MACI", "VkRegistry"}
        PROVE  k = Len(todo') /\ ~Saved(todo[k].id)'
    <3>1. k + 1 = Len(todo) /\ ~Saved(todo'[k].id)
      BY <2>2, <2>5
    <3>2. ~Saved(todo[k].id)'
      BY <1>2, <3>1 DEF Saved
    <3>3. k = Len(todo')
      <4> DEFINE n == Len(todo)
                 m == Len(todo')
      <4>1. m = n - 1 /\ k + 1 = n /\ k \in Nat /\ n \in Nat
        BY <1>1, <1>4, <3>1
      <4> HIDE DEF n, m
      <4>2. k = m
        BY <4>1
      <4> QED
        BY <4>2 DEF m
    <3> QED
      BY <3>2, <3>3
  <2>6. ASSUME todo'[k].do = "register", ~Exempt', NEW id \in Ids, Saved(id)'
        PROVE  todo'[k].id \notin Needs(id)'
    BY <1>2, <2>1, <2>2, <2>6
  <2>7. todo'[k].do = "register" => Turn(todo'[k].id) = run'.step
    BY <2>2
  <2> QED
    BY <2>4, <2>5, <2>6, <2>7 DEF RegisterItem
<1>7. InstanceItem(k)'
  BY <1>1, <1>2, <1>3 DEF FullItem, InstanceItem
<1>8. KeysItem(k)'
  BY <1>1, <1>2, <1>3 DEF FullItem, KeysItem, Keys
<1> QED
  BY <1>1, <1>5, <1>6, <1>7, <1>8 DEF FullItem

LEMMA TaskOfItem ==
  ASSUME Types, RunInv, NEW what, Doing(what)
  PROVE  /\ what \in {"deploy", "register", "setMaciInstance", "setKeys"} =>
              run.task = "full" /\ FullInv /\ FullItem(1)
         /\ what \in {"deployPoll", "registerPoll"} => run.task = "poll" /\ PollInv /\ PollItem(1)
<1>1. todo # << >> /\ 1 \in Left /\ todo[1].do = what
  BY HeadItem
<1>2. run.task # "none"
  BY <1>1 DEF RunInv, Idle, todo
<1>3. run.task = "full" \/ run.task = "poll"
  BY <1>2, RunTyped DEF Types
<1>4. run.task = "full" => FullInv /\ FullItem(1)
  BY <1>1 DEF RunInv, FullInv
<1>5. run.task = "poll" => PollInv /\ PollItem(1)
  BY <1>1 DEF RunInv, PollInv
<1>6. FullItem(1) => what \in {"deploy", "register", "setMaciInstance", "setKeys", "throw"}
  BY <1>1 DEF FullItem
<1>7. PollItem(1) => what \in {"deployPoll", "registerPoll", "throw"}
  BY <1>1 DEF PollItem
<1> QED
  BY <1>3, <1>4, <1>5, <1>6, <1>7

LEMMA FullRest ==
  ASSUME Types, FullInv, UNCHANGED <<config, storage, skippedGatekeepers>>,
         todo # << >>, todo' = Tail(todo), todo[1].do # "register",
         run'.step = run.step, run'.incremental = run.incremental
  PROVE  /\ run'.step <= 11
         /\ ~run'.incremental => \A id \in Ids : Saved(id)' => Turn(id) <= run'.step
         /\ (run'.step >= 2 /\ ~skippedGatekeepers') =>
              \A g \in config'.gatekeepers :
                Saved(g)' \/ \E k \in Left' : todo'[k].do = "register" /\ todo'[k].id = g
<1>1. \A id : Saved(id)' <=> Saved(id)
  BY DEF Saved, storage
<1>2. ASSUME NEW k \in Left, todo[k].do = "register"
      PROVE  k - 1 \in Left' /\ todo'[k - 1] = todo[k]
  <2>1. k # 1 /\ k \in 1..Len(todo) /\ Len(todo) \in Nat
    BY <1>2, RunTyped DEF Types, Left
  <2>2. Len(todo') = Len(todo) - 1 /\ \A m \in Left' : todo'[m] = todo[m + 1]
    BY NextItem
  <2>3. k - 1 \in Left' /\ (k - 1) + 1 = k
    BY <2>1, <2>2 DEF Left
  <2> QED
    BY <2>2, <2>3
<1>3. ASSUME run.step >= 2, ~skippedGatekeepers, NEW g \in config.gatekeepers, ~Saved(g)
      PROVE  \E k \in Left' : todo'[k].do = "register" /\ todo'[k].id = g
  <2>1. PICK k \in Left : todo[k].do = "register" /\ todo[k].id = g
    BY <1>3 DEF FullInv
  <2> QED
    BY <1>2, <2>1
<1> QED
  BY <1>1, <1>3 DEF FullInv

LEMMA FullChainStep ==
  ASSUME TasksInv, run.task = "full", UNCHANGED <<config, storage, history>>, Grown,
         \A a \in Addresses : chain'[a].polls = chain[a].polls,
         RefsOnChain', RegisteredIsUsable', run' \in Runs, run'.task = "full", FullInv'
  PROVE  TasksInv'
<1>1. Types /\ StorageInv /\ PollsKnownInv
  BY DEF TasksInv
<1>2. UNCHANGED <<named, instance, skippedGatekeepers, lost>>
  BY DEF storage, history
<1>3. Types'
  <2>1. Addresses \subseteq Addresses'
    BY <1>1 DEF Grown, Addresses, Types
  <2>2. named \in [DOMAIN named -> [address : Addresses', count : Nat \ {0}]]
    BY <1>1, <2>1 DEF Types
  <2> QED
    BY <1>1, <1>2, <2>2 DEF Types, Grown
<1>4. NamesInv' /\ GatekeepersInv'
  BY <1>1, <1>2, StorageKept DEF StorageInv
<1>5. PollNamesInv' /\ (Saved("MACI") => Polls' = Polls)
  BY <1>1, PollNamesKept
<1>6. StorageInv'
  BY <1>4, <1>5 DEF StorageInv
<1>7. PollsKnownInv'
  <2>1. \A kind, id : PollKnown(kind, id) => <<kind, id>> \in DOMAIN named
    BY DEF PollKnown
  <2>2. Saved("MACI") =>
          \A id \in 0..(Len(Polls) - 1) : id \notin lost =>
            \A kind \in Kinds : <<kind, id>> \in DOMAIN named
    BY <1>1, <2>1 DEF PollsKnownInv
  <2> QED
    BY <1>2, <1>5, <2>2 DEF PollsKnownInv, PollKnown, Saved, Kinds
<1>8. RunInv'
  BY DEF RunInv
<1> QED
  BY <1>3, <1>6, <1>7, <1>8 DEF TasksInv

\* A contract is deployed.
LEMMA DeployedRun ==
  ASSUME Types, RunInv, deployContract
  PROVE  /\ todo # << >> /\ todo[1].do = "deploy" /\ run.task = "full" /\ FullInv
         /\ todo[1].id \in Ids /\ todo[1].refs \in References
         /\ Turn(todo[1].id) = run.step /\ Wired(todo[1].refs, todo[1].id)
         /\ run' \in Runs /\ run'.mine = With(run.mine, todo[1].id, Len(chain) + 1)
         /\ todo' = Tail(todo) /\ run'.task = run.task
         /\ run'.incremental = run.incremental /\ run'.step = run.step
<1>1. Doing("deploy")
  BY DEF deployContract
<1>2. todo # << >> /\ todo[1] \in Items /\ Head(run.todo) = todo[1] /\ todo[1].do = "deploy"
  BY <1>1, HeadItem
<1>3. run.task = "full" /\ FullInv /\ FullItem(1)
  BY <1>1, TaskOfItem
<1>4. todo[1].id \in Ids /\ todo[1].refs \in References
  BY <1>2, ItemTyped
<1>5. Turn(todo[1].id) = run.step /\ Wired(todo[1].refs, todo[1].id)
  BY <1>2, <1>3 DEF FullItem, DeployItem
<1> DEFINE mine == With(run.mine, todo[1].id, Len(chain) + 1)
<1>6. mine \in References
  <2>1. Len(chain) + 1 \in Nat /\ todo[1].id \in AllIds /\ run.mine \in References
    BY <1>4, RunTyped DEF Types, AllIds
  <2> QED
    BY <2>1, WithTyped
<1>7. run' = [run EXCEPT !.todo = Tail(@), !.written = FALSE, !.mine = mine]
  BY <1>2 DEF deployContract, Done, Types, Runs
<1> HIDE DEF mine
<1>8. /\ run' \in Runs /\ run'.mine = mine /\ todo' = Tail(todo) /\ run'.task = run.task
      /\ run'.incremental = run.incremental /\ run'.step = run.step
  BY <1>2, <1>6, <1>7, DoneRun DEF Types
<1> QED
  BY <1>2, <1>3, <1>4, <1>5, <1>8 DEF mine

LEMMA DeployedChain ==
  ASSUME Types, RunInv, StorageInv, deployContract
  PROVE  /\ chain' \in Seq(Contracts) /\ Len(chain') = Len(chain) + 1
         /\ \A a \in Addresses : chain'[a] = chain[a]
         /\ chain'[Len(chain) + 1] = Contract(todo[1].id, todo[1].refs)
         /\ Grown /\ RefsOnChain'
<1> DEFINE new == Contract(todo[1].id, todo[1].refs)
<1>1. todo[1].id \in AllIds /\ todo[1].refs \in References /\ Wired(todo[1].refs, todo[1].id)
  BY DeployedRun DEF AllIds
<1>2. new \in Contracts /\ new.refs = todo[1].refs
  BY <1>1 DEF Contract, Contracts
<1>3. chain' = Append(chain, new)
  BY HeadItem DEF deployContract
<1> HIDE DEF new
<1>4. chain \in Seq(Contracts) /\ Len(chain) \in Nat
  BY DEF Types
<1>5. /\ chain' \in Seq(Contracts) /\ Len(chain') = Len(chain) + 1
      /\ \A a \in 1..Len(chain) : chain'[a] = chain[a]
      /\ chain'[Len(chain) + 1] = new
  BY <1>2, <1>3, <1>4
<1>6. Grown
  BY <1>4, <1>5 DEF Grown, Addresses
<1>7. RefsOnChain'
  <2>1. \A id \in DOMAIN new.refs : new.refs[id] \in Addresses
    BY <1>1, <1>2, SavedTyped DEF Wired
  <2>2. \A a \in Addresses : \A id \in DOMAIN chain[a].refs : chain[a].refs[id] \in Addresses
    BY DEF StorageInv, RefsOnChain
  <2>3. Addresses \subseteq Addresses' /\ Addresses' = Addresses \cup {Len(chain) + 1}
    BY <1>4, <1>5 DEF Addresses
  <2> QED
    BY <1>5, <2>1, <2>2, <2>3 DEF RefsOnChain, Addresses
<1> QED
  BY <1>5, <1>6, <1>7 DEF new, Addresses

LEMMA DeployedFull ==
  ASSUME Types, RunInv, StorageInv, deployContract
  PROVE  FullInv'
<1> DEFINE it == todo[1]
           n == Len(chain)
<1>1. UNCHANGED <<config, storage, skippedGatekeepers>>
  BY DEF deployContract, history
<1>2. /\ DOMAIN run'.mine = DOMAIN run.mine \cup {it.id} /\ run'.mine[it.id] = n + 1
      /\ \A id \in DOMAIN run.mine : id # it.id => run'.mine[id] = run.mine[id]
  BY DeployedRun DEF With
<1>3. /\ run'.step <= 11
      /\ ~run'.incremental => \A id \in Ids : Saved(id)' => Turn(id) <= run'.step
      /\ (run'.step >= 2 /\ ~skippedGatekeepers') =>
           \A g \in config'.gatekeepers :
             Saved(g)' \/ \E k \in Left' : todo'[k].do = "register" /\ todo'[k].id = g
  BY <1>1, DeployedRun, FullRest
<1>4. MineInv'
  <2>1. ASSUME NEW id \in DOMAIN run'.mine
        PROVE  /\ id \in Ids /\ Turn(id) = run'.step
               /\ run'.mine[id] \in Addresses'
               /\ chain'[run'.mine[id]].id = id /\ chain'[run'.mine[id]].polls = << >>
               /\ chain'[run'.mine[id]].keys \subseteq Keys
               /\ Wired(chain'[run'.mine[id]].refs, id)
    <3>1. CASE id = it.id
      <4>1. chain'[run'.mine[id]] = Contract(it.id, it.refs) /\ run'.mine[id] \in Addresses'
        BY <1>2, <3>1, DeployedChain DEF Addresses, Types
      <4> QED
        BY <3>1, <4>1, DeployedRun DEF Contract
    <3>2. CASE id # it.id
      <4>1. id \in DOMAIN run.mine /\ run'.mine[id] = run.mine[id]
        BY <1>2, <2>1, <3>2
      <4>2. /\ id \in Ids /\ Turn(id) = run.step
            /\ run.mine[id] \in Addresses
            /\ chain[run.mine[id]].id = id /\ chain[run.mine[id]].polls = << >>
            /\ chain[run.mine[id]].keys \subseteq Keys
            /\ Wired(chain[run.mine[id]].refs, id)
        BY <4>1, DeployedRun DEF FullInv, MineInv
      <4>3. chain'[run.mine[id]] = chain[run.mine[id]] /\ run.mine[id] \in Addresses'
        BY <4>2, DeployedChain DEF Addresses, Types
      <4> QED
        BY <4>1, <4>2, <4>3, DeployedRun
    <3> QED
      BY <3>1, <3>2
  <2>2. Keys' = Keys
    BY <1>1 DEF Keys
  <2>3. \A refs, id : Wired(refs, id)' <=> Wired(refs, id)
    BY <1>1, NeedsSame DEF Wired, Saved, AddressOf, storage
  <2>4. ASSUME NEW id \in DOMAIN run'.mine
        PROVE  Wired(chain[run.mine[id]].refs, id)'
    <3>1. Wired(chain'[run'.mine[id]].refs, id)
      BY <2>1
    <3> QED
      BY <1>1, <3>1, NeedsSame DEF Wired, Saved, AddressOf, storage
  <2> QED
    BY <2>1, <2>2, <2>4 DEF MineInv
<1>5. ASSUME NEW k \in Left'
      PROVE  FullItem(k)'
  <2>1. /\ todo'[k].do \in {"deploy", "register", "setMaciInstance", "setKeys", "throw"}
        /\ DeployItem(k)' /\ RegisterItem(k)' /\ InstanceItem(k)' /\ KeysItem(k)'
    BY <1>1, <1>2, DeployedRun, ItemsKept
  <2>2. \A m \in Left' : m + 1 \in Left /\ todo'[m] = todo[m + 1]
    BY DeployedRun, NextItem
  <2>3. FullItem(k + 1) /\ k \in Nat
    BY <2>2, DeployedRun DEF FullInv, Left
  <2>4. ASSUME NEW j \in 1..((k + 1) - 1), todo[j].do # "deploy"
        PROVE  j - 1 \in 1..(k - 1) /\ todo'[j - 1] = todo[j]
    <3>1. j # 1
      BY <2>4, DeployedRun
    <3>2. j - 1 \in 1..(k - 1) /\ j - 1 \in Left' /\ (j - 1) + 1 = j
      BY <2>3, <3>1 DEF Left
    <3> QED
      BY <2>2, <3>2
  <2>5. MaciItem(k)'
    BY <1>1, <2>2, <2>3, <2>4, DeployedRun DEF FullItem, MaciItem
  <2>6. RegistryItem(k)'
    <3>1. ASSUME todo'[k].do = "register", todo'[k].id = "VkRegistry", NEW key \in Keys
          PROVE  \E j \in 1..(k - 1) : todo'[j].do = "setKeys" /\ todo'[j].id = key
      <4>1. PICK j \in 1..((k + 1) - 1) : todo[j].do = "setKeys" /\ todo[j].id = key
        BY <2>2, <2>3, <3>1, DeployedRun DEF FullItem, RegistryItem
      <4> QED
        BY <2>4, <4>1
    <3>2. Keys' = Keys
      BY <1>1 DEF Keys
    <3> QED
      BY <3>1, <3>2 DEF RegistryItem
  <2> QED
    BY <2>1, <2>5, <2>6 DEF FullItem
<1> QED
  BY <1>3, <1>4, <1>5 DEF FullInv

LEMMA DeployStep ==
  ASSUME TasksInv, deployContract
  PROVE  TasksInv'
<1>1. Types /\ RunInv /\ StorageInv
  BY DEF TasksInv
<1>2. UNCHANGED <<config, storage, history>>
  BY DEF deployContract
<1>3. Grown /\ RefsOnChain' /\ \A a \in Addresses : chain'[a] = chain[a]
  BY <1>1, DeployedChain
<1>4. RegisteredIsUsable'
  BY <1>1, <1>2, <1>3, UsableKept
<1>5. FullInv' /\ run.task = "full" /\ run' \in Runs /\ run'.task = "full"
  BY <1>1, DeployedFull, DeployedRun
<1> QED
  BY <1>2, <1>3, <1>4, <1>5, FullChainStep

\* The gatekeeper learns of MACI.
LEMMA InstanceRun ==
  ASSUME Types, RunInv, setsMaciInstance
  PROVE  /\ todo # << >> /\ todo[1].do = "setMaciInstance" /\ run.task = "full" /\ FullInv
         /\ run.step = 10 /\ ~Saved("MACI") /\ "MACI" \in DOMAIN run.mine
         /\ todo[1].id = AddressOf("EASGatekeeper") /\ todo[1].id \in Addresses
         /\ run' \in Runs /\ run'.mine = run.mine
         /\ todo' = Tail(todo) /\ run'.task = run.task
         /\ run'.incremental = run.incremental /\ run'.step = run.step
         /\ chain' = [chain EXCEPT ![todo[1].id].maci = run.mine["MACI"]]
<1>1. Doing("setMaciInstance")
  BY DEF setsMaciInstance
<1>2. todo # << >> /\ Head(run.todo) = todo[1] /\ todo[1].do = "setMaciInstance"
  BY <1>1, HeadItem
<1>3. run.task = "full" /\ FullInv /\ FullItem(1)
  BY <1>1, TaskOfItem
<1>4. /\ run.step = 10 /\ ~Saved("MACI") /\ Deployed("MACI", 1)
      /\ Saved("EASGatekeeper") /\ todo[1].id = AddressOf("EASGatekeeper")
  BY <1>2, <1>3 DEF FullItem, InstanceItem, Turn, Gatekeepers, Poseidons
<1>5. "MACI" \in DOMAIN run.mine
  BY <1>4 DEF Deployed
<1>6. AddressOf("EASGatekeeper") \in Addresses
  BY <1>4, SavedTyped
<1>7. /\ run' \in Runs /\ run'.mine = run.mine /\ todo' = Tail(todo) /\ run'.task = run.task
      /\ run'.incremental = run.incremental /\ run'.step = run.step
  BY <1>2, DoneSame DEF setsMaciInstance, Types
<1>8. chain' = [chain EXCEPT ![todo[1].id].maci = run.mine["MACI"]]
  BY <1>2 DEF setsMaciInstance
<1> QED
  BY <1>2, <1>3, <1>4, <1>5, <1>6, <1>7, <1>8

LEMMA ContractSet ==
  ASSUME Types, NEW a \in Addresses, NEW new \in Contracts,
         new.id = chain[a].id, new.refs = chain[a].refs, new.polls = chain[a].polls
  PROVE  LET c == [chain EXCEPT ![a] = new]
         IN  /\ c \in Seq(Contracts) /\ Len(c) = Len(chain) /\ c[a] = new
             /\ \A b \in Addresses : b # a => c[b] = chain[b]
             /\ \A b \in Addresses : /\ c[b].id = chain[b].id /\ c[b].refs = chain[b].refs
                                     /\ c[b].polls = chain[b].polls
<1>1. chain \in Seq(Contracts) /\ a \in 1..Len(chain)
  BY DEF Types, Addresses
<1> DEFINE c == [chain EXCEPT ![a] = new]
<1>2. /\ c \in Seq(Contracts) /\ Len(c) = Len(chain) /\ c[a] = new
      /\ \A b \in Addresses : b # a => c[b] = chain[b]
  BY <1>1 DEF Addresses
<1> HIDE DEF c
<1>3. \A b \in Addresses : /\ c[b].id = chain[b].id /\ c[b].refs = chain[b].refs
                           /\ c[b].polls = chain[b].polls
  BY <1>2
<1> QED
  BY <1>2, <1>3 DEF c

\* One field of one contract is set, maci, keys or treeMerged.
LEMMA FieldSet ==
  ASSUME NEW it \in Contracts
  PROVE  /\ \A v \in Nat : /\ [it EXCEPT !.maci = v] \in Contracts
                           /\ [it EXCEPT !.maci = v].id = it.id
                           /\ [it EXCEPT !.maci = v].refs = it.refs
                           /\ [it EXCEPT !.maci = v].polls = it.polls
                           /\ [it EXCEPT !.maci = v].keys = it.keys
                           /\ [it EXCEPT !.maci = v].maci = v
         /\ \A v \in SUBSET AllKeys : /\ [it EXCEPT !.keys = v] \in Contracts
                                      /\ [it EXCEPT !.keys = v].id = it.id
                                      /\ [it EXCEPT !.keys = v].refs = it.refs
                                      /\ [it EXCEPT !.keys = v].polls = it.polls
                                      /\ [it EXCEPT !.keys = v].maci = it.maci
                                      /\ [it EXCEPT !.keys = v].keys = v
         /\ [it EXCEPT !.treeMerged = TRUE] \in Contracts
         /\ [it EXCEPT !.treeMerged = TRUE].id = it.id
         /\ [it EXCEPT !.treeMerged = TRUE].refs = it.refs
         /\ [it EXCEPT !.treeMerged = TRUE].polls = it.polls
         /\ [it EXCEPT !.treeMerged = TRUE].maci = it.maci
         /\ [it EXCEPT !.treeMerged = TRUE].keys = it.keys
  BY DEF Contracts

LEMMA RefsKept ==
  ASSUME StorageInv, Grown, Len(chain') = Len(chain)
  PROVE  RefsOnChain'
  BY DEF StorageInv, RefsOnChain, Grown, Addresses

LEMMA MineKept ==
  ASSUME Types, MineInv, Grown, UNCHANGED <<config, storage>>,
         run'.mine = run.mine, run'.step = run.step,
         \A a \in Addresses : chain'[a].polls = chain[a].polls,
         \A id \in DOMAIN run.mine : chain'[run.mine[id]].keys \subseteq Keys
  PROVE  MineInv'
<1>1. ASSUME NEW id \in DOMAIN run.mine
      PROVE  /\ id \in Ids /\ Turn(id) = run'.step
             /\ run'.mine[id] \in Addresses'
             /\ chain'[run'.mine[id]].id = id /\ chain'[run'.mine[id]].polls = << >>
             /\ chain'[run'.mine[id]].keys \subseteq Keys
             /\ Wired(chain'[run'.mine[id]].refs, id)
  <2>1. /\ id \in Ids /\ Turn(id) = run.step
        /\ run.mine[id] \in Addresses
        /\ chain[run.mine[id]].id = id /\ chain[run.mine[id]].polls = << >>
        /\ Wired(chain[run.mine[id]].refs, id)
    BY <1>1 DEF MineInv
  <2>2. /\ chain'[run.mine[id]].id = id /\ chain'[run.mine[id]].polls = << >>
        /\ chain'[run.mine[id]].refs = chain[run.mine[id]].refs
    BY <2>1 DEF Grown
  <2>3. run.mine[id] \in Addresses'
    BY <2>1 DEF Grown, Addresses, Types
  <2> QED
    BY <1>1, <2>1, <2>2, <2>3
<1>2. Keys' = Keys
  BY DEF Keys
<1>3. ASSUME NEW id \in DOMAIN run.mine
      PROVE  Wired(chain[run.mine[id]].refs, id)'
  <2>1. Wired(chain'[run'.mine[id]].refs, id)
    BY <1>1, <1>3
  <2> QED
    BY <2>1, NeedsSame DEF Wired, Saved, AddressOf, storage
<1> QED
  BY <1>1, <1>2, <1>3 DEF MineInv

LEMMA InstanceChain ==
  ASSUME Types, RunInv, StorageInv, setsMaciInstance
  PROVE  /\ Grown /\ RefsOnChain' /\ chain'[todo[1].id].maci = run.mine["MACI"]
         /\ \A a \in Addresses : chain'[a].polls = chain[a].polls /\ chain'[a].keys = chain[a].keys
<1> DEFINE a == todo[1].id
           v == run.mine["MACI"]
           new == [chain[a] EXCEPT !.maci = v]
<1>1. a \in Addresses /\ chain[a] \in Contracts
  BY InstanceRun DEF Addresses, Types
<1>2. v \in Nat
  BY InstanceRun, RunTyped, ReferencesDef DEF Types
<1>3. chain' = [chain EXCEPT ![a] = new]
  BY InstanceRun
<1>4. /\ new \in Contracts /\ new.id = chain[a].id /\ new.refs = chain[a].refs
      /\ new.polls = chain[a].polls /\ new.keys = chain[a].keys /\ new.maci = v
  BY <1>1, <1>2, FieldSet
<1> HIDE DEF new, v, a
<1>5. /\ chain' \in Seq(Contracts) /\ Len(chain') = Len(chain) /\ chain'[a] = new
      /\ \A b \in Addresses : b # a => chain'[b] = chain[b]
      /\ \A b \in Addresses : /\ chain'[b].id = chain[b].id /\ chain'[b].refs = chain[b].refs
                              /\ chain'[b].polls = chain[b].polls
  BY <1>1, <1>3, <1>4, ContractSet
<1>6. Grown
  BY <1>5 DEF Grown, Types
<1>7. \A b \in Addresses : chain'[b].keys = chain[b].keys
  BY <1>4, <1>5
<1> QED
  BY <1>4, <1>5, <1>6, <1>7, RefsKept DEF a, v

LEMMA InstanceFull ==
  ASSUME Types, RunInv, StorageInv, setsMaciInstance
  PROVE  FullInv'
<1>1. UNCHANGED <<config, storage, skippedGatekeepers>>
  BY DEF setsMaciInstance, history
<1>2. /\ run'.step <= 11
      /\ ~run'.incremental => \A id \in Ids : Saved(id)' => Turn(id) <= run'.step
      /\ (run'.step >= 2 /\ ~skippedGatekeepers') =>
           \A g \in config'.gatekeepers :
             Saved(g)' \/ \E k \in Left' : todo'[k].do = "register" /\ todo'[k].id = g
  BY <1>1, InstanceRun, FullRest
<1>3. MineInv'
  <2>1. MineInv
    BY InstanceRun DEF FullInv
  <2>2. \A id \in DOMAIN run.mine : chain'[run.mine[id]].keys \subseteq Keys
    BY <2>1, InstanceChain DEF MineInv
  <2> QED
    BY <1>1, <2>1, <2>2, InstanceRun, InstanceChain, MineKept
<1>4. ASSUME NEW k \in Left'
      PROVE  FullItem(k)'
  <2>1. /\ todo'[k].do \in {"deploy", "register", "setMaciInstance", "setKeys", "throw"}
        /\ DeployItem(k)' /\ RegisterItem(k)' /\ InstanceItem(k)' /\ KeysItem(k)'
    BY <1>1, InstanceRun, ItemsKept
  <2>2. 1 \in Left' /\ todo'[1].do # "deploy"
    <3>1. 1 \in Left' /\ \A m \in Left' : m + 1 \in Left /\ todo'[m] = todo[m + 1]
      BY InstanceRun, NextItem DEF Left
    <3>2. 2 \in Left /\ todo'[1] = todo[2] /\ FullItem(2)
      BY <3>1, InstanceRun DEF FullInv
    <3>3. todo[2].do = "deploy" => todo[2].id \in Ids
      BY <3>2, TodoTyped, ItemTyped
    <3>4. todo[2].do = "deploy" => Turn(todo[2].id) = 10 /\ todo[2].id # "MACI"
      BY <3>2, InstanceRun DEF FullItem, DeployItem
    <3> QED
      BY <3>1, <3>2, <3>3, <3>4 DEF Turn, Ids, Gatekeepers, Poseidons, Factories
  <2>3. MaciItem(k)'
    <3>1. chain'[AddressOf("EASGatekeeper")'].maci = run'.mine["MACI"]
      BY <1>1, InstanceRun, InstanceChain DEF AddressOf, storage
    <3> QED
      BY <2>2, <3>1 DEF MaciItem
  <2>4. RegistryItem(k)'
    <3>1. todo'[k].do = "register" => Turn(todo'[k].id) = 10
      BY <2>1, InstanceRun DEF RegisterItem
    <3> QED
      BY <3>1 DEF RegistryItem, Turn, Gatekeepers, Poseidons
  <2> QED
    BY <2>1, <2>3, <2>4 DEF FullItem
<1> QED
  BY <1>2, <1>3, <1>4 DEF FullInv

LEMMA InstanceStep ==
  ASSUME TasksInv, setsMaciInstance
  PROVE  TasksInv'
<1>1. Types /\ RunInv /\ StorageInv
  BY DEF TasksInv
<1>2. UNCHANGED <<config, storage, history>>
  BY DEF setsMaciInstance
<1>3. Grown /\ RefsOnChain'
      /\ \A a \in Addresses : chain'[a].polls = chain[a].polls /\ chain'[a].keys = chain[a].keys
  BY <1>1, InstanceChain
<1>4. RegisteredIsUsable'
  BY <1>1, <1>2, <1>3, InstanceRun, UsableKept
<1>5. FullInv' /\ run.task = "full" /\ run' \in Runs /\ run'.task = "full"
  BY <1>1, InstanceFull, InstanceRun
<1> QED
  BY <1>2, <1>3, <1>4, <1>5, FullChainStep

\* A key is set in the registry.
LEMMA KeysRun ==
  ASSUME Types, RunInv, setsKeys
  PROVE  /\ todo # << >> /\ todo[1].do = "setKeys" /\ run.task = "full" /\ FullInv
         /\ run.step = 11 /\ ~Saved("VkRegistry") /\ "VkRegistry" \in DOMAIN run.mine
         /\ todo[1].id \in Keys
         /\ run' \in Runs /\ run'.mine = run.mine
         /\ todo' = Tail(todo) /\ run'.task = run.task
         /\ run'.incremental = run.incremental /\ run'.step = run.step
         /\ chain' = [chain EXCEPT ![run.mine["VkRegistry"]].keys = @ \cup {todo[1].id}]
<1>1. Doing("setKeys")
  BY DEF setsKeys
<1>2. todo # << >> /\ Head(run.todo) = todo[1] /\ todo[1].do = "setKeys"
  BY <1>1, HeadItem
<1>3. run.task = "full" /\ FullInv /\ FullItem(1)
  BY <1>1, TaskOfItem
<1>4. /\ run.step = 11 /\ ~Saved("VkRegistry") /\ Deployed("VkRegistry", 1)
      /\ todo[1].id \in Keys
  BY <1>2, <1>3 DEF FullItem, KeysItem, Turn, Gatekeepers, Poseidons
<1>5. "VkRegistry" \in DOMAIN run.mine
  BY <1>4 DEF Deployed
<1>6. /\ run' \in Runs /\ run'.mine = run.mine /\ todo' = Tail(todo) /\ run'.task = run.task
      /\ run'.incremental = run.incremental /\ run'.step = run.step
  BY <1>2, DoneSame DEF setsKeys, Types
<1>7. chain' = [chain EXCEPT ![run.mine["VkRegistry"]].keys = @ \cup {todo[1].id}]
  BY <1>2 DEF setsKeys
<1> QED
  BY <1>2, <1>3, <1>4, <1>5, <1>6, <1>7

LEMMA KeysChain ==
  ASSUME Types, RunInv, StorageInv, setsKeys
  PROVE  LET a == run.mine["VkRegistry"]
         IN  /\ Grown /\ RefsOnChain'
             /\ chain[a].keys \subseteq Keys
             /\ chain'[a].keys = chain[a].keys \cup {todo[1].id}
             /\ \A b \in Addresses : /\ chain'[b].polls = chain[b].polls
                                     /\ chain'[b].maci = chain[b].maci
                                     /\ b # a => chain'[b].keys = chain[b].keys
<1> DEFINE a == run.mine["VkRegistry"]
           v == chain[a].keys \cup {todo[1].id}
           new == [chain[a] EXCEPT !.keys = v]
<1>1. a \in Addresses /\ chain[a] \in Contracts /\ chain[a].keys \subseteq Keys
  BY KeysRun DEF FullInv, MineInv, Addresses, Types
<1>2. v \in SUBSET AllKeys
  BY <1>1, KeysRun DEF Keys, AllKeys
<1>3. chain' = [chain EXCEPT ![a] = new]
  BY KeysRun
<1>4. /\ new \in Contracts /\ new.id = chain[a].id /\ new.refs = chain[a].refs
      /\ new.polls = chain[a].polls /\ new.maci = chain[a].maci /\ new.keys = v
  BY <1>1, <1>2, FieldSet
<1> HIDE DEF new, v, a
<1>5. /\ chain' \in Seq(Contracts) /\ Len(chain') = Len(chain) /\ chain'[a] = new
      /\ \A b \in Addresses : b # a => chain'[b] = chain[b]
      /\ \A b \in Addresses : /\ chain'[b].id = chain[b].id /\ chain'[b].refs = chain[b].refs
                              /\ chain'[b].polls = chain[b].polls
  BY <1>1, <1>3, <1>4, ContractSet
<1>6. Grown
  BY <1>5 DEF Grown, Types
<1>7. \A b \in Addresses : /\ chain'[b].maci = chain[b].maci
                           /\ b # a => chain'[b].keys = chain[b].keys
  BY <1>4, <1>5
<1>8. chain'[a].keys = chain[a].keys \cup {todo[1].id}
  BY <1>4, <1>5 DEF v
<1> QED
  BY <1>1, <1>5, <1>6, <1>7, <1>8, RefsKept DEF a

LEMMA KeysFull ==
  ASSUME Types, RunInv, StorageInv, setsKeys
  PROVE  FullInv'
<1> DEFINE a == run.mine["VkRegistry"]
<1>1. UNCHANGED <<config, storage, skippedGatekeepers>>
  BY DEF setsKeys, history
<1>2. /\ run'.step <= 11
      /\ ~run'.incremental => \A id \in Ids : Saved(id)' => Turn(id) <= run'.step
      /\ (run'.step >= 2 /\ ~skippedGatekeepers') =>
           \A g \in config'.gatekeepers :
             Saved(g)' \/ \E k \in Left' : todo'[k].do = "register" /\ todo'[k].id = g
  BY <1>1, KeysRun, FullRest
<1>3. MineInv'
  <2>1. MineInv
    BY KeysRun DEF FullInv
  <2>2. ASSUME NEW id \in DOMAIN run.mine
        PROVE  chain'[run.mine[id]].keys \subseteq Keys
    <3>1. run.mine[id] \in Addresses /\ chain[run.mine[id]].keys \subseteq Keys
      BY <2>1 DEF MineInv
    <3> QED
      BY <3>1, KeysRun, KeysChain
  <2> QED
    BY <1>1, <2>1, <2>2, KeysRun, KeysChain, MineKept
<1>4. ASSUME NEW k \in Left'
      PROVE  FullItem(k)'
  <2>1. /\ todo'[k].do \in {"deploy", "register", "setMaciInstance", "setKeys", "throw"}
        /\ DeployItem(k)' /\ RegisterItem(k)' /\ InstanceItem(k)' /\ KeysItem(k)'
    BY <1>1, KeysRun, ItemsKept
  <2>2. /\ 1 \in Left' /\ k \in Nat /\ k + 1 \in Left /\ todo'[k] = todo[k + 1]
        /\ \A m \in Left' : m + 1 \in Left /\ todo'[m] = todo[m + 1]
    BY KeysRun, NextItem DEF Left
  <2>3. todo'[1].do # "deploy"
    <3>1. 2 \in Left /\ todo'[1] = todo[2] /\ FullItem(2)
      BY <2>2, KeysRun DEF FullInv
    <3>2. todo[2].do = "deploy" => todo[2].id \in Ids
      BY <3>1, TodoTyped, ItemTyped
    <3>3. todo[2].do = "deploy" => Turn(todo[2].id) = 11 /\ todo[2].id # "VkRegistry"
      BY <3>1, KeysRun DEF FullItem, DeployItem
    <3> QED
      BY <3>1, <3>2, <3>3 DEF Turn, Ids, Gatekeepers, Poseidons, Factories
  <2>4. RegistryItem(k)'
    <3>1. ASSUME todo'[k].do = "register", todo'[k].id = "VkRegistry", NEW key \in Keys
          PROVE  \/ \E j \in 1..(k - 1) : todo'[j].do = "setKeys" /\ todo'[j].id = key
                 \/ key \in chain'[a].keys
      <4>1. FullItem(k + 1)
        BY <2>2, KeysRun DEF FullInv
      <4>2. \/ \E j \in 1..((k + 1) - 1) : todo[j].do = "setKeys" /\ todo[j].id = key
            \/ key \in chain[a].keys
        BY <2>2, <3>1, <4>1 DEF FullItem, RegistryItem
      <4>3. ASSUME NEW j \in 1..((k + 1) - 1), todo[j].do = "setKeys", todo[j].id = key
            PROVE  \/ \E i \in 1..(k - 1) : todo'[i].do = "setKeys" /\ todo'[i].id = key
                   \/ key \in chain'[a].keys
        <5>1. CASE j = 1
          BY <4>3, <5>1, KeysRun, KeysChain
        <5>2. CASE j # 1
          <6>1. j - 1 \in 1..(k - 1) /\ j - 1 \in Left' /\ (j - 1) + 1 = j
            BY <2>2, <5>2 DEF Left
          <6>2. todo'[j - 1] = todo[j]
            BY <2>2, <6>1
          <6> QED
            BY <4>3, <6>1, <6>2
        <5> QED
          BY <5>1, <5>2
      <4>4. chain[a].keys \subseteq chain'[a].keys
        BY KeysRun, KeysChain
      <4> QED
        BY <4>2, <4>3, <4>4
    <3>2. Keys' = Keys /\ run'.mine["VkRegistry"] = a
      BY <1>1, KeysRun DEF Keys
    <3> QED
      BY <2>3, <3>1, <3>2 DEF RegistryItem
  <2>5. MaciItem(k)'
    <3>1. todo'[k].do = "register" => Turn(todo'[k].id) = 11
      BY <2>1, KeysRun DEF RegisterItem
    <3> QED
      BY <3>1 DEF MaciItem, Turn, Gatekeepers, Poseidons
  <2> QED
    BY <2>1, <2>4, <2>5 DEF FullItem
<1> QED
  BY <1>2, <1>3, <1>4 DEF FullInv

LEMMA KeysStep ==
  ASSUME TasksInv, setsKeys
  PROVE  TasksInv'
<1>1. Types /\ RunInv /\ StorageInv
  BY DEF TasksInv
<1>2. UNCHANGED <<config, storage, history>>
  BY DEF setsKeys
<1>3. Grown /\ RefsOnChain'
      /\ \A a \in Addresses : chain'[a].polls = chain[a].polls /\ chain'[a].maci = chain[a].maci
  BY <1>1, KeysChain
<1>4. RegisteredIsUsable'
  BY <1>1, <1>2, <1>3, KeysRun, UsableKept
<1>5. FullInv' /\ run.task = "full" /\ run' \in Runs /\ run'.task = "full"
  BY <1>1, KeysFull, KeysRun
<1> QED
  BY <1>2, <1>3, <1>4, <1>5, FullChainStep

\* A poll merges its trees.
LEMMA MergeStep ==
  ASSUME TasksInv, mergeTrees
  PROVE  TasksInv'
<1> DEFINE a == AddressOf("MACI")
           new == [chain[a] EXCEPT !.treeMerged = TRUE]
<1>1. Types /\ StorageInv /\ PollsKnownInv
  BY DEF TasksInv
<1>2. /\ UNCHANGED <<config, storage, run, history>> /\ run = Idle /\ Saved("MACI")
      /\ UNCHANGED <<named, instance, lost, skippedGatekeepers>>
  BY DEF mergeTrees, storage, history
<1>3. a \in Addresses /\ chain[a] \in Contracts
  BY <1>1, <1>2, SavedTyped DEF Addresses, Types
<1>4. chain' = [chain EXCEPT ![a] = new]
  BY DEF mergeTrees
<1>5. /\ new \in Contracts /\ new.id = chain[a].id /\ new.refs = chain[a].refs
      /\ new.polls = chain[a].polls /\ new.maci = chain[a].maci /\ new.keys = chain[a].keys
  BY <1>3, FieldSet
<1> HIDE DEF new, a
<1>6. /\ chain' \in Seq(Contracts) /\ Len(chain') = Len(chain) /\ chain'[a] = new
      /\ \A b \in Addresses : b # a => chain'[b] = chain[b]
      /\ \A b \in Addresses : /\ chain'[b].id = chain[b].id /\ chain'[b].refs = chain[b].refs
                              /\ chain'[b].polls = chain[b].polls
  BY <1>1, <1>3, <1>4, <1>5, ContractSet
<1>7. Grown
  BY <1>1, <1>6 DEF Grown, Types
<1>8. \A b \in Addresses : chain'[b].maci = chain[b].maci /\ chain'[b].keys = chain[b].keys
  BY <1>5, <1>6
<1>9. RegisteredIsUsable'
  BY <1>1, <1>2, <1>7, <1>8, UsableKept
<1>10. PollNamesInv' /\ Polls' = Polls
  BY <1>1, <1>2, <1>6, <1>7, PollNamesKept
<1>11. StorageInv'
  BY <1>1, <1>2, <1>6, <1>7, <1>9, <1>10, RefsKept, StorageKept DEF StorageInv
<1>12. Types'
  BY <1>1, <1>2, <1>6 DEF Types, Addresses
<1>13. PollsKnownInv'
  BY <1>1, <1>2, <1>10 DEF PollsKnownInv, PollKnown, Kinds, Saved, Left, todo
<1>14. RunInv'
  BY <1>2, IdleTyped DEF RunInv
<1> QED
  BY <1>11, <1>12, <1>13, <1>14 DEF TasksInv

-----------------------------------------------------------------------------
(***************************************************************************)
(* A poll is deployed.                                                     *)
(***************************************************************************)
\* These are contracts of the poll at n + 1, created one after the other, and
\* among them is one of each kind.
NewContracts(new, n) ==
  /\ new \in Seq(Contracts) /\ Len(new) \in {3, 4}
  /\ new[1].id = "Poll"
  /\ \A i \in 1..Len(new) :
       /\ new[i].id \in Kinds /\ new[i].polls = << >>
       /\ \A id \in DOMAIN new[i].refs : new[i].refs[id] \in 1..(n + Len(new))
       /\ i # 1 => new[i].id # "Poll" /\ "Poll" \in DOMAIN new[i].refs /\ new[i].refs["Poll"] = n + 1
  /\ \A kind \in Kinds : \E i \in 1..Len(new) : new[i].id = kind

LEMMA PollRefs ==
  ASSUME NEW n \in Nat, NEW first \in References, DOMAIN first = {"Verifier", "VkRegistry"},
         \A id \in DOMAIN first : first[id] \in 1..n
  PROVE  LET base == With(first, "Poll", n + 1)
             both == With(base, "MessageProcessor", n + 2)
         IN  /\ base \in References /\ "Poll" \in DOMAIN base /\ base["Poll"] = n + 1
             /\ \A id \in DOMAIN base : base[id] \in 1..(n + 1)
             /\ both \in References /\ "Poll" \in DOMAIN both /\ both["Poll"] = n + 1
             /\ \A id \in DOMAIN both : both[id] \in 1..(n + 2)
<1> DEFINE base == With(first, "Poll", n + 1)
           both == With(base, "MessageProcessor", n + 2)
<1>1. /\ "Poll" \in AllIds /\ n + 1 \in Nat
      /\ "MessageProcessor" \in AllIds /\ n + 2 \in Nat
  BY DEF AllIds, AllKinds
<1>4. base \in References
  BY <1>1, WithTyped
<1>5. "Poll" \in DOMAIN base /\ base["Poll"] = n + 1
  BY DEF With
<1>6. \A id \in DOMAIN base : base[id] \in 1..(n + 1)
  BY DEF With
<1> HIDE DEF base
<1>7. both \in References
  BY <1>1, <1>4, WithTyped
<1>8. "Poll" \in DOMAIN both /\ both["Poll"] = n + 1
  BY <1>5 DEF With
<1>9. \A id \in DOMAIN both : both[id] \in 1..(n + 2)
  <2>1. \A id \in DOMAIN both : id = "MessageProcessor" \/ id \in DOMAIN base
    BY DEF With
  <2>2. both["MessageProcessor"] = n + 2
    BY DEF With
  <2>3. \A id \in DOMAIN base : id # "MessageProcessor" => both[id] = base[id]
    BY DEF With
  <2> HIDE DEF both
  <2> QED
    BY <1>6, <2>1, <2>2, <2>3
<1> QED
  BY <1>4, <1>5, <1>6, <1>7, <1>8, <1>9 DEF base

LEMMA NewContractTyped ==
  ASSUME NEW id \in AllIds, NEW refs \in References
  PROVE  /\ Contract(id, refs) \in Contracts
         /\ Contract(id, refs).id = id /\ Contract(id, refs).refs = refs
         /\ Contract(id, refs).polls = << >>
  BY DEF Contract, Contracts

LEMMA FourOrThree ==
  ASSUME NEW T, NEW a \in T, NEW b \in T, NEW c \in T, NEW d \in T, NEW four \in BOOLEAN
  PROVE  LET s == <<a, b, c>> \o (IF four THEN <<d>> ELSE << >>)
         IN  /\ s \in Seq(T) /\ Len(s) = IF four THEN 4 ELSE 3
             /\ s[1] = a /\ s[2] = b /\ s[3] = c /\ (four => s[4] = d)
<1>1. CASE four
  BY <1>1
<1>2. CASE ~four
  BY <1>2
<1> QED
  BY <1>1, <1>2

LEMMA PollContractsNew ==
  ASSUME Types, Saved("MACI"), Saved("Verifier"), Saved("VkRegistry")
  PROVE  NewContracts(PollContracts(AddressOf("MACI"), Len(chain) + 1), Len(chain))
<1> DEFINE n == Len(chain)
           first == [ref \in {"Verifier", "VkRegistry"} |-> AddressOf(ref)]
           base == With(first, "Poll", n + 1)
           both == With(base, "MessageProcessor", n + 1 + 1)
           maci == [ref \in {"MACI"} |-> AddressOf("MACI")]
           a == Contract("Poll", maci)
           b == Contract("MessageProcessor", base)
           c == Contract("Tally", both)
           d == Contract("Subsidy", both)
           four == config.subsidyPolls
           new == PollContracts(AddressOf("MACI"), n + 1)
<1>1. n \in Nat /\ \A id \in {"MACI", "Verifier", "VkRegistry"} : AddressOf(id) \in 1..n
  BY SavedTyped DEF Types, Addresses
<1>2. first \in References /\ DOMAIN first = {"Verifier", "VkRegistry"}
      /\ \A id \in DOMAIN first : first[id] \in 1..n
  <2>1. first \in [{"Verifier", "VkRegistry"} -> Nat] /\ {"Verifier", "VkRegistry"} \in SUBSET AllIds
    BY <1>1 DEF AllIds, Ids
  <2> QED
    BY <1>1, <2>1 DEF References
<1>3. maci \in References /\ \A id \in DOMAIN maci : maci[id] \in 1..n
  <2>1. maci \in [{"MACI"} -> Nat] /\ {"MACI"} \in SUBSET AllIds
    BY <1>1 DEF AllIds, Ids
  <2> QED
    BY <1>1, <2>1 DEF References
<1>4. new = <<a, b, c>> \o (IF four THEN <<d>> ELSE << >>)
  BY DEF PollContracts
<1> HIDE DEF first, maci
<1>5. n + 1 + 1 = n + 2
  BY <1>1
<1>6. /\ base \in References /\ "Poll" \in DOMAIN base /\ base["Poll"] = n + 1
      /\ \A id \in DOMAIN base : base[id] \in 1..(n + 1)
      /\ both \in References /\ "Poll" \in DOMAIN both /\ both["Poll"] = n + 1
      /\ \A id \in DOMAIN both : both[id] \in 1..(n + 2)
  BY <1>1, <1>2, <1>5, PollRefs
<1> HIDE DEF base, both, n
<1>7. /\ a \in Contracts /\ a.id = "Poll" /\ a.refs = maci /\ a.polls = << >>
      /\ b \in Contracts /\ b.id = "MessageProcessor" /\ b.refs = base /\ b.polls = << >>
      /\ c \in Contracts /\ c.id = "Tally" /\ c.refs = both /\ c.polls = << >>
      /\ d \in Contracts /\ d.id = "Subsidy" /\ d.refs = both /\ d.polls = << >>
  BY <1>3, <1>6, NewContractTyped DEF AllIds, AllKinds
<1> HIDE DEF a, b, c, d
<1>8. four \in BOOLEAN
  BY ConfigTyped DEF Types
<1>9. Kinds = {"Poll", "MessageProcessor", "Tally"} \cup (IF four THEN {"Subsidy"} ELSE {})
  BY DEF Kinds
<1> HIDE DEF four, new
<1>10. /\ new \in Seq(Contracts) /\ Len(new) = IF four THEN 4 ELSE 3
       /\ new[1] = a /\ new[2] = b /\ new[3] = c /\ (four => new[4] = d)
  BY <1>4, <1>7, <1>8, FourOrThree
<1>11. ASSUME NEW i \in 1..Len(new)
       PROVE  /\ new[i].id \in Kinds /\ new[i].polls = << >>
              /\ \A id \in DOMAIN new[i].refs : new[i].refs[id] \in 1..(n + Len(new))
              /\ i # 1 => /\ new[i].id # "Poll" /\ "Poll" \in DOMAIN new[i].refs
                          /\ new[i].refs["Poll"] = n + 1
  <2>1. i = 1 \/ i = 2 \/ i = 3 \/ (four /\ i = 4)
    BY <1>8, <1>10
  <2>2. 1..n \subseteq 1..(n + Len(new)) /\ 1..(n + 1) \subseteq 1..(n + Len(new))
        /\ 1..(n + 2) \subseteq 1..(n + Len(new))
    BY <1>1, <1>8, <1>10
  <2>3. CASE i = 1
    BY <1>3, <1>7, <1>9, <1>10, <2>2, <2>3
  <2>4. CASE i = 2
    BY <1>6, <1>7, <1>9, <1>10, <2>2, <2>4
  <2>5. CASE i = 3
    BY <1>6, <1>7, <1>9, <1>10, <2>2, <2>5
  <2>6. CASE four /\ i = 4
    BY <1>6, <1>7, <1>9, <1>10, <2>2, <2>6
  <2> QED
    BY <2>1, <2>3, <2>4, <2>5, <2>6
<1>12. \A kind \in Kinds : \E i \in 1..Len(new) : new[i].id = kind
  BY <1>7, <1>8, <1>9, <1>10
<1>13. Len(new) \in {3, 4} /\ new[1].id = "Poll"
  BY <1>7, <1>8, <1>10
<1>14. NewContracts(new, n)
  BY <1>10, <1>11, <1>12, <1>13 DEF NewContracts
<1> QED
  BY <1>14 DEF new, n

NewPoll == PollContracts(AddressOf("MACI"), Len(chain) + 1)

LEMMA PollRun ==
  ASSUME Types, RunInv, deployPoll
  PROVE  /\ todo # << >> /\ 1 \in Left /\ todo[1].do = "deployPoll"
         /\ run.task = "poll" /\ PollInv
         /\ Saved("MACI") /\ Saved("Verifier") /\ Saved("VkRegistry")
         /\ run.pollId = Len(Polls)
         /\ NewContracts(NewPoll, Len(chain))
         /\ chain' = [chain EXCEPT ![AddressOf("MACI")].polls = Append(@, Len(chain) + 1)] \o NewPoll
         /\ run' = [Done EXCEPT !.mine =
                      [id \in {c.id : c \in {NewPoll[i] : i \in DOMAIN NewPoll}} |->
                         Len(chain) + CHOOSE i \in DOMAIN NewPoll : NewPoll[i].id = id]]
<1>1. Doing("deployPoll")
  BY DEF deployPoll
<1>2. todo # << >> /\ 1 \in Left /\ todo[1].do = "deployPoll"
  BY <1>1, HeadItem
<1>3. run.task = "poll" /\ PollInv
  BY <1>1, TaskOfItem
<1>4. /\ Saved("MACI") /\ Saved("Verifier") /\ Saved("VkRegistry")
      /\ run.pollId = Len(Polls)
  BY <1>2, <1>3 DEF PollInv
<1>5. NewContracts(NewPoll, Len(chain))
  BY <1>4, PollContractsNew DEF NewPoll
<1> QED
  BY <1>2, <1>3, <1>4, <1>5 DEF deployPoll, NewPoll

LEMMA PollMine ==
  ASSUME Types, RunInv, deployPoll
  PROVE  /\ run' \in Runs /\ DOMAIN run'.mine = Kinds
         /\ \A id \in Kinds : \E i \in 1..Len(NewPoll) :
              run'.mine[id] = Len(chain) + i /\ NewPoll[i].id = id
         /\ todo' = Tail(todo) /\ run'.task = run.task
         /\ run'.incremental = run.incremental /\ run'.step = run.step /\ run'.pollId = run.pollId
<1> DEFINE new == NewPoll
           n == Len(chain)
           mine == [id \in {c.id : c \in {new[i] : i \in DOMAIN new}} |->
                      n + CHOOSE i \in DOMAIN new : new[i].id = id]
<1>1. new \in Seq(Contracts) /\ DOMAIN new = 1..Len(new) /\ n \in Nat /\ Len(new) \in Nat
  BY PollRun DEF NewContracts, Types
<1>2. {c.id : c \in {new[i] : i \in DOMAIN new}} = Kinds
  BY <1>1, PollRun DEF NewContracts
<1>3. \A id \in Kinds : \E i \in DOMAIN new : new[i].id = id
  BY <1>1, PollRun DEF NewContracts
<1> HIDE DEF new
<1>4. ASSUME NEW id \in Kinds
      PROVE  \E i \in 1..Len(new) : mine[id] = n + i /\ new[i].id = id
  <2> DEFINE i == CHOOSE i \in DOMAIN new : new[i].id = id
  <2>1. i \in DOMAIN new /\ new[i].id = id
    BY <1>3
  <2>2. mine[id] = n + i
    BY <1>2
  <2> QED
    BY <1>1, <2>1, <2>2
<1>5. mine = [id \in Kinds |-> mine[id]] /\ DOMAIN mine = Kinds
  BY <1>2
<1> HIDE DEF mine
<1>6. mine \in References
  <2>1. Kinds \in SUBSET AllIds
    BY DEF Kinds, AllIds, AllKinds
  <2>2. \A id \in Kinds : mine[id] \in Nat
    BY <1>1, <1>4
  <2> QED
    BY <1>5, <2>1, <2>2, ReferencesTyped
<1>7. run' = [run EXCEPT !.todo = Tail(@), !.written = FALSE, !.mine = mine]
  BY PollRun DEF Done, Types, Runs, mine, new
<1>8. /\ run' \in Runs /\ run'.mine = mine /\ todo' = Tail(todo) /\ run'.task = run.task
      /\ run'.incremental = run.incremental /\ run'.step = run.step /\ run'.pollId = run.pollId
  BY <1>6, <1>7, PollRun, DoneRun DEF Types
<1> QED
  BY <1>4, <1>5, <1>8 DEF new, n

LEMMA PollAdded ==
  ASSUME NEW it \in Contracts, NEW a \in Nat
  PROVE  LET new == [it EXCEPT !.polls = Append(@, a)]
         IN  /\ new \in Contracts /\ new.id = it.id /\ new.refs = it.refs
             /\ new.maci = it.maci /\ new.keys = it.keys /\ new.polls = Append(it.polls, a)
<1>1. \A v \in Seq(Nat) : LET new == [it EXCEPT !.polls = v]
                         IN  /\ new \in Contracts /\ new.id = it.id /\ new.refs = it.refs
                             /\ new.maci = it.maci /\ new.keys = it.keys /\ new.polls = v
  BY DEF Contracts
<1>2. Append(it.polls, a) \in Seq(Nat)
  BY DEF Contracts
<1>3. [it EXCEPT !.polls = Append(@, a)] = [it EXCEPT !.polls = Append(it.polls, a)]
  OBVIOUS
<1> QED
  BY <1>1, <1>2, <1>3

LEMMA Followed ==
  ASSUME NEW T, NEW s \in Seq(T), NEW t \in Seq(T)
  PROVE  /\ s \o t \in Seq(T) /\ Len(s \o t) = Len(s) + Len(t)
         /\ \A i \in 1..Len(s) : (s \o t)[i] = s[i]
         /\ \A i \in 1..Len(t) : (s \o t)[Len(s) + i] = t[i]
  OBVIOUS

LEMMA PollChain ==
  ASSUME Types, RunInv, StorageInv, deployPoll
  PROVE  LET n == Len(chain)
             maci == AddressOf("MACI")
         IN  /\ Grown /\ RefsOnChain' /\ Len(chain') = n + Len(NewPoll)
             /\ \A a \in Addresses : /\ chain'[a].maci = chain[a].maci
                                     /\ chain'[a].keys = chain[a].keys
             /\ Polls' = Append(Polls, n + 1)
             /\ \A i \in 1..Len(NewPoll) : chain'[n + i] = NewPoll[i]
<1> DEFINE n == Len(chain)
           maci == AddressOf("MACI")
           new == NewPoll
           it == [chain[maci] EXCEPT !.polls = Append(@, n + 1)]
           old == [chain EXCEPT ![maci] = it]
<1>1. maci \in 1..n /\ n \in Nat /\ chain \in Seq(Contracts) /\ chain[maci] \in Contracts
  BY PollRun, SavedTyped DEF Types, Addresses
<1>2. /\ it \in Contracts /\ it.id = chain[maci].id /\ it.refs = chain[maci].refs
      /\ it.maci = chain[maci].maci /\ it.keys = chain[maci].keys
      /\ it.polls = Append(chain[maci].polls, n + 1)
  <2>1. n + 1 \in Nat
    BY <1>1
  <2> HIDE DEF n, maci
  <2> QED
    BY <1>1, <2>1, PollAdded
<1>3. chain' = old \o new
  BY PollRun
<1> HIDE DEF it
<1>4. /\ old \in Seq(Contracts) /\ Len(old) = n /\ old[maci] = it
      /\ \A a \in 1..n : a # maci => old[a] = chain[a]
  BY <1>1, <1>2
<1>5. /\ new \in Seq(Contracts) /\ Len(new) \in Nat
      /\ \A i \in 1..Len(new) : \A id \in DOMAIN new[i].refs : new[i].refs[id] \in 1..(n + Len(new))
  BY PollRun DEF NewContracts
<1> HIDE DEF old, new, n, maci
<1>6. /\ chain' \in Seq(Contracts) /\ Len(chain') = n + Len(new)
      /\ \A a \in 1..n : chain'[a] = old[a]
      /\ \A i \in 1..Len(new) : chain'[n + i] = new[i]
  BY <1>3, <1>4, <1>5, Followed
<1>7. \A a \in 1..n : /\ chain'[a].id = chain[a].id /\ chain'[a].refs = chain[a].refs
                      /\ chain'[a].maci = chain[a].maci /\ chain'[a].keys = chain[a].keys
  BY <1>2, <1>4, <1>6
<1>8. Grown
  BY <1>1, <1>5, <1>6, <1>7 DEF Grown, Addresses, n
<1>9. RefsOnChain'
  <2>1. ASSUME NEW a \in 1..(n + Len(new)), NEW id \in DOMAIN chain'[a].refs
        PROVE  chain'[a].refs[id] \in 1..(n + Len(new))
    <3>1. CASE a \in 1..n
      <4>1. chain[a].refs[id] \in 1..n
        BY <2>1, <1>7, <3>1 DEF StorageInv, RefsOnChain, Addresses, n
      <4> QED
        BY <1>1, <1>5, <1>7, <3>1, <4>1
    <3>2. CASE a \notin 1..n
      <4>1. a - n \in 1..Len(new) /\ n + (a - n) = a
        BY <1>1, <1>5, <2>1, <3>2
      <4>2. chain'[a] = new[a - n]
        BY <1>6, <4>1
      <4> QED
        BY <1>5, <2>1, <4>1, <4>2
    <3> QED
      BY <3>1, <3>2
  <2> QED
    BY <1>6, <2>1 DEF RefsOnChain, Addresses
<1>10. Polls' = Append(Polls, n + 1)
  <2>1. AddressOf("MACI")' = maci
    BY DEF deployPoll, AddressOf, storage, maci
  <2>2. chain'[maci] = it
    BY <1>1, <1>4, <1>6
  <2> QED
    BY <1>2, <2>1, <2>2 DEF Polls, maci
<1> QED
  BY <1>6, <1>7, <1>8, <1>9, <1>10 DEF n, new, Addresses

LEMMA PollsTyped ==
  ASSUME Types, Saved("MACI")
  PROVE  Polls \in Seq(Nat) /\ Len(Polls) \in Nat
<1>1. chain[AddressOf("MACI")] \in Contracts
  BY SavedTyped DEF Types, Addresses
<1>2. Polls \in Seq(Nat)
  BY <1>1 DEF Polls, Contracts
<1> QED
  BY <1>2

LEMMA PollNameTyped ==
  ASSUME Types, NEW name \in DOMAIN named
  PROVE  /\ name[1] \in AllKinds => name[2] \in Nat
         /\ name[2] # NoKey => name[1] \in AllKinds
         /\ name[1] \in Ids => name = <<name[1], NoKey>> /\ Saved(name[1])
<1>1. name \in Ids \X {NoKey} \/ name \in AllKinds \X Nat
  BY DEF Types, Names
<1>2. Ids \cap AllKinds = {}
  BY DEF Ids, AllKinds, Poseidons, Factories
<1> QED
  BY <1>1, <1>2 DEF NoKey, Saved

LEMMA PollAdds ==
  ASSUME Types, RunInv, StorageInv, deployPoll
  PROVE  PollInv'
<1> DEFINE n == Len(chain)
<1>1. UNCHANGED <<config, storage>> /\ Kinds' = Kinds
  BY DEF deployPoll, Kinds
<1>2. \A id : Saved(id)' <=> Saved(id)
  BY <1>1 DEF Saved, storage
<1>3. Len(todo) \in Nat /\ run.step <= 1 /\ run'.step <= 1
  BY PollRun, PollMine, RunTyped DEF Types, PollInv
<1>4. Len(todo') = Len(todo) - 1 /\ \A k \in Left' : k + 1 \in Left /\ todo'[k] = todo[k + 1]
  BY PollRun, PollMine, NextItem
<1>5. ASSUME NEW k \in Left'
      PROVE  todo'[k].do = "registerPoll" /\ todo'[k].id \in Kinds
  <2>1. PollItem(k + 1) /\ k \in Nat /\ k >= 1 /\ k + 1 <= Len(todo)
    BY <1>3, <1>4, PollRun DEF PollInv, Left
  <2> QED
    BY <1>3, <1>4, <2>1 DEF PollItem
<1>6. \A k \in Left' : PollItem(k)'
  BY <1>1, <1>5, PollMine DEF PollItem
<1>7. todo' # << >> => 1 \in Left' /\ todo'[1].do = "registerPoll"
  <2>1. todo' \in Seq(Items)
    BY PollMine, RunTyped DEF Runs, todo
  <2>2. todo' # << >> => 1 \in Left'
    BY <2>1 DEF Left
  <2> QED
    BY <1>5, <2>2
<1>8. /\ run'.pollId + 1 = Len(Polls') /\ Polls' = Append(Polls, n + 1)
      /\ Polls'[run'.pollId + 1] = n + 1
  <2>1. n + 1 \in Nat
    BY DEF Types
  <2> QED
    BY <2>1, PollRun, PollMine, PollChain, PollsTyped
<1>9. ASSUME NEW id \in Kinds
      PROVE  /\ run'.mine[id] \in Addresses' /\ chain'[run'.mine[id]].id = id
             /\ OfPoll(run.mine[id], id, run.pollId)'
  <2>1. PICK i \in 1..Len(NewPoll) : run'.mine[id] = n + i /\ NewPoll[i].id = id
    BY PollMine
  <2>2. chain'[n + i] = NewPoll[i] /\ Len(chain') = n + Len(NewPoll)
    BY PollChain
  <2>3. n \in Nat /\ Len(NewPoll) \in Nat
    BY PollRun DEF NewContracts, Types
  <2>4. n + i \in 1..Len(chain')
    BY <2>2, <2>3
  <2>5. i # 1 => NewPoll[i].id # "Poll" /\ "Poll" \in DOMAIN NewPoll[i].refs /\ NewPoll[i].refs["Poll"] = n + 1
    BY PollRun DEF NewContracts
  <2>6. NewPoll[1].id = "Poll"
    BY PollRun DEF NewContracts
  <2>7. OfPoll(run.mine[id], id, run.pollId)'
    <3>1. CASE i = 1
      BY <1>8, <2>1, <2>6, <3>1 DEF OfPoll
    <3>2. CASE i # 1
      BY <1>8, <2>1, <2>2, <2>5, <3>2 DEF OfPoll
    <3> QED
      BY <3>1, <3>2
  <2> QED
    BY <2>1, <2>2, <2>4, <2>7 DEF Addresses
<1>10. Saved("MACI")' /\ Saved("Verifier")' /\ Saved("VkRegistry")'
  BY <1>2, PollRun
<1> QED
  BY <1>1, <1>3, <1>6, <1>7, <1>8, <1>9, <1>10, PollMine DEF PollInv, Saved

LEMMA PollNamesGrow ==
  ASSUME Types, RunInv, StorageInv, deployPoll
  PROVE  PollNamesInv'
<1>1. named' = named /\ Saved("MACI") /\ Saved("MACI")'
  BY PollRun DEF deployPoll, storage, Saved
<1>2. /\ Polls' = Append(Polls, Len(chain) + 1) /\ Len(chain) + 1 \in Nat
      /\ Polls \in Seq(Nat) /\ Len(Polls) \in Nat
  BY <1>1, PollChain, PollsTyped DEF Types
<1>3. Len(Polls') = Len(Polls) + 1 /\ \A i \in 1..Len(Polls) : Polls'[i] = Polls[i]
  BY <1>2
<1>4. ASSUME NEW name \in DOMAIN named, name[1] \in AllKinds
      PROVE  name[2] < Len(Polls') /\ OfPoll(named[name].address, name[1], name[2])'
  <2>1. name[2] \in Nat /\ name[2] < Len(Polls) /\ OfPoll(named[name].address, name[1], name[2])
    BY <1>4, PollNameTyped DEF StorageInv, PollNamesInv
  <2>2. Polls'[name[2] + 1] = Polls[name[2] + 1]
    BY <1>2, <1>3, <2>1
  <2>3. chain'[named[name].address].refs = chain[named[name].address].refs
    BY PollChain, NameTyped DEF Grown
  <2> QED
    BY <1>1, <1>2, <1>3, <2>1, <2>2, <2>3 DEF OfPoll
<1> QED
  BY <1>1, <1>4 DEF PollNamesInv

LEMMA PollsKnownGrow ==
  ASSUME Types, RunInv, StorageInv, PollsKnownInv, deployPoll
  PROVE  PollsKnownInv'
<1>1. UNCHANGED <<config, named, lost>> /\ Kinds' = Kinds /\ Saved("MACI")
  BY PollRun DEF deployPoll, storage, history, Kinds
<1>2. /\ Polls' = Append(Polls, Len(chain) + 1) /\ Polls \in Seq(Nat) /\ Len(Polls) \in Nat
  BY <1>1, PollChain, PollsTyped
<1>3. Len(Polls') = Len(Polls) + 1
  BY <1>2
<1>4. run.pollId = Len(Polls) /\ run'.pollId = Len(Polls) /\ run'.task = "poll"
  BY PollRun, PollMine
<1>5. ASSUME NEW id \in 0..(Len(Polls') - 1), id \notin lost', NEW kind \in Kinds
      PROVE  PollKnown(kind, id)'
  <2>1. CASE id < Len(Polls)
    <3>1. id \in 0..(Len(Polls) - 1) /\ id # run.pollId
      BY <1>2, <1>3, <1>4, <2>1
    <3>2. PollKnown(kind, id)
      BY <1>1, <1>5, <3>1 DEF PollsKnownInv
    <3> QED
      BY <1>1, <3>1, <3>2 DEF PollKnown
  <2>2. CASE ~(id < Len(Polls))
    <3>1. id = run'.pollId
      BY <1>2, <1>3, <1>4, <2>2
    <3>2. PICK k \in Left : todo[k].do = "registerPoll" /\ todo[k].id = kind
      BY PollRun DEF PollInv
    <3>3. k # 1 /\ k \in 1..Len(todo) /\ Len(todo) \in Nat
      BY <3>2, PollRun, RunTyped DEF Types, Left
    <3>4. Len(todo') = Len(todo) - 1 /\ \A m \in Left' : todo'[m] = todo[m + 1]
      BY PollRun, PollMine, NextItem
    <3>5. k - 1 \in Left' /\ (k - 1) + 1 = k
      BY <3>3, <3>4 DEF Left
    <3>6. todo'[k - 1] = todo[k]
      BY <3>4, <3>5
    <3> QED
      BY <1>4, <3>1, <3>2, <3>5, <3>6 DEF PollKnown
  <2> QED
    BY <2>1, <2>2
<1> QED
  BY <1>1, <1>5 DEF PollsKnownInv

LEMMA PollDeployStep ==
  ASSUME TasksInv, deployPoll
  PROVE  TasksInv'
<1>1. Types /\ RunInv /\ StorageInv /\ PollsKnownInv
  BY DEF TasksInv
<1>2. UNCHANGED <<config, storage, history>> /\ UNCHANGED <<named, instance, skippedGatekeepers>>
  BY DEF deployPoll, storage, history
<1>3. /\ Grown /\ RefsOnChain'
      /\ \A a \in Addresses : chain'[a].maci = chain[a].maci /\ chain'[a].keys = chain[a].keys
  BY <1>1, PollChain
<1>4. RegisteredIsUsable'
  BY <1>1, <1>2, <1>3, UsableKept
<1>5. NamesInv' /\ GatekeepersInv'
  BY <1>1, <1>2, <1>3, StorageKept DEF StorageInv
<1>6. StorageInv'
  BY <1>1, <1>3, <1>4, <1>5, PollNamesGrow DEF StorageInv
<1>7. Types'
  <2>1. Addresses \subseteq Addresses'
    BY <1>1, <1>3 DEF Grown, Addresses, Types
  <2>2. named \in [DOMAIN named -> [address : Addresses', count : Nat \ {0}]]
    BY <1>1, <2>1 DEF Types
  <2> QED
    BY <1>1, <1>2, <1>3, <2>2, PollMine DEF Types, Grown
<1>8. PollInv' /\ run'.task = "poll"
  BY <1>1, PollAdds, PollRun, PollMine
<1>9. RunInv'
  BY <1>8 DEF RunInv
<1> QED
  BY <1>1, <1>6, <1>7, <1>9, PollsKnownGrow DEF TasksInv

-----------------------------------------------------------------------------
(***************************************************************************)
(* A contract is registered, its instance first and then its name.         *)
(***************************************************************************)
Register(name, address) ==
  /\ instance' = instance
  /\ named' = With(named, name,
                   [address |-> address,
                    count |-> 1 + IF name \in DOMAIN named THEN named[name].count ELSE 0])

LEMMA NameWritten ==
  ASSUME Types, NEW name \in Names, NEW a \in Addresses, Register(name, a),
         UNCHANGED <<config, chain, history>>, run' \in Runs
  PROVE  /\ DOMAIN named' = DOMAIN named \cup {name}
         /\ named'[name].address = a /\ named'[name].count \in Nat \ {0}
         /\ name \in DOMAIN named => named'[name].count # 1
         /\ \A m \in DOMAIN named : m # name => named'[m] = named[m]
         /\ instance' = instance
         /\ Types'
<1> DEFINE entry == [address |-> a,
                     count |-> 1 + IF name \in DOMAIN named THEN named[name].count ELSE 0]
<1>1. named' = With(named, name, entry) /\ instance' = instance
  BY DEF Register
<1>2. entry.address = a /\ entry.count \in Nat \ {0} /\ (name \in DOMAIN named => entry.count # 1)
      /\ entry \in [address : Addresses, count : Nat \ {0}]
  <2>1. name \in DOMAIN named => named[name].count \in Nat \ {0}
    BY NameTyped
  <2>2. 1 + (IF name \in DOMAIN named THEN named[name].count ELSE 0) \in Nat \ {0}
    BY <2>1
  <2> QED
    BY <2>1, <2>2
<1> HIDE DEF entry
<1>3. /\ DOMAIN named' = DOMAIN named \cup {name} /\ named'[name] = entry
      /\ \A m \in DOMAIN named : m # name => named'[m] = named[m]
      /\ named' = [m \in DOMAIN named' |-> named'[m]]
  BY <1>1 DEF With
<1>4. IsFiniteSet(DOMAIN named')
  BY <1>3, FS_AddElement DEF Types
<1>5. DOMAIN named' \subseteq Names
  BY <1>3 DEF Types
<1>6. \A m \in DOMAIN named' : named'[m] \in [address : Addresses, count : Nat \ {0}]
  <2>1. \A m \in DOMAIN named : named[m] \in [address : Addresses, count : Nat \ {0}]
    BY DEF Types
  <2> QED
    BY <1>2, <1>3, <2>1
<1>7. named' \in [DOMAIN named' -> [address : Addresses, count : Nat \ {0}]]
  BY <1>3, <1>6
<1>8. Types'
  BY <1>4, <1>5, <1>7 DEF Types, Addresses, history
<1> QED
  BY <1>1, <1>2, <1>3, <1>8

\* What the step of deploy-full knows of the contract that it registers.
LEMMA RegisterRun ==
  ASSUME Types, RunInv, registersName, Doing("register")
  PROVE  LET id == todo[1].id
         IN  /\ todo # << >> /\ 1 \in Left /\ todo[1].do = "register"
             /\ run.task = "full" /\ FullInv /\ FullItem(1)
             /\ id \in Ids /\ Turn(id) = run.step /\ id \in DOMAIN run.mine
             /\ run.mine[id] \in Addresses
             /\ chain[run.mine[id]].id = id /\ chain[run.mine[id]].polls = << >>
             /\ chain[run.mine[id]].keys \subseteq Keys /\ Wired(chain[run.mine[id]].refs, id)
             /\ <<id, NoKey>> \in Names /\ Register(<<id, NoKey>>, run.mine[id])
             /\ UNCHANGED <<config, chain, history>>
             /\ run' \in Runs /\ run'.mine = run.mine
             /\ todo' = Tail(todo) /\ run'.task = run.task
             /\ run'.incremental = run.incremental /\ run'.step = run.step
<1> DEFINE id == todo[1].id
<1>1. /\ todo # << >> /\ 1 \in Left /\ todo[1] \in Items /\ Head(run.todo) = todo[1]
      /\ todo[1].do = "register"
  BY HeadItem
<1>2. run.task = "full" /\ FullInv /\ FullItem(1)
  BY TaskOfItem
<1>3. id \in Ids
  BY <1>1, ItemTyped
<1>4. Turn(id) = run.step /\ Deployed(id, 1)
  BY <1>1, <1>2 DEF FullItem, RegisterItem
<1>5. id \in DOMAIN run.mine
  BY <1>4 DEF Deployed
<1>6. /\ run.mine[id] \in Addresses
      /\ chain[run.mine[id]].id = id /\ chain[run.mine[id]].polls = << >>
      /\ chain[run.mine[id]].keys \subseteq Keys /\ Wired(chain[run.mine[id]].refs, id)
  BY <1>2, <1>5 DEF FullInv, MineInv
<1>7. <<id, NoKey>> \in Names
  BY <1>3 DEF Names
<1>8. Register(<<id, NoKey>>, run.mine[id])
  <2>1. Registered = run.mine[id] /\ RegisteredName = <<id, NoKey>>
    BY <1>1 DEF Registered, RegisteredName, Doing, todo
  <2> QED
    BY <2>1 DEF registersName, Register
<1>9. UNCHANGED <<config, chain, history>> /\ run' = Done
  BY DEF registersName
<1>10. /\ run' \in Runs /\ run'.mine = run.mine /\ todo' = Tail(todo) /\ run'.task = run.task
       /\ run'.incremental = run.incremental /\ run'.step = run.step
  BY <1>1, <1>9, DoneSame DEF Types
<1> QED
  BY <1>1, <1>2, <1>3, <1>4, <1>5, <1>6, <1>7, <1>8, <1>9, <1>10

\* What is registered after a step of deploy-full has registered a contract.
LEMMA SavedBy ==
  ASSUME Types, RunInv, registersName, Doing("register")
  PROVE  LET id == todo[1].id
         IN  /\ \A x : Saved(x)' <=> (Saved(x) \/ x = id)
             /\ \A x : x = id => AddressOf(x)' = run.mine[id]
             /\ \A x : Saved(x) /\ x # id => AddressOf(x)' = AddressOf(x)
             /\ \A m \in DOMAIN named' :
                  m = <<id, NoKey>> \/ (m \in DOMAIN named /\ m # <<id, NoKey>> /\ named'[m] = named[m])
<1> DEFINE id == todo[1].id
           name == <<id, NoKey>>
<1>1. /\ DOMAIN named' = DOMAIN named \cup {name} /\ named'[name].address = run.mine[id]
      /\ \A m \in DOMAIN named : m # name => named'[m] = named[m]
  BY RegisterRun, NameWritten
<1>2. \A x : <<x, NoKey>> = name <=> x = id
  OBVIOUS
<1> HIDE DEF id
<1>3. \A x : Saved(x)' <=> (Saved(x) \/ x = id)
  BY <1>1, <1>2 DEF Saved
<1>4. \A x : x = id => AddressOf(x)' = run.mine[id]
  BY <1>1 DEF AddressOf
<1>5. \A x : Saved(x) /\ x # id => AddressOf(x)' = AddressOf(x)
  BY <1>1, <1>2 DEF Saved, AddressOf
<1>6. \A m \in DOMAIN named' : m = name \/ (m \in DOMAIN named /\ m # name /\ named'[m] = named[m])
  BY <1>1
<1> QED
  BY <1>3, <1>4, <1>5, <1>6 DEF id

\* What was built with what is registered still is, for nothing that it needs
\* is registered anew.
LEMMA WiredKept ==
  ASSUME Types, RunInv, registersName, Doing("register"), NEW x \in Ids, NEW refs, Wired(refs, x),
         todo[1].id \notin Needs(x)
  PROVE  /\ DOMAIN refs = Needs(x)'
         /\ \A need \in Needs(x)' : Saved(need)' /\ refs[need] = AddressOf(need)'
<1>1. Needs(x)' = Needs(x)
  BY RegisterRun, NeedsSame
<1>2. \A need \in Needs(x) : Saved(need) /\ refs[need] = AddressOf(need) /\ need # todo[1].id
  BY DEF Wired
<1> QED
  BY <1>1, <1>2, SavedBy DEF Wired

LEMMA NamesGrow ==
  ASSUME Types, RunInv, NamesInv, WrittenInv, registersName, Doing("register")
  PROVE  NamesInv'
<1> DEFINE id == todo[1].id
<1>1. UNCHANGED <<config, chain, skippedGatekeepers>>
  BY RegisterRun DEF history
<1>2. instance' = instance /\ run.mine[id] \in instance
  BY RegisterRun DEF Register, WrittenInv, registersName
<1>3. ASSUME NEW m \in DOMAIN named'
      PROVE  chain[named'[m].address].id = m[1] /\ named'[m].address \in instance'
  <2>1. CASE m = <<id, NoKey>>
    <3>1. named'[m].address = run.mine[id]
      BY <2>1, RegisterRun, NameWritten
    <3> QED
      BY <1>2, <2>1, <3>1, RegisterRun
  <2>2. CASE m \in DOMAIN named /\ named'[m] = named[m]
    BY <1>2, <2>2 DEF NamesInv
  <2> QED
    BY <2>1, <2>2, SavedBy
<1>4. ASSUME NEW x \in Ids, Saved(x)'
      PROVE  /\ DOMAIN chain[AddressOf(x)'].refs = Needs(x)'
             /\ ~Exempt => Wired(chain[AddressOf(x)].refs, x)'
  <2>1. CASE x = id
    <3>1. id \notin Needs(id) /\ Wired(chain[run.mine[id]].refs, id) /\ AddressOf(x)' = run.mine[id]
      <4>1. id \in Ids /\ ~(Turn(id) < Turn(id))
        BY RegisterRun, TurnTyped
      <4>2. id \notin Needs(id)
        BY <4>1, NeedsBefore DEF Types
      <4> QED
        BY <2>1, <4>2, RegisterRun, SavedBy
    <3> HIDE DEF id
    <3>2. /\ DOMAIN chain[run.mine[id]].refs = Needs(x)'
          /\ \A need \in Needs(x)' : Saved(need)' /\ chain[run.mine[id]].refs[need] = AddressOf(need)'
      BY <1>4, <2>1, <3>1, WiredKept DEF id
    <3> QED
      BY <1>1, <3>1, <3>2 DEF Wired
  <2>2. CASE x # id
    <3>1. Saved(x) /\ AddressOf(x)' = AddressOf(x) /\ Needs(x)' = Needs(x)
      BY <1>1, <1>4, <2>2, SavedBy, NeedsSame
    <3>2. DOMAIN chain[AddressOf(x)].refs = Needs(x)
      BY <3>1 DEF NamesInv
    <3>3. ASSUME ~Exempt
          PROVE  Wired(chain[AddressOf(x)].refs, x)'
      <4>1. id \notin Needs(x)
        BY <3>1, <3>3, RegisterRun DEF FullItem, RegisterItem
      <4>2. Wired(chain[AddressOf(x)].refs, x)
        BY <3>1, <3>3 DEF NamesInv
      <4>3. /\ DOMAIN chain[AddressOf(x)].refs = Needs(x)'
            /\ \A need \in Needs(x)' : Saved(need)' /\ chain[AddressOf(x)].refs[need] = AddressOf(need)'
        BY <4>1, <4>2, WiredKept
      <4> QED
        BY <1>1, <3>1, <4>3 DEF Wired
    <3> QED
      BY <3>1, <3>2, <3>3
  <2> QED
    BY <2>1, <2>2
<1>5. Exempt' <=> Exempt
  BY <1>1 DEF Exempt
<1> QED
  BY <1>1, <1>3, <1>4, <1>5 DEF NamesInv

LEMMA UsableGrow ==
  ASSUME Types, RunInv, StorageInv, registersName, Doing("register")
  PROVE  RegisteredIsUsable'
<1> DEFINE id == todo[1].id
           a == run.mine[id]
<1>1. UNCHANGED <<config, chain>> /\ FullItem(1) /\ todo[1].do = "register"
  BY RegisterRun
<1>2. ASSUME id = "MACI", config.gatekeeper = "EASGatekeeper"
      PROVE  chain[chain[a].refs["EASGatekeeper"]].maci = a
  <2>1. chain[AddressOf("EASGatekeeper")].maci = a
    BY <1>1, <1>2 DEF FullItem, MaciItem
  <2>2. "EASGatekeeper" \in Needs("MACI")
    BY <1>2 DEF Needs, MaciNeeds, Factories
  <2>3. Wired(chain[a].refs, "MACI")
    BY <1>2, RegisterRun
  <2> QED
    BY <2>1, <2>2, <2>3 DEF Wired
<1>3. ASSUME id = "VkRegistry"
      PROVE  chain[a].keys = Keys
  <2>1. \A key \in Keys : key \in chain[a].keys
    BY <1>1, <1>3 DEF FullItem, RegistryItem
  <2> QED
    BY <2>1, RegisterRun
<1>4. ASSUME Saved("MACI")', config.gatekeeper = "EASGatekeeper"
      PROVE  chain[chain[AddressOf("MACI")'].refs["EASGatekeeper"]].maci = AddressOf("MACI")'
  <2>1. CASE id = "MACI"
    BY <1>2, <1>4, <2>1, SavedBy
  <2>2. CASE id # "MACI"
    BY <1>4, <2>2, SavedBy DEF StorageInv, RegisteredIsUsable
  <2> QED
    BY <2>1, <2>2
<1>5. ASSUME Saved("VkRegistry")'
      PROVE  chain[AddressOf("VkRegistry")'].keys = Keys
  <2>1. CASE id = "VkRegistry"
    BY <1>3, <2>1, SavedBy
  <2>2. CASE id # "VkRegistry"
    BY <1>5, <2>2, SavedBy DEF StorageInv, RegisteredIsUsable, Keys
  <2> QED
    BY <2>1, <2>2
<1> QED
  BY <1>1, <1>4, <1>5 DEF RegisteredIsUsable, Keys

LEMMA LastTurns ==
  ASSUME NEW id \in Ids
  PROVE  (Turn(id) = 10 <=> id = "MACI") /\ (Turn(id) = 11 <=> id = "VkRegistry")
<1>1. Turn("MACI") = 10 /\ Turn("VkRegistry") = 11
  BY DEF Turn, Poseidons, Gatekeepers
<1>2. id \in {"MACI", "VkRegistry"} \/ Turn(id) \in 1..9
  <2>1. id \in Poseidons \cup Gatekeepers => Turn(id) \in 1..9
    BY DEF Turn, Poseidons, Gatekeepers
  <2>2. id \notin Poseidons \cup Gatekeepers => id \in {"MACI", "VkRegistry"} \/ Turn(id) \in 1..9
    BY DEF Ids, Turn, Factories, Gatekeepers
  <2> QED
    BY <2>1, <2>2
<1> QED
  BY <1>1, <1>2

\* MACI and the registry are registered when nothing else is left to do.
LEMMA LastItem ==
  ASSUME Types, RunInv, registersName, Doing("register"), todo[1].id \in {"MACI", "VkRegistry"} \/ run.step \in {10, 11}
  PROVE  Len(todo) = 1 /\ ~Saved(todo[1].id) /\ Left' = {}
<1>1. todo[1].id \in {"MACI", "VkRegistry"}
  BY RegisterRun, LastTurns
<1>2. Len(todo) = 1 /\ ~Saved(todo[1].id)
  BY <1>1, RegisterRun DEF FullItem, RegisterItem
<1>3. Len(todo') = 0
  BY <1>2, RegisterRun, NextItem
<1> QED
  BY <1>2, <1>3 DEF Left

LEMMA GatekeepersGrow ==
  ASSUME Types, RunInv, StorageInv, registersName, Doing("register")
  PROVE  GatekeepersInv'
<1>1. UNCHANGED <<config, skippedGatekeepers>>
  BY RegisterRun DEF history
<1>2. ASSUME Saved("MACI")', ~skippedGatekeepers, NEW g \in config.gatekeepers
      PROVE  Saved(g)'
  <2>1. CASE todo[1].id = "MACI"
    <3>1. run.step = 10 /\ Left = {1}
      <4>1. Len(todo) = 1
        BY <2>1, LastItem
      <4>2. run.step = 10
        BY <2>1, RegisterRun, LastTurns
      <4> QED
        BY <4>1, <4>2 DEF Left
    <3>2. Saved(g) \/ \E k \in Left : todo[k].do = "register" /\ todo[k].id = g
      BY <1>2, <3>1, RegisterRun DEF FullInv
    <3> QED
      BY <3>1, <3>2, SavedBy
  <2>2. CASE todo[1].id # "MACI"
    BY <1>2, <2>2, SavedBy DEF StorageInv, GatekeepersInv
  <2> QED
    BY <2>1, <2>2
<1> QED
  BY <1>1, <1>2 DEF GatekeepersInv

LEMMA PollsKept ==
  ASSUME Types, RunInv, StorageInv, PollsKnownInv, registersName, Doing("register")
  PROVE  PollNamesInv' /\ PollsKnownInv'
<1> DEFINE id == todo[1].id
<1>1. UNCHANGED <<config, chain, lost>> /\ id \in Ids /\ Ids \cap AllKinds = {}
  BY RegisterRun DEF history, Ids, AllKinds, Poseidons, Factories
<1>2. run.task = "full" /\ run'.task = "full" /\ \A m \in DOMAIN named : m \in DOMAIN named'
  BY RegisterRun, NameWritten
<1>3. CASE id = "MACI"
  <2>1. ~Saved("MACI") /\ \A m \in DOMAIN named : m[1] \notin AllKinds
    BY <1>3, LastItem DEF StorageInv, PollNamesInv
  <2>2. \A m \in DOMAIN named' : m[1] \notin AllKinds
    BY <1>1, <2>1, SavedBy
  <2>3. Polls' = << >>
    BY <1>1, <1>3, RegisterRun, SavedBy DEF Polls
  <2>4. 0..(Len(<< >>) - 1) = {}
    OBVIOUS
  <2> QED
    BY <2>2, <2>3, <2>4 DEF PollNamesInv, PollsKnownInv
<1>4. CASE id # "MACI"
  <2>1. (Saved("MACI")' <=> Saved("MACI")) /\ (Saved("MACI") => Polls' = Polls)
    BY <1>1, <1>4, SavedBy DEF Polls
  <2>2. ASSUME NEW m \in DOMAIN named', m[1] \in AllKinds
        PROVE  Saved("MACI") /\ m[2] < Len(Polls') /\ OfPoll(named[m].address, m[1], m[2])'
    <3>1. m \in DOMAIN named /\ named'[m] = named[m]
      BY <1>1, <2>2, SavedBy
    <3>2. Saved("MACI") /\ m[2] < Len(Polls) /\ OfPoll(named[m].address, m[1], m[2])
      BY <2>2, <3>1 DEF StorageInv, PollNamesInv
    <3> QED
      BY <1>1, <2>1, <3>1, <3>2 DEF OfPoll
  <2>3. PollNamesInv'
    BY <2>1, <2>2 DEF PollNamesInv
  <2>4. Kinds' = Kinds
    BY <1>1 DEF Kinds
  <2>5. PollsKnownInv'
    BY <1>1, <1>2, <2>1, <2>4 DEF PollsKnownInv, PollKnown
  <2> QED
    BY <2>3, <2>5
<1> QED
  BY <1>3, <1>4

LEMMA FullGoesOn ==
  ASSUME Types, RunInv, StorageInv, registersName, Doing("register")
  PROVE  FullInv'
<1> DEFINE id == todo[1].id
<1>1. UNCHANGED <<config, chain, skippedGatekeepers>> /\ Keys' = Keys
  BY RegisterRun DEF history, Keys
<1>2. \A m \in Left' : m + 1 \in Left /\ todo'[m] = todo[m + 1]
  BY RegisterRun, NextItem
<1>3. Len(todo') = Len(todo) - 1 /\ Len(todo) \in Nat /\ run.step \in Nat
  BY RegisterRun, NextItem, RunTyped DEF Types
<1>4. \A x \in Ids : Turn(x) = run.step => id \notin Needs(x)
  <2>1. id \in Ids /\ Turn(id) = run.step /\ Turn(id) \in 1..11
    BY RegisterRun, TurnTyped
  <2>2. \A x \in Ids : id \in Needs(x) => Turn(id) < Turn(x)
    BY NeedsBefore DEF Types
  <2> QED
    BY <2>1, <2>2
<1>5. ASSUME NEW x \in Ids, Turn(x) = run.step, NEW refs, Wired(refs, x)
      PROVE  /\ DOMAIN refs = Needs(x)'
             /\ \A need \in Needs(x)' : Saved(need)' /\ refs[need] = AddressOf(need)'
  BY <1>4, <1>5, WiredKept
<1>6. MineInv'
  <2>1. ASSUME NEW x \in DOMAIN run.mine
        PROVE  /\ x \in Ids /\ Turn(x) = run.step /\ run.mine[x] \in Addresses
               /\ chain[run.mine[x]].id = x /\ chain[run.mine[x]].polls = << >>
               /\ chain[run.mine[x]].keys \subseteq Keys
               /\ Wired(chain[run.mine[x]].refs, x)
    BY RegisterRun DEF FullInv, MineInv
  <2>2. ASSUME NEW x \in DOMAIN run.mine
        PROVE  Wired(chain[run.mine[x]].refs, x)'
    <3>1. /\ DOMAIN chain[run.mine[x]].refs = Needs(x)'
          /\ \A need \in Needs(x)' : Saved(need)' /\ chain[run.mine[x]].refs[need] = AddressOf(need)'
      BY <1>5, <2>1
    <3> QED
      BY <1>1, <3>1, RegisterRun DEF Wired
  <2> QED
    BY <1>1, <2>1, <2>2, RegisterRun DEF MineInv, Addresses
<1>7. ASSUME NEW k \in Left'
      PROVE  FullItem(k)'
  <2>1. FullItem(k + 1) /\ todo'[k] = todo[k + 1] /\ k \in Nat /\ k >= 1 /\ Len(todo) # 1
    BY <1>2, <1>3, RegisterRun DEF FullInv, Left
  <2>2. run.step \notin {10, 11} /\ run'.step = run.step /\ id \notin {"MACI", "VkRegistry"}
    BY <2>1, LastItem, RegisterRun
  <2>3. DeployItem(k)'
    <3>1. ASSUME todo'[k].do = "deploy"
          PROVE  /\ Turn(todo'[k].id) = run.step /\ todo'[k].id \notin {"MACI", "VkRegistry"}
                 /\ Wired(todo[k].refs, todo[k].id)'
      <4>1. /\ Turn(todo[k + 1].id) = run.step /\ Wired(todo[k + 1].refs, todo[k + 1].id)
            /\ todo[k + 1].id \in Ids
        BY <1>2, <2>1, <3>1, TodoTyped, ItemTyped DEF FullItem, DeployItem
      <4>2. ASSUME NEW x, x = todo[k + 1].id, NEW refs, refs = todo[k + 1].refs
            PROVE  /\ DOMAIN refs = Needs(x)'
                   /\ \A need \in Needs(x)' : Saved(need)' /\ refs[need] = AddressOf(need)'
        <5>1. x \in Ids /\ Turn(x) = run.step /\ Wired(refs, x)
          BY <4>1, <4>2
        <5> QED
          BY <1>5, <5>1
      <4>3. \A x, refs : (x = todo'[k].id /\ refs = todo'[k].refs) =>
              /\ DOMAIN refs = Needs(x)'
              /\ \A need \in Needs(x)' : Saved(need)' /\ refs[need] = AddressOf(need)'
        BY <2>1, <4>2
      <4>4. Wired(todo[k].refs, todo[k].id)'
        BY <4>3 DEF Wired
      <4> QED
        BY <2>1, <2>2, <4>1, <4>4, LastTurns
    <3> QED
      BY <2>2, <3>1 DEF DeployItem
  <2>4. RegisterItem(k)'
    <3>1. ASSUME todo'[k].do = "register"
          PROVE  /\ Turn(todo'[k].id) = run.step /\ todo'[k].id \notin {"MACI", "VkRegistry"}
                 /\ \A x : x = todo'[k].id => Deployed(x, k)'
                 /\ ~Exempt => \A x \in Ids : Saved(x)' => todo'[k].id \notin Needs(x)
      <4>1. /\ Turn(todo[k + 1].id) = run.step /\ Deployed(todo[k + 1].id, k + 1)
            /\ ~Exempt => \A x \in Ids : Saved(x) => todo[k + 1].id \notin Needs(x)
            /\ todo[k + 1].id \in Ids
        BY <1>2, <2>1, <3>1, TodoTyped, ItemTyped DEF FullItem, RegisterItem
      <4>2. todo[k + 1].id \notin Needs(id)
        <5>1. id \in Ids /\ Turn(id) = run.step
          BY RegisterRun
        <5>2. todo[k + 1].id \in Needs(id) => Turn(todo[k + 1].id) < Turn(id)
          BY <5>1, NeedsBefore DEF Types
        <5> QED
          BY <1>3, <4>1, <5>1, <5>2
      <4>3. \A x : x = todo[k + 1].id => Deployed(x, k)'
        BY <4>1, RegisterRun, DeployedNext
      <4> QED
        BY <2>1, <2>2, <4>1, <4>2, <4>3, SavedBy, LastTurns
    <3>2. \A x : Needs(x)' = Needs(x)
      BY <1>1, NeedsSame
    <3>3. Exempt' <=> Exempt
      BY <1>1 DEF Exempt
    <3>4. todo'[k].do = "register" => Deployed(todo[k].id, k)'
      BY <3>1 DEF Deployed
    <3> QED
      BY <2>2, <3>1, <3>2, <3>3, <3>4 DEF RegisterItem
  <2>5. InstanceItem(k)' /\ KeysItem(k)'
    BY <2>1, <2>2 DEF FullItem, InstanceItem, KeysItem, Turn, Gatekeepers, Poseidons
  <2>6. MaciItem(k)' /\ RegistryItem(k)'
    <3>1. ASSUME todo'[k].do = "register"
          PROVE  todo'[k].id \notin {"MACI", "VkRegistry"}
      <4>1. Turn(todo[k + 1].id) = run.step
        BY <2>1, <3>1 DEF FullItem, RegisterItem
      <4> QED
        BY <2>1, <2>2, <4>1 DEF Turn, Gatekeepers, Poseidons
    <3> QED
      BY <3>1 DEF MaciItem, RegistryItem
  <2> QED
    BY <2>1, <2>3, <2>4, <2>5, <2>6 DEF FullItem
<1>8. ~run'.incremental => \A x \in Ids : Saved(x)' => Turn(x) <= run'.step
  <2>1. run'.incremental = run.incremental /\ run'.step = run.step
        /\ todo[1].id \in Ids /\ Turn(todo[1].id) = run.step
    BY RegisterRun
  <2>2. ~run.incremental => \A x \in Ids : Saved(x) => Turn(x) <= run.step
    BY RegisterRun DEF FullInv
  <2> QED
    BY <1>3, <2>1, <2>2, SavedBy
<1>9. ASSUME run.step >= 2, ~skippedGatekeepers, NEW g \in config.gatekeepers
      PROVE  Saved(g)' \/ \E k \in Left' : todo'[k].do = "register" /\ todo'[k].id = g
  <2>1. CASE Saved(g)
    BY <2>1, SavedBy
  <2>2. CASE ~Saved(g)
    <3>1. PICK k \in Left : todo[k].do = "register" /\ todo[k].id = g
      BY <1>9, <2>2, RegisterRun DEF FullInv
    <3>2. CASE k = 1
      BY <3>1, <3>2, SavedBy
    <3>3. CASE k # 1
      <4>1. k - 1 \in Left' /\ (k - 1) + 1 = k
        BY <1>3, <3>1, <3>3 DEF Left
      <4>2. todo'[k - 1] = todo[k]
        BY <1>2, <4>1
      <4> QED
        BY <3>1, <4>1, <4>2
    <3> QED
      BY <3>2, <3>3
  <2> QED
    BY <2>1, <2>2
<1> QED
  BY <1>1, <1>6, <1>7, <1>8, <1>9, RegisterRun DEF FullInv

\* A contract of the poll is registered under the poll's ID.
LEMMA RegisterPollRun ==
  ASSUME Types, RunInv, registersName, Doing("registerPoll")
  PROVE  LET id == todo[1].id
             name == <<id, run.pollId>>
         IN  /\ todo # << >> /\ 1 \in Left /\ todo[1].do = "registerPoll"
             /\ run.task = "poll" /\ PollInv
             /\ id \in AllKinds /\ id \in DOMAIN run.mine /\ run.mine[id] \in Addresses
             /\ run.pollId \in Nat /\ run.pollId + 1 = Len(Polls) /\ Saved("MACI")
             /\ chain[run.mine[id]].id = id /\ OfPoll(run.mine[id], id, run.pollId)
             /\ name \in Names /\ Register(name, run.mine[id])
             /\ UNCHANGED <<config, chain, history>>
             /\ run' \in Runs /\ run'.mine = run.mine
             /\ todo' = Tail(todo) /\ run'.task = run.task
             /\ run'.incremental = run.incremental /\ run'.step = run.step /\ run'.pollId = run.pollId
<1> DEFINE id == todo[1].id
<1>1. /\ todo # << >> /\ 1 \in Left /\ todo[1] \in Items /\ Head(run.todo) = todo[1]
      /\ todo[1].do = "registerPoll"
  BY HeadItem
<1>2. run.task = "poll" /\ PollInv /\ PollItem(1)
  BY TaskOfItem
<1>3. id \in AllKinds /\ id \in DOMAIN run.mine
  BY <1>1, <1>2, ItemTyped DEF PollItem
<1>4. /\ run.pollId + 1 = Len(Polls) /\ Saved("MACI") /\ run.mine[id] \in Addresses
      /\ chain[run.mine[id]].id = id /\ OfPoll(run.mine[id], id, run.pollId)
  BY <1>1, <1>2, <1>3 DEF PollInv
<1>5. run.pollId \in Nat
  BY RunTyped DEF Types
<1>6. <<id, run.pollId>> \in Names
  BY <1>3, <1>5 DEF Names
<1>7. Register(<<id, run.pollId>>, run.mine[id])
  <2>1. Registered = run.mine[id] /\ RegisteredName = <<id, run.pollId>>
    BY <1>1 DEF Registered, RegisteredName, Doing, todo
  <2> QED
    BY <2>1 DEF registersName, Register
<1>8. UNCHANGED <<config, chain, history>> /\ run' = Done
  BY DEF registersName
<1>9. /\ run' \in Runs /\ run'.mine = run.mine /\ todo' = Tail(todo) /\ run'.task = run.task
      /\ run'.incremental = run.incremental /\ run'.step = run.step /\ run'.pollId = run.pollId
  BY <1>1, <1>8, DoneSame DEF Types
<1> QED
  BY <1>1, <1>2, <1>3, <1>4, <1>5, <1>6, <1>7, <1>8, <1>9

LEMMA OthersSame ==
  ASSUME Types, RunInv, registersName, Doing("registerPoll")
  PROVE  LET name == <<todo[1].id, run.pollId>>
         IN  /\ \A x : (Saved(x)' <=> Saved(x)) /\ (Saved(x) => AddressOf(x)' = AddressOf(x))
             /\ DOMAIN named' = DOMAIN named \cup {name}
             /\ named'[name].address = run.mine[todo[1].id]
             /\ \A m \in DOMAIN named : m # name => named'[m] = named[m]
             /\ Polls' = Polls
<1> DEFINE name == <<todo[1].id, run.pollId>>
<1>1. /\ DOMAIN named' = DOMAIN named \cup {name} /\ named'[name].address = run.mine[todo[1].id]
      /\ \A m \in DOMAIN named : m # name => named'[m] = named[m]
  BY RegisterPollRun, NameWritten
<1>2. \A x : <<x, NoKey>> # name
  BY RegisterPollRun DEF NoKey
<1> HIDE DEF name
<1>3. \A x : Saved(x)' <=> Saved(x)
  BY <1>1, <1>2 DEF Saved
<1>4. \A x : Saved(x) => AddressOf(x)' = AddressOf(x)
  BY <1>1, <1>2 DEF Saved, AddressOf
<1>5. Polls' = Polls
  BY <1>4, RegisterPollRun DEF Polls
<1> QED
  BY <1>1, <1>3, <1>4, <1>5 DEF name

LEMMA PollGoesOn ==
  ASSUME Types, RunInv, registersName, Doing("registerPoll")
  PROVE  PollInv'
<1>1. UNCHANGED <<config, chain>> /\ Kinds' = Kinds
  BY RegisterPollRun DEF Kinds
<1>2. \A m \in Left' : m + 1 \in Left /\ todo'[m] = todo[m + 1]
  BY RegisterPollRun, NextItem
<1>3. Len(todo) \in Nat /\ run.step <= 1 /\ run'.step <= 1
  BY RegisterPollRun, RunTyped DEF Types, PollInv
<1>4. ASSUME NEW k \in Left'
      PROVE  todo'[k].do = "registerPoll" /\ todo'[k].id \in Kinds /\ todo'[k].id \in DOMAIN run.mine
  <2>1. PollItem(k + 1) /\ k \in Nat /\ k >= 1 /\ k + 1 <= Len(todo) /\ todo'[k] = todo[k + 1]
    BY <1>2, <1>3, RegisterPollRun DEF PollInv, Left
  <2> QED
    BY <1>3, <2>1, RegisterPollRun DEF PollItem
<1>5. \A k \in Left' : PollItem(k)'
  BY <1>1, <1>4, RegisterPollRun DEF PollItem
<1>6. todo' # << >> => 1 \in Left' /\ todo'[1].do = "registerPoll"
  <2>1. todo' \in Seq(Items)
    BY RegisterPollRun, RunTyped DEF Runs, todo
  <2>2. todo' # << >> => 1 \in Left'
    BY <2>1 DEF Left
  <2> QED
    BY <1>4, <2>2
<1>7. Saved("MACI")' /\ Saved("Verifier")' /\ Saved("VkRegistry")'
  BY OthersSame, RegisterPollRun DEF PollInv
<1>8. ASSUME NEW id \in DOMAIN run.mine
      PROVE  /\ id \in Kinds /\ run.mine[id] \in Addresses /\ chain[run.mine[id]].id = id
             /\ OfPoll(run.mine[id], id, run.pollId)'
  <2>1. /\ id \in Kinds /\ run.mine[id] \in Addresses /\ chain[run.mine[id]].id = id
        /\ OfPoll(run.mine[id], id, run.pollId)
    BY RegisterPollRun DEF PollInv
  <2> QED
    BY <1>1, <2>1, OthersSame, RegisterPollRun DEF OfPoll
<1> QED
  BY <1>1, <1>3, <1>5, <1>6, <1>7, <1>8, OthersSame, RegisterPollRun DEF PollInv, Addresses

LEMMA PollStorage ==
  ASSUME Types, RunInv, StorageInv, PollsKnownInv, WrittenInv, registersName,
         Doing("registerPoll")
  PROVE  NamesInv' /\ RegisteredIsUsable' /\ GatekeepersInv' /\ PollNamesInv' /\ PollsKnownInv'
<1> DEFINE id == todo[1].id
           name == <<id, run.pollId>>
<1>1. UNCHANGED <<config, chain, skippedGatekeepers, lost>>
  BY RegisterPollRun DEF history
<1>2. instance' = instance /\ run.mine[id] \in instance
  BY RegisterPollRun DEF Register, WrittenInv, registersName
<1>3. \A x : Needs(x)' = Needs(x)
  BY <1>1, NeedsSame
<1>4. NamesInv'
  <2>1. ASSUME NEW m \in DOMAIN named'
        PROVE  chain[named'[m].address].id = m[1] /\ named'[m].address \in instance'
    <3>1. CASE m = name
      BY <1>2, <3>1, OthersSame, RegisterPollRun
    <3>2. CASE m # name
      <4>1. m \in DOMAIN named /\ named'[m] = named[m]
        BY <3>2, OthersSame
      <4> QED
        BY <1>2, <4>1 DEF StorageInv, NamesInv
    <3> QED
      BY <3>1, <3>2
  <2>2. \A x \in Ids : Saved(x)' =>
          DOMAIN chain[AddressOf(x)'].refs = Needs(x)'
    BY <1>3, OthersSame DEF StorageInv, NamesInv
  <2>3. ASSUME ~Exempt', NEW x \in Ids, Saved(x)'
        PROVE  \A need \in Needs(x)' : Saved(need)' /\ chain[AddressOf(x)'].refs[need] = AddressOf(need)'
    <3>1. ~Exempt /\ Saved(x) /\ AddressOf(x)' = AddressOf(x)
      BY <1>1, <2>3, OthersSame DEF Exempt
    <3>2. \A need \in Needs(x) : Saved(need) /\ chain[AddressOf(x)].refs[need] = AddressOf(need)
      BY <2>3, <3>1 DEF StorageInv, NamesInv, Wired
    <3> QED
      BY <1>3, <3>1, <3>2, OthersSame
  <2>4. ASSUME ~Exempt', NEW x \in Ids, Saved(x)'
        PROVE  Wired(chain[AddressOf(x)].refs, x)'
    BY <1>1, <2>2, <2>3, <2>4 DEF Wired
  <2> QED
    BY <1>1, <2>1, <2>2, <2>4 DEF NamesInv
<1>5. RegisteredIsUsable'
  BY <1>1, OthersSame DEF StorageInv, RegisteredIsUsable
<1>6. GatekeepersInv'
  BY <1>1, OthersSame DEF StorageInv, GatekeepersInv
<1>7. PollNamesInv'
  <2>1. ASSUME NEW m \in DOMAIN named', m[1] \in AllKinds
        PROVE  m[2] < Len(Polls) /\ OfPoll(named[m].address, m[1], m[2])'
    <3>1. CASE m = name
      <4>1. m[1] = id /\ m[2] = run.pollId /\ named'[m].address = run.mine[id]
        BY <3>1, OthersSame
      <4>2. run.pollId < Len(Polls) /\ OfPoll(run.mine[id], id, run.pollId)
        BY RegisterPollRun
      <4> QED
        BY <1>1, <4>1, <4>2, OthersSame DEF OfPoll
    <3>2. CASE m # name
      <4>1. m \in DOMAIN named /\ named'[m] = named[m]
        BY <3>2, OthersSame
      <4>2. m[2] < Len(Polls) /\ OfPoll(named[m].address, m[1], m[2])
        BY <2>1, <4>1 DEF StorageInv, PollNamesInv
      <4> QED
        BY <1>1, <4>1, <4>2, OthersSame DEF OfPoll
    <3> QED
      BY <3>1, <3>2
  <2> QED
    BY <2>1, OthersSame, RegisterPollRun DEF PollNamesInv
<1>8. PollsKnownInv'
  <2>1. Kinds' = Kinds
    BY <1>1 DEF Kinds
  <2>2. ASSUME NEW x \in 0..(Len(Polls) - 1), x \notin lost, NEW kind \in Kinds
        PROVE  PollKnown(kind, x)'
    <3>1. PollKnown(kind, x)
      BY <2>2, RegisterPollRun DEF PollsKnownInv
    <3>2. CASE <<kind, x>> \in DOMAIN named
      BY <3>2, OthersSame DEF PollKnown
    <3>3. CASE x = run.pollId /\ \E k \in Left : todo[k].do = "registerPoll" /\ todo[k].id = kind
      <4>1. PICK k \in Left : todo[k].do = "registerPoll" /\ todo[k].id = kind
        BY <3>3
      <4>2. CASE k = 1
        BY <3>3, <4>1, <4>2, OthersSame DEF PollKnown
      <4>3. CASE k # 1
        <5>1. Len(todo) \in Nat /\ k \in 1..Len(todo)
          BY <4>1, RunTyped DEF Types, Left
        <5>2. Len(todo') = Len(todo) - 1 /\ \A m \in Left' : todo'[m] = todo[m + 1]
          BY RegisterPollRun, NextItem
        <5>3. k - 1 \in Left' /\ (k - 1) + 1 = k
          BY <4>3, <5>1, <5>2 DEF Left
        <5>4. todo'[k - 1] = todo[k]
          BY <5>2, <5>3
        <5> QED
          BY <3>3, <4>1, <5>3, <5>4, RegisterPollRun DEF PollKnown
      <4> QED
        BY <4>2, <4>3
    <3> QED
      BY <3>1, <3>2, <3>3 DEF PollKnown
  <2> QED
    BY <1>1, <2>1, <2>2, OthersSame, RegisterPollRun DEF PollsKnownInv
<1> QED
  BY <1>4, <1>5, <1>6, <1>7, <1>8

\* Nothing but the mark of the instance written has changed in the run.
LEMMA RunInvSame ==
  ASSUME RunInv, UNCHANGED <<config, chain, named, skippedGatekeepers>>, run' \in Runs,
         run' = [run EXCEPT !.written = run'.written],
         run.task = "none" => run' = run
  PROVE  /\ RunInv' /\ Left' = Left /\ todo' = todo /\ run'.mine = run.mine
         /\ \A kind, id : PollKnown(kind, id)' <=> PollKnown(kind, id)
<1>1. /\ run'.task = run.task /\ run'.incremental = run.incremental /\ run'.step = run.step
      /\ run'.todo = run.todo /\ run'.pollId = run.pollId /\ run'.mine = run.mine
  BY DEF Runs
<1>2. Left' = Left /\ todo' = todo /\ Polls' = Polls /\ Kinds' = Kinds /\ Keys' = Keys
  BY <1>1 DEF Left, todo, Polls, Kinds, Keys, AddressOf
<1>3. /\ \A refs, id : Wired(refs, id)' <=> Wired(refs, id)
      /\ \A id : (Saved(id)' <=> Saved(id)) /\ AddressOf(id)' = AddressOf(id)
      /\ \A id : Needs(id)' = Needs(id)
      /\ \A a, kind, id : OfPoll(a, kind, id)' <=> OfPoll(a, kind, id)
  BY <1>1, <1>2 DEF Wired, Saved, AddressOf, Needs, MaciNeeds, OfPoll
<1>4. MineInv' <=> MineInv
  BY <1>1, <1>2 DEF MineInv, Wired, Saved, AddressOf, Needs, MaciNeeds, Addresses
<1>5. \A k : DeployItem(k)' <=> DeployItem(k)
  BY <1>1, <1>2 DEF DeployItem, Wired, Saved, AddressOf, Needs, MaciNeeds
<1>6. \A k : RegisterItem(k)' <=> RegisterItem(k)
  BY <1>1, <1>2 DEF RegisterItem, Deployed, Saved, Exempt, Needs, MaciNeeds
<1>7. \A k : (InstanceItem(k)' <=> InstanceItem(k)) /\ (KeysItem(k)' <=> KeysItem(k))
  BY <1>1, <1>2 DEF InstanceItem, KeysItem, Deployed, Saved, AddressOf
<1>8. \A k : (MaciItem(k)' <=> MaciItem(k)) /\ (RegistryItem(k)' <=> RegistryItem(k))
  BY <1>1, <1>2 DEF MaciItem, RegistryItem, AddressOf
<1>9. \A k : FullItem(k)' <=> FullItem(k)
  BY <1>1, <1>2, <1>5, <1>6, <1>7, <1>8 DEF FullItem
<1>10. FullInv' <=> FullInv
  BY <1>1, <1>2, <1>3, <1>4, <1>9 DEF FullInv
<1>11. \A k : PollItem(k)' <=> PollItem(k)
  BY <1>1, <1>2 DEF PollItem
<1>12. PollInv' <=> PollInv
  BY <1>1, <1>2, <1>3, <1>11 DEF PollInv, OfPoll, Saved, Addresses
<1>13. RunInv'
  BY <1>1, <1>10, <1>12 DEF RunInv
<1>14. \A kind, id : PollKnown(kind, id)' <=> PollKnown(kind, id)
  BY <1>1, <1>2 DEF PollKnown
<1> QED
  BY <1>1, <1>2, <1>13, <1>14

LEMMA InstanceWritten ==
  ASSUME TasksInv, registersInstance
  PROVE  TasksInv'
<1>1. Types /\ StorageInv /\ PollsKnownInv /\ RunInv
  BY DEF TasksInv
<1>2. /\ UNCHANGED <<config, chain, named, lost, skippedGatekeepers>>
      /\ instance \subseteq instance' /\ run' = [run EXCEPT !.written = TRUE]
  BY DEF registersInstance, history
<1>3. run' \in Runs /\ run' = [run EXCEPT !.written = run'.written]
  BY <1>1, <1>2 DEF Types, Runs
<1>4. run.task # "none"
  BY <1>1 DEF registersInstance, Registering, Doing, RunInv, Idle
<1>5. RunInv' /\ \A kind, id : PollKnown(kind, id)' <=> PollKnown(kind, id)
  BY <1>1, <1>2, <1>3, <1>4, RunInvSame
<1>6. \A id : (Saved(id)' <=> Saved(id)) /\ AddressOf(id)' = AddressOf(id) /\ Needs(id)' = Needs(id)
  BY <1>2, NeedsSame DEF Saved, AddressOf
<1>7. NamesInv'
  BY <1>1, <1>2, <1>6 DEF StorageInv, NamesInv, Exempt, Wired
<1>8. RefsOnChain' /\ RegisteredIsUsable' /\ GatekeepersInv' /\ PollNamesInv'
  BY <1>1, <1>2, <1>6 DEF StorageInv, RefsOnChain, Addresses, RegisteredIsUsable, GatekeepersInv,
                          PollNamesInv, OfPoll, Polls
<1>9. PollsKnownInv'
  BY <1>1, <1>2, <1>5, <1>6 DEF PollsKnownInv, Polls, Kinds
<1>10. Types'
  BY <1>1, <1>2, <1>3 DEF Types, Addresses
<1> QED
  BY <1>5, <1>7, <1>8, <1>9, <1>10 DEF TasksInv, StorageInv

LEMMA NameStep ==
  ASSUME TasksInv, WrittenInv, registersName
  PROVE  TasksInv'
<1>1. Types /\ RunInv /\ StorageInv /\ PollsKnownInv
  BY DEF TasksInv
<1>2. RefsOnChain'
  BY <1>1 DEF registersName, StorageInv, RefsOnChain, Addresses
<1>3. CASE Doing("register")
  <2>1. Types'
    BY <1>1, <1>3, RegisterRun, NameWritten
  <2>2. NamesInv' /\ RegisteredIsUsable' /\ GatekeepersInv' /\ PollNamesInv' /\ PollsKnownInv'
    BY <1>1, <1>3, NamesGrow, UsableGrow, GatekeepersGrow, PollsKept DEF StorageInv
  <2>3. RunInv'
    BY <1>1, <1>3, FullGoesOn, RegisterRun DEF RunInv
  <2> QED
    BY <1>2, <2>1, <2>2, <2>3 DEF TasksInv, StorageInv
<1>4. CASE Doing("registerPoll")
  <2>1. Types'
    BY <1>1, <1>4, RegisterPollRun, NameWritten
  <2>2. NamesInv' /\ RegisteredIsUsable' /\ GatekeepersInv' /\ PollNamesInv' /\ PollsKnownInv'
    BY <1>1, <1>4, PollStorage
  <2>3. RunInv'
    BY <1>1, <1>4, PollGoesOn, RegisterPollRun DEF RunInv
  <2> QED
    BY <1>2, <2>1, <2>2, <2>3 DEF TasksInv, StorageInv
<1> QED
  BY <1>3, <1>4 DEF registersName, Registering

-----------------------------------------------------------------------------
(***************************************************************************)
(* A step of deploy-full begins.                                           *)
(***************************************************************************)
\* An item deploys this contract.
Deploys(it, id) == it.do = "deploy" /\ it.id = id
Earlier(s, k, id) == \E j \in 1..(k - 1) : Deploys(s[j], id)

NoDependents(id) == ~Exempt => \A other \in Ids : Saved(other) => id \notin Needs(other)

\* s[k] is as an item of step i should be when the step begins.
FreshItem(s, k, i) ==
  /\ s[k].do \in {"deploy", "register", "setMaciInstance", "setKeys", "throw"}
  /\ s[k].do = "deploy" =>
       /\ Turn(s[k].id) = i /\ Wired(s[k].refs, s[k].id)
       /\ s[k].id \in {"MACI", "VkRegistry"} => k = 1
  /\ s[k].do = "register" =>
       /\ Turn(s[k].id) = i /\ Earlier(s, k, s[k].id) /\ NoDependents(s[k].id)
       /\ s[k].id \in {"MACI", "VkRegistry"} => k = Len(s) /\ ~Saved(s[k].id)
       /\ (s[k].id = "MACI" /\ config.gatekeeper = "EASGatekeeper") =>
            \E j \in 1..(k - 1) : s[j].do = "setMaciInstance"
       /\ s[k].id = "VkRegistry" =>
            \A key \in Keys : \E j \in 1..(k - 1) : s[j].do = "setKeys" /\ s[j].id = key
  /\ s[k].do = "setMaciInstance" =>
       /\ i = 10 /\ ~Saved("MACI") /\ Earlier(s, k, "MACI")
       /\ config.gatekeeper = "EASGatekeeper"
       /\ Saved("EASGatekeeper") /\ s[k].id = AddressOf("EASGatekeeper")
  /\ s[k].do = "setKeys" =>
       /\ i = 11 /\ ~Saved("VkRegistry") /\ Earlier(s, k, "VkRegistry")
       /\ s[k].id \in Keys

Fresh(s, i) == s \in Seq(Items) /\ \A k \in 1..Len(s) : FreshItem(s, k, i)

LEMMA FreshIsFull ==
  ASSUME UNCHANGED <<config, chain, storage>>, skippedGatekeepers => skippedGatekeepers',
         Fresh(todo', run'.step), NEW k \in Left'
  PROVE  FullItem(k)'
<1>1. \A x : (Saved(x)' <=> Saved(x)) /\ AddressOf(x)' = AddressOf(x) /\ Needs(x)' = Needs(x)
  BY NeedsSame DEF Saved, AddressOf, storage
<1>2. FreshItem(todo', k, run'.step) /\ k \in 1..Len(todo')
  BY DEF Fresh, Left
<1>3. Keys' = Keys
  BY DEF Keys
<1>4. todo'[k].do \in {"deploy", "register", "setMaciInstance", "setKeys", "throw"}
  BY <1>2 DEF FreshItem
<1>5. DeployItem(k)'
  BY <1>1, <1>2 DEF FreshItem, DeployItem, Wired
<1>6. RegisterItem(k)'
  <2>1. todo'[k].do = "register" =>
          /\ Turn(todo'[k].id) = run'.step /\ Earlier(todo', k, todo'[k].id) /\ NoDependents(todo'[k].id)
          /\ todo'[k].id \in {"MACI", "VkRegistry"} => k = Len(todo') /\ ~Saved(todo'[k].id)
    BY <1>2 DEF FreshItem
  <2>2. ~Exempt' => ~Exempt
    BY DEF Exempt
  <2>3. todo'[k].do = "register" => Deployed(todo[k].id, k)'
    BY <2>1 DEF Earlier, Deploys, Deployed
  <2>4. ~Saved(todo'[k].id) => ~Saved(todo[k].id)'
    BY DEF Saved, storage
  <2> QED
    BY <1>1, <2>1, <2>2, <2>3, <2>4 DEF RegisterItem, NoDependents
<1>7. InstanceItem(k)'
  <2>1. Earlier(todo', k, "MACI") => Deployed("MACI", k)'
    BY DEF Earlier, Deploys, Deployed
  <2> QED
    BY <1>1, <1>2, <2>1 DEF FreshItem, InstanceItem, Turn, Gatekeepers, Poseidons
<1>8. KeysItem(k)'
  <2>1. Earlier(todo', k, "VkRegistry") => Deployed("VkRegistry", k)'
    BY DEF Earlier, Deploys, Deployed
  <2> QED
    BY <1>1, <1>2, <1>3, <2>1 DEF FreshItem, KeysItem, Turn, Gatekeepers, Poseidons
<1>9. MaciItem(k)' /\ RegistryItem(k)'
  BY <1>2, <1>3 DEF FreshItem, MaciItem, RegistryItem
<1> QED
  BY <1>4, <1>5, <1>6, <1>7, <1>8, <1>9 DEF FullItem

LEMMA DeployFresh ==
  ASSUME Types, NEW id \in Ids, \A need \in Needs(id) : Saved(need)
  PROVE  LET it == deploy(id, Needs(id))
         IN  it \in Items /\ it.do = "deploy" /\ it.id = id /\ Wired(it.refs, id)
<1> DEFINE refs == [need \in Needs(id) |-> AddressOf(need)]
<1>1. Needs(id) \subseteq AllIds
  BY NeedsBefore DEF Types, AllIds
<1>2. \A need \in Needs(id) : AddressOf(need) \in Nat
  BY SavedTyped DEF Addresses, Types
<1>3. refs \in References
  BY <1>1, <1>2, ReferencesTyped
<1>4. Wired(refs, id)
  BY DEF Wired
<1>5. deploy(id, Needs(id)) = [do |-> "deploy", id |-> id, refs |-> refs]
  BY DEF deploy
<1> HIDE DEF refs
<1> QED
  BY <1>3, <1>4, <1>5 DEF Items

LEMMA RegisterFresh ==
  ASSUME NEW id \in Ids
  PROVE  register(id) \in Items /\ register(id).do = "register" /\ register(id).id = id
  BY DEF register, Items

LEMMA ThrowFresh ==
  ASSUME NEW i
  PROVE  Fresh(Throw, i) /\ Fresh(<< >>, i)
<1>1. Throw \in Seq(Items) /\ Len(Throw) = 1 /\ Throw[1].do = "throw"
  BY DEF Throw, Items
<1>2. << >> \in Seq(Items) /\ 1..Len(<< >>) = {}
  OBVIOUS
<1> QED
  BY <1>1, <1>2 DEF Fresh, FreshItem

LEMMA SomeUnsaved ==
  ASSUME FullInv, run.step \in Nat, NEW ids \in SUBSET Ids, ids # {}, ~Skippable(ids),
         \A id \in ids : Turn(id) = run.step + 1
  PROVE  \E id \in ids : ~Saved(id)
<1>1. CASE ~run.incremental
  BY <1>1 DEF FullInv
<1>2. CASE run.incremental
  BY <1>2 DEF Skippable
<1> QED
  BY <1>1, <1>2

\* What contracts are built with a contract.
LEMMA NeededBy ==
  ASSUME config \in Configs, NEW id, NEW other \in Ids, id \in Needs(other)
  PROVE  /\ id \in Poseidons => Poseidons \subseteq Needs(other)
         /\ id \in Gatekeepers => other = "MACI" /\ id = config.gatekeeper
         /\ id \notin {"MACI", "VkRegistry"}
  BY ConfigTyped DEF Needs, MaciNeeds, Poseidons, Factories, Gatekeepers

LEMMA NeedsSaved ==
  ASSUME NamesInv, ~Exempt, NEW other \in Ids, Saved(other)
  PROVE  \A need \in Needs(other) : Saved(need)
  BY DEF NamesInv, Wired

LEMMA PairFresh ==
  ASSUME Types, NEW id \in Ids, id \notin {"MACI", "VkRegistry"}, \A need \in Needs(id) : Saved(need),
         NoDependents(id)
  PROVE  Fresh(<<deploy(id, Needs(id)), register(id)>>, Turn(id))
<1> DEFINE d == deploy(id, Needs(id))
           r == register(id)
           s == <<d, r>>
<1>1. /\ d \in Items /\ d.do = "deploy" /\ d.id = id /\ Wired(d.refs, id)
      /\ r \in Items /\ r.do = "register" /\ r.id = id
  BY DeployFresh, RegisterFresh
<1> HIDE DEF d, r
<1>2. s \in Seq(Items) /\ Len(s) = 2 /\ s[1] = d /\ s[2] = r
  BY <1>1
<1> HIDE DEF s
<1>3. FreshItem(s, 1, Turn(id))
  BY <1>1, <1>2 DEF FreshItem
<1>4. Earlier(s, 2, id)
  BY <1>1, <1>2 DEF Earlier, Deploys
<1>5. FreshItem(s, 2, Turn(id))
  BY <1>1, <1>2, <1>4 DEF FreshItem
<1>6. \A k \in 1..Len(s) : k = 1 \/ k = 2
  BY <1>2
<1>7. Fresh(s, Turn(id))
  BY <1>2, <1>3, <1>5, <1>6 DEF Fresh
<1> QED
  BY <1>7 DEF s, d, r

LEMMA SimpleFresh ==
  ASSUME Types, NamesInv, FullInv, NEW id \in Ids, id \notin {"MACI", "VkRegistry"},
         Turn(id) = run.step + 1
  PROVE  Fresh(SimpleStep(id, Needs(id)), run.step + 1)
<1>1. CASE Skippable({id})
  BY <1>1, ThrowFresh DEF SimpleStep
<1>2. CASE ~Skippable({id}) /\ \A need \in Needs(id) : Saved(need)
  <2>1. run.step \in Nat
    BY RunTyped DEF Types
  <2>2. ~Saved(id)
    BY <1>2, <2>1, SomeUnsaved
  <2>3. NoDependents(id)
    BY <2>2, NeedsSaved DEF NoDependents
  <2>4. Fresh(<<deploy(id, Needs(id)), register(id)>>, Turn(id))
    BY <1>2, <2>3, PairFresh
  <2> QED
    BY <1>2, <2>4 DEF SimpleStep, Needing
<1>3. CASE ~Skippable({id}) /\ ~\A need \in Needs(id) : Saved(need)
  BY <1>3, ThrowFresh DEF SimpleStep, Needing
<1> QED
  BY <1>1, <1>2, <1>3

LEMMA PoseidonFresh ==
  ASSUME Types, NamesInv, FullInv, run.step = 4
  PROVE  Fresh(PoseidonStep, 5)
<1> DEFINE s == PoseidonStep
<1>1. CASE Skippable(Poseidons)
  BY <1>1, ThrowFresh DEF PoseidonStep
<1>2. CASE ~Skippable(Poseidons)
  <2>1. \A id \in Poseidons : id \in Ids /\ Turn(id) = 5 /\ Needs(id) = {} /\ id \notin {"MACI", "VkRegistry"}
    BY DEF Ids, Turn, Needs, Poseidons, Factories, Gatekeepers
  <2>2. \E id \in Poseidons : ~Saved(id)
    <3>1. Poseidons # {} /\ Poseidons \in SUBSET Ids
      BY <2>1 DEF Poseidons
    <3> QED
      BY <1>2, <2>1, <3>1, SomeUnsaved
  <2>3. \A id \in Poseidons : NoDependents(id)
    BY <2>2, NeedsSaved, NeededBy DEF NoDependents, Types
  <2>4. \A id \in Poseidons :
          /\ deploy(id, {}) \in Items /\ deploy(id, {}).do = "deploy" /\ deploy(id, {}).id = id
          /\ Wired(deploy(id, {}).refs, id)
          /\ register(id) \in Items /\ register(id).do = "register" /\ register(id).id = id
    <3>1. ASSUME NEW id \in Poseidons
          PROVE  /\ deploy(id, {}) \in Items /\ deploy(id, {}).do = "deploy" /\ deploy(id, {}).id = id
                 /\ Wired(deploy(id, {}).refs, id)
                 /\ register(id) \in Items /\ register(id).do = "register" /\ register(id).id = id
      <4>1. id \in Ids /\ Needs(id) = {}
        BY <2>1
      <4> QED
        BY <4>1, DeployFresh, RegisterFresh
    <3> QED
      BY <3>1
  <2>5. /\ "PoseidonT3" \in Poseidons /\ "PoseidonT4" \in Poseidons
        /\ "PoseidonT5" \in Poseidons /\ "PoseidonT6" \in Poseidons
    BY DEF Poseidons
  <2> DEFINE d3 == deploy("PoseidonT3", {})
             d4 == deploy("PoseidonT4", {})
             d5 == deploy("PoseidonT5", {})
             d6 == deploy("PoseidonT6", {})
             r3 == register("PoseidonT3")
             r4 == register("PoseidonT4")
             r5 == register("PoseidonT5")
             r6 == register("PoseidonT6")
  <2>6. s = <<d3, d4, d5, d6, r3, r4, r5, r6>>
    BY <1>2 DEF PoseidonStep
  <2>7. /\ d3 \in Items /\ d4 \in Items /\ d5 \in Items /\ d6 \in Items
        /\ r3 \in Items /\ r4 \in Items /\ r5 \in Items /\ r6 \in Items
    BY <2>4, <2>5
  <2>8. /\ Deploys(d3, "PoseidonT3") /\ Deploys(d4, "PoseidonT4")
        /\ Deploys(d5, "PoseidonT5") /\ Deploys(d6, "PoseidonT6")
    BY <2>4, <2>5 DEF Deploys
  <2>9. /\ Wired(d3.refs, "PoseidonT3") /\ Wired(d4.refs, "PoseidonT4")
        /\ Wired(d5.refs, "PoseidonT5") /\ Wired(d6.refs, "PoseidonT6")
    BY <2>4, <2>5
  <2>10. /\ r3.do = "register" /\ r4.do = "register" /\ r5.do = "register" /\ r6.do = "register"
         /\ r3.id = "PoseidonT3" /\ r4.id = "PoseidonT4" /\ r5.id = "PoseidonT5" /\ r6.id = "PoseidonT6"
    BY <2>4, <2>5
  <2> HIDE DEF d3, d4, d5, d6, r3, r4, r5, r6, s
  <2>11. /\ s \in Seq(Items) /\ Len(s) = 8
         /\ s[1] = d3 /\ s[2] = d4 /\ s[3] = d5 /\ s[4] = d6
         /\ s[5] = r3 /\ s[6] = r4 /\ s[7] = r5 /\ s[8] = r6
    BY <2>6, <2>7
  <2>12. FreshItem(s, 1, 5) /\ FreshItem(s, 2, 5) /\ FreshItem(s, 3, 5) /\ FreshItem(s, 4, 5)
    BY <2>1, <2>5, <2>8, <2>9, <2>11 DEF FreshItem, Deploys
  <2>13. /\ Earlier(s, 5, "PoseidonT3") /\ Earlier(s, 6, "PoseidonT4")
         /\ Earlier(s, 7, "PoseidonT5") /\ Earlier(s, 8, "PoseidonT6")
    BY <2>8, <2>11 DEF Earlier
  <2>14. FreshItem(s, 5, 5) /\ FreshItem(s, 6, 5) /\ FreshItem(s, 7, 5) /\ FreshItem(s, 8, 5)
    BY <2>1, <2>3, <2>5, <2>10, <2>11, <2>13 DEF FreshItem
  <2>15. \A k \in 1..Len(s) : k = 1 \/ k = 2 \/ k = 3 \/ k = 4 \/ k = 5 \/ k = 6 \/ k = 7 \/ k = 8
    BY <2>11
  <2>16. Fresh(s, 5)
    BY <2>11, <2>12, <2>14, <2>15 DEF Fresh
  <2> QED
    BY <2>16 DEF s
<1> QED
  BY <1>1, <1>2

LEMMA TwoGatekeepers ==
  ASSUME NEW S \in SUBSET Gatekeepers, NEW g \in S, NEW h \in S, g # h
  PROVE  Cardinality(S) > 1
<1>1. S = {g} \cup {h}
  BY DEF Gatekeepers
<1>2. IsFiniteSet({g}) /\ Cardinality({g}) = 1
  BY FS_Singleton
<1>3. Cardinality({g} \cup {h}) = 2
  BY <1>2, FS_AddElement
<1> QED
  BY <1>1, <1>3

LEMMA GatekeepersAlone ==
  ASSUME Types, NamesInv, GatekeepersInv, FullInv, run.step = 1, ~canSkipDeploy,
         NEW id \in config.gatekeepers
  PROVE  /\ id \in Ids /\ Turn(id) = 2 /\ Needs(id) = {} /\ id \notin {"MACI", "VkRegistry"}
         /\ NoDependents(id)
<1>1. \A g \in config.gatekeepers : /\ g \in Gatekeepers /\ g \in Ids /\ Turn(g) = 2 /\ Needs(g) = {}
                                    /\ g \notin {"MACI", "VkRegistry"}
  BY ConfigTyped DEF Types, Ids, Turn, Needs, Poseidons, Factories, Gatekeepers
<1>2. PICK g \in config.gatekeepers : ~Saved(g)
  <2>1. config.gatekeepers # {} /\ config.gatekeepers \in SUBSET Ids
    BY <1>1
  <2>2. ~Skippable(config.gatekeepers)
    BY <2>1 DEF canSkipDeploy
  <2> QED
    BY <1>1, <2>1, <2>2, SomeUnsaved
<1>3. NoDependents(id)
  <2> SUFFICES ASSUME ~Exempt, NEW other \in Ids, Saved(other), id \in Needs(other)
               PROVE  FALSE
    BY DEF NoDependents
  <2>1. other = "MACI"
    BY <1>1, NeededBy DEF Types
  <2>2. skippedGatekeepers
    BY <1>2, <2>1 DEF GatekeepersInv
  <2>3. g = id
    BY <1>1, <2>2, TwoGatekeepers DEF Exempt
  <2> QED
    BY <1>2, <2>3, NeedsSaved
<1> QED
  BY <1>1, <1>3

LEMMA FourFresh ==
  ASSUME NEW a \in Items, NEW b \in Items, NEW c \in Items, NEW d \in Items, NEW i,
         Fresh(<<a, b>>, i), Fresh(<<c, d>>, i),
         \A it \in {a, b, c, d} : it.do \in {"deploy", "register"} /\ it.id \notin {"MACI", "VkRegistry"}
  PROVE  Fresh(<<a, b>> \o <<c, d>>, i)
<1> DEFINE s == <<a, b>>
           t == <<c, d>>
           u == s \o t
<1>1. /\ Len(s) = 2 /\ s[1] = a /\ s[2] = b
      /\ Len(t) = 2 /\ t[1] = c /\ t[2] = d
      /\ u \in Seq(Items) /\ Len(u) = 4 /\ u[1] = a /\ u[2] = b /\ u[3] = c /\ u[4] = d
  OBVIOUS
<1>2. /\ FreshItem(s, 1, i) /\ FreshItem(s, 2, i)
      /\ FreshItem(t, 1, i) /\ FreshItem(t, 2, i)
  BY <1>1 DEF Fresh
<1> HIDE DEF s, t, u
<1>3. FreshItem(u, 1, i) /\ FreshItem(u, 3, i)
  <2>1. \A id : ~Earlier(s, 1, id) /\ ~Earlier(t, 1, id)
    BY DEF Earlier
  <2> QED
    BY <1>1, <1>2, <2>1 DEF FreshItem
<1>4. FreshItem(u, 2, i)
  <2>1. \A id : Earlier(s, 2, id) => Earlier(u, 2, id)
    BY <1>1 DEF Earlier
  <2> QED
    BY <1>1, <1>2, <2>1 DEF FreshItem
<1>5. FreshItem(u, 4, i)
  <2>1. \A id : Earlier(t, 2, id) => Earlier(u, 4, id)
    BY <1>1 DEF Earlier
  <2> QED
    BY <1>1, <1>2, <2>1 DEF FreshItem
<1>6. \A k \in 1..Len(u) : k = 1 \/ k = 2 \/ k = 3 \/ k = 4
  BY <1>1
<1>7. Fresh(u, i)
  BY <1>1, <1>3, <1>4, <1>5, <1>6 DEF Fresh
<1> QED
  BY <1>7 DEF u, s, t

\* Every gatekeeper of the configuration is registered or will be.
LEMMA GatekeepersFresh ==
  ASSUME Types, NamesInv, GatekeepersInv, FullInv, run.step = 1
  PROVE  /\ Fresh(GatekeepersStep, 2)
         /\ \A g \in config.gatekeepers :
              Saved(g) \/ \E k \in 1..Len(GatekeepersStep) :
                            GatekeepersStep[k].do = "register" /\ GatekeepersStep[k].id = g
<1>1. CASE canSkipDeploy
  BY <1>1, ThrowFresh DEF GatekeepersStep, canSkipDeploy, Skippable
<1>2. CASE ~canSkipDeploy
  <2> DEFINE s == GatekeepersStep
             f == "FreeForAllGatekeeper"
             e == "EASGatekeeper"
             df == deploy(f, {})
             rf == register(f)
             de == deploy(e, {})
             re == register(e)
  <2>1. ASSUME NEW g \in config.gatekeepers
        PROVE  /\ deploy(g, {}) \in Items /\ register(g) \in Items
               /\ deploy(g, {}).do = "deploy" /\ deploy(g, {}).id = g
               /\ register(g).do = "register" /\ register(g).id = g
               /\ g \notin {"MACI", "VkRegistry"}
               /\ Fresh(<<deploy(g, {}), register(g)>>, 2)
    <3>1. /\ g \in Ids /\ Turn(g) = 2 /\ Needs(g) = {} /\ g \notin {"MACI", "VkRegistry"}
          /\ NoDependents(g)
      BY <1>2, GatekeepersAlone
    <3> QED
      BY <3>1, PairFresh, DeployFresh, RegisterFresh
  <2>2. config.gatekeepers \subseteq {f, e}
    BY ConfigTyped DEF Types, Gatekeepers
  <2>3. s = (IF f \in config.gatekeepers THEN <<df, rf>> ELSE << >>)
              \o (IF e \in config.gatekeepers THEN <<de, re>> ELSE << >>)
    BY <1>2 DEF GatekeepersStep
  <2> HIDE DEF s, df, rf, de, re
  <2>4. CASE f \in config.gatekeepers /\ e \in config.gatekeepers
    <3>1. s = <<df, rf>> \o <<de, re>> /\ df \in Items /\ rf \in Items /\ de \in Items /\ re \in Items
      BY <2>1, <2>3, <2>4 DEF df, rf, de, re
    <3>2. Fresh(s, 2)
      <4>1. Fresh(<<df, rf>>, 2) /\ Fresh(<<de, re>>, 2)
        BY <2>1, <2>4 DEF df, rf, de, re
      <4>2. \A it \in {df, rf, de, re} : it.do \in {"deploy", "register"} /\ it.id \notin {"MACI", "VkRegistry"}
        <5>1. /\ df.do = "deploy" /\ df.id = f /\ rf.do = "register" /\ rf.id = f
              /\ de.do = "deploy" /\ de.id = e /\ re.do = "register" /\ re.id = e
          BY <2>1, <2>4 DEF df, rf, de, re
        <5> QED
          BY <5>1
      <4> QED
        BY <3>1, <4>1, <4>2, FourFresh
    <3>3. Len(s) = 4 /\ s[2] = rf /\ s[4] = re
      BY <3>1
    <3>4. rf.do = "register" /\ rf.id = f /\ re.do = "register" /\ re.id = e
      BY <2>1, <2>4 DEF rf, re
    <3> QED
      BY <2>2, <3>2, <3>3, <3>4 DEF s
  <2>5. CASE f \in config.gatekeepers /\ e \notin config.gatekeepers
    <3>1. s = <<df, rf>> /\ df \in Items /\ rf \in Items
      BY <2>1, <2>3, <2>5 DEF df, rf
    <3>2. Fresh(s, 2) /\ rf.do = "register" /\ rf.id = f
      BY <2>1, <2>5, <3>1 DEF df, rf
    <3>3. Len(s) = 2 /\ s[2] = rf
      BY <3>1
    <3> QED
      BY <2>2, <2>5, <3>2, <3>3 DEF s
  <2>6. CASE f \notin config.gatekeepers /\ e \in config.gatekeepers
    <3>1. s = <<de, re>> /\ de \in Items /\ re \in Items
      BY <2>1, <2>3, <2>6 DEF de, re
    <3>2. Fresh(s, 2) /\ re.do = "register" /\ re.id = e
      BY <2>1, <2>6, <3>1 DEF de, re
    <3>3. Len(s) = 2 /\ s[2] = re
      BY <3>1
    <3> QED
      BY <2>2, <2>6, <3>2, <3>3 DEF s
  <2>7. CASE f \notin config.gatekeepers /\ e \notin config.gatekeepers
    <3>1. s = << >>
      BY <2>3, <2>7
    <3> QED
      BY <2>2, <2>7, <3>1, ThrowFresh DEF s
  <2> QED
    BY <2>4, <2>5, <2>6, <2>7
<1> QED
  BY <1>1, <1>2

LEMMA LastFresh ==
  ASSUME Types, FullInv, NEW id \in {"MACI", "VkRegistry"}, Turn(id) = run.step + 1,
         ~Skippable({id}), \A need \in Needs(id) : Saved(need)
  PROVE  /\ id \in Ids /\ ~Saved(id) /\ NoDependents(id)
         /\ deploy(id, Needs(id)) \in Items
         /\ Deploys(deploy(id, Needs(id)), id) /\ Wired(deploy(id, Needs(id)).refs, id)
         /\ register(id) \in Items /\ register(id).do = "register" /\ register(id).id = id
<1>1. id \in Ids /\ run.step \in Nat
  BY RunTyped DEF Types, Ids
<1>2. ~Saved(id)
  BY <1>1, SomeUnsaved
<1>3. NoDependents(id)
  BY NeededBy DEF Types, NoDependents
<1> QED
  BY <1>1, <1>2, <1>3, DeployFresh, RegisterFresh DEF Deploys

LEMMA ThreeItems ==
  ASSUME NEW a \in Items, NEW b \in Items, NEW c \in Items
  PROVE  LET s == <<a>> \o <<b>> \o <<c>>
         IN  s \in Seq(Items) /\ Len(s) = 3 /\ s[1] = a /\ s[2] = b /\ s[3] = c
  OBVIOUS

LEMMA FourItems ==
  ASSUME NEW a \in Items, NEW b \in Items, NEW c \in Items, NEW d \in Items
  PROVE  LET s == <<a>> \o <<b>> \o <<c>> \o <<d>>
         IN  s \in Seq(Items) /\ Len(s) = 4 /\ s[1] = a /\ s[2] = b /\ s[3] = c /\ s[4] = d
  OBVIOUS

LEMMA ThreeOfFour ==
  ASSUME NEW a \in Items, NEW b \in Items, NEW c \in Items
  PROVE  LET s == <<a>> \o <<b>> \o << >> \o <<c>>
         IN  s \in Seq(Items) /\ Len(s) = 3 /\ s[1] = a /\ s[2] = b /\ s[3] = c
  OBVIOUS

LEMMA MaciFresh ==
  ASSUME Types, NamesInv, FullInv, run.step = 9
  PROVE  Fresh(MaciStep, 10)
<1>1. CASE Skippable({"MACI"})
  BY <1>1, ThrowFresh DEF MaciStep
<1>2. CASE ~Skippable({"MACI"}) /\ ~\A need \in MaciNeeds : Saved(need)
  BY <1>2, ThrowFresh DEF MaciStep, Needing
<1>3. CASE ~Skippable({"MACI"}) /\ \A need \in MaciNeeds : Saved(need)
  <2> DEFINE d == deploy("MACI", MaciNeeds)
             r == register("MACI")
             m == [do |-> "setMaciInstance", id |-> AddressOf(config.gatekeeper)]
             s == MaciStep
  <2>1. Needs("MACI") = MaciNeeds /\ Turn("MACI") = 10
    BY DEF Needs, Factories, Turn, Poseidons, Gatekeepers
  <2>2. /\ ~Saved("MACI") /\ NoDependents("MACI")
        /\ d \in Items /\ Deploys(d, "MACI") /\ Wired(d.refs, "MACI")
        /\ r \in Items /\ r.do = "register" /\ r.id = "MACI"
    BY <1>3, <2>1, LastFresh
  <2>3. Saved(config.gatekeeper) /\ AddressOf(config.gatekeeper) \in Nat
    <3>1. Saved(config.gatekeeper)
      BY <1>3 DEF MaciNeeds
    <3> QED
      BY <3>1, SavedTyped DEF Addresses
  <2>4. m \in Items /\ m.do = "setMaciInstance" /\ m.id = AddressOf(config.gatekeeper)
    BY <2>3 DEF Items
  <2>5. s = <<d>> \o (IF config.gatekeeper = "EASGatekeeper" THEN <<m>> ELSE << >>) \o <<r>>
    BY <1>3 DEF MaciStep, Needing, setMaciInstance
  <2> HIDE DEF d, r, m, s
  <2>6. CASE config.gatekeeper = "EASGatekeeper"
    <3>1. s = <<d>> \o <<m>> \o <<r>>
      BY <2>5, <2>6
    <3>2. s \in Seq(Items) /\ Len(s) = 3 /\ s[1] = d /\ s[2] = m /\ s[3] = r
      <4>1. d \in Items /\ m \in Items /\ r \in Items
        BY <2>2, <2>4
      <4>2. s \in Seq(Items)
        BY <3>1, <4>1, ThreeItems
      <4>3. Len(s) = 3
        BY <3>1, <4>1, ThreeItems
      <4>4. s[1] = d
        <5>1. (<<d>> \o <<m>> \o <<r>>)[1] = d
          BY <4>1
        <5> QED
          BY <3>1, <5>1
      <4>5. s[2] = m
        <5>1. (<<d>> \o <<m>> \o <<r>>)[2] = m
          BY <4>1
        <5> QED
          BY <3>1, <5>1
      <4>6. s[3] = r
        <5>1. (<<d>> \o <<m>> \o <<r>>)[3] = r
          BY <4>1
        <5> QED
          BY <3>1, <5>1
      <4> QED
        BY <4>2, <4>3, <4>4, <4>5, <4>6
    <3>3. Earlier(s, 2, "MACI") /\ Earlier(s, 3, "MACI")
      BY <2>2, <3>2 DEF Earlier
    <3>4. FreshItem(s, 1, 10)
      BY <2>1, <2>2, <3>2 DEF FreshItem, Deploys
    <3>5. FreshItem(s, 2, 10)
      BY <2>2, <2>3, <2>4, <2>6, <3>2, <3>3 DEF FreshItem
    <3>6. FreshItem(s, 3, 10)
      <4>1. 2 \in 1..(3 - 1)
        OBVIOUS
      <4> QED
        BY <2>1, <2>2, <2>4, <3>2, <3>3, <4>1 DEF FreshItem
    <3>7. \A k \in 1..Len(s) : k = 1 \/ k = 2 \/ k = 3
      BY <3>2
    <3> QED
      BY <3>2, <3>4, <3>5, <3>6, <3>7 DEF Fresh, s
  <2>7. CASE config.gatekeeper # "EASGatekeeper"
    <3>1. s = <<d>> \o << >> \o <<r>>
      BY <2>5, <2>7
    <3>2. s \in Seq(Items) /\ Len(s) = 2 /\ s[1] = d /\ s[2] = r
      BY <2>2, <3>1
    <3>3. Earlier(s, 2, "MACI")
      BY <2>2, <3>2 DEF Earlier
    <3>4. FreshItem(s, 1, 10)
      BY <2>1, <2>2, <3>2 DEF FreshItem, Deploys
    <3>5. FreshItem(s, 2, 10)
      BY <2>1, <2>2, <2>7, <3>2, <3>3 DEF FreshItem
    <3>6. \A k \in 1..Len(s) : k = 1 \/ k = 2
      BY <3>2
    <3> QED
      BY <3>2, <3>4, <3>5, <3>6 DEF Fresh, s
  <2> QED
    BY <2>6, <2>7
<1> QED
  BY <1>1, <1>2, <1>3

LEMMA VkRegistryFresh ==
  ASSUME Types, NamesInv, FullInv, run.step = 10
  PROVE  Fresh(VkRegistryStep, 11)
<1>1. CASE Skippable({"VkRegistry"})
  BY <1>1, ThrowFresh DEF VkRegistryStep
<1>2. CASE ~Skippable({"VkRegistry"})
  <2> DEFINE d == deploy("VkRegistry", {})
             r == register("VkRegistry")
             v == [do |-> "setKeys", id |-> "verifying"]
             y == [do |-> "setKeys", id |-> "subsidy"]
             s == VkRegistryStep
  <2>1. Needs("VkRegistry") = {} /\ Turn("VkRegistry") = 11
    BY DEF Needs, Factories, Turn, Poseidons, Gatekeepers
  <2>2. /\ ~Saved("VkRegistry") /\ NoDependents("VkRegistry")
        /\ d \in Items /\ Deploys(d, "VkRegistry") /\ Wired(d.refs, "VkRegistry")
        /\ r \in Items /\ r.do = "register" /\ r.id = "VkRegistry"
    BY <1>2, <2>1, LastFresh
  <2>3. /\ v \in Items /\ v.do = "setKeys" /\ v.id = "verifying"
        /\ y \in Items /\ y.do = "setKeys" /\ y.id = "subsidy"
    BY DEF Items, AllKeys
  <2>4. s = <<d>> \o <<v>> \o (IF config.subsidyKeys THEN <<y>> ELSE << >>) \o <<r>>
    BY <1>2 DEF VkRegistryStep
  <2>5. Keys = {"verifying"} \cup (IF config.subsidyKeys THEN {"subsidy"} ELSE {})
    BY DEF Keys
  <2> HIDE DEF d, r, v, y, s
  <2>6. CASE config.subsidyKeys
    <3>1. s = <<d>> \o <<v>> \o <<y>> \o <<r>>
      BY <2>4, <2>6
    <3>2. s \in Seq(Items) /\ Len(s) = 4 /\ s[1] = d /\ s[2] = v /\ s[3] = y /\ s[4] = r
      <4>1. d \in Items /\ v \in Items /\ y \in Items /\ r \in Items
        BY <2>2, <2>3
      <4>2. s \in Seq(Items)
        BY <3>1, <4>1, FourItems
      <4>3. Len(s) = 4
        BY <3>1, <4>1, FourItems
      <4>4. s[1] = d
        <5>1. (<<d>> \o <<v>> \o <<y>> \o <<r>>)[1] = d
          BY <4>1
        <5> QED
          BY <3>1, <5>1
      <4>5. s[2] = v
        <5>1. (<<d>> \o <<v>> \o <<y>> \o <<r>>)[2] = v
          BY <4>1
        <5> QED
          BY <3>1, <5>1
      <4>6. s[3] = y
        <5>1. (<<d>> \o <<v>> \o <<y>> \o <<r>>)[3] = y
          BY <4>1
        <5> QED
          BY <3>1, <5>1
      <4>7. s[4] = r
        <5>1. (<<d>> \o <<v>> \o <<y>> \o <<r>>)[4] = r
          BY <4>1
        <5> QED
          BY <3>1, <5>1
      <4> QED
        BY <4>2, <4>3, <4>4, <4>5, <4>6, <4>7
    <3>3. Earlier(s, 2, "VkRegistry") /\ Earlier(s, 3, "VkRegistry") /\ Earlier(s, 4, "VkRegistry")
      BY <2>2, <3>2 DEF Earlier
    <3>4. FreshItem(s, 1, 11)
      BY <2>1, <2>2, <3>2 DEF FreshItem, Deploys
    <3>5. FreshItem(s, 2, 11) /\ FreshItem(s, 3, 11)
      BY <2>2, <2>3, <2>5, <2>6, <3>2, <3>3 DEF FreshItem
    <3>6. FreshItem(s, 4, 11)
      <4>1. 2 \in 1..(4 - 1) /\ 3 \in 1..(4 - 1)
        OBVIOUS
      <4>2. \A key \in Keys : \E j \in 1..(4 - 1) : s[j].do = "setKeys" /\ s[j].id = key
        BY <2>3, <2>5, <3>2, <4>1
      <4> QED
        BY <2>1, <2>2, <3>2, <3>3, <4>2 DEF FreshItem
    <3>7. \A k \in 1..Len(s) : k = 1 \/ k = 2 \/ k = 3 \/ k = 4
      BY <3>2
    <3> QED
      BY <3>2, <3>4, <3>5, <3>6, <3>7 DEF Fresh, s
  <2>7. CASE ~config.subsidyKeys
    <3>1. s = <<d>> \o <<v>> \o << >> \o <<r>>
      BY <2>4, <2>7
    <3>2. s \in Seq(Items) /\ Len(s) = 3 /\ s[1] = d /\ s[2] = v /\ s[3] = r
      <4>1. d \in Items /\ v \in Items /\ r \in Items
        BY <2>2, <2>3
      <4>2. s \in Seq(Items)
        BY <3>1, <4>1, ThreeOfFour
      <4>3. Len(s) = 3
        BY <3>1, <4>1, ThreeOfFour
      <4>4. s[1] = d
        <5>1. (<<d>> \o <<v>> \o << >> \o <<r>>)[1] = d
          BY <4>1
        <5> QED
          BY <3>1, <5>1
      <4>5. s[2] = v
        <5>1. (<<d>> \o <<v>> \o << >> \o <<r>>)[2] = v
          BY <4>1
        <5> QED
          BY <3>1, <5>1
      <4>6. s[3] = r
        <5>1. (<<d>> \o <<v>> \o << >> \o <<r>>)[3] = r
          BY <4>1
        <5> QED
          BY <3>1, <5>1
      <4> QED
        BY <4>2, <4>3, <4>4, <4>5, <4>6
    <3>3. Earlier(s, 2, "VkRegistry") /\ Earlier(s, 3, "VkRegistry")
      BY <2>2, <3>2 DEF Earlier
    <3>4. FreshItem(s, 1, 11)
      BY <2>1, <2>2, <3>2 DEF FreshItem, Deploys
    <3>5. FreshItem(s, 2, 11)
      BY <2>2, <2>3, <2>5, <2>7, <3>2, <3>3 DEF FreshItem
    <3>6. FreshItem(s, 3, 11)
      <4>1. \A key \in Keys : \E j \in 1..(3 - 1) : s[j].do = "setKeys" /\ s[j].id = key
        BY <2>3, <2>5, <2>7, <3>2
      <4> QED
        BY <2>1, <2>2, <3>2, <3>3, <4>1 DEF FreshItem
    <3>7. \A k \in 1..Len(s) : k = 1 \/ k = 2 \/ k = 3
      BY <3>2
    <3> QED
      BY <3>2, <3>4, <3>5, <3>6, <3>7 DEF Fresh, s
  <2> QED
    BY <2>6, <2>7
<1> QED
  BY <1>1, <1>2

\* Every step of deploy-full.
LEMMA StepFresh ==
  ASSUME Types, NamesInv, GatekeepersInv, FullInv, NEW i \in 1..11, i = run.step + 1
  PROVE  Fresh(StepOf(Catalog("full")[i]), i)
<1>1. run.step \in Nat
  BY RunTyped DEF Types
<1>2. /\ i = 1 => StepOf(Catalog("full")[i]) = VoiceCreditsStep
      /\ i = 2 => StepOf(Catalog("full")[i]) = GatekeepersStep
      /\ i = 3 => StepOf(Catalog("full")[i]) = SimpleStep("Verifier", {})
      /\ i = 4 => StepOf(Catalog("full")[i]) = SimpleStep("TopupCredit", {})
      /\ i = 5 => StepOf(Catalog("full")[i]) = PoseidonStep
      /\ i = 6 => StepOf(Catalog("full")[i]) = SimpleStep("PollFactory", Poseidons)
      /\ i = 7 => StepOf(Catalog("full")[i]) = SimpleStep("MessageProcessorFactory", Poseidons)
      /\ i = 8 => StepOf(Catalog("full")[i]) = SimpleStep("TallyFactory", Poseidons)
      /\ i = 9 => StepOf(Catalog("full")[i]) = SimpleStep("SubsidyFactory", Poseidons)
      /\ i = 10 => StepOf(Catalog("full")[i]) = MaciStep
      /\ i = 11 => StepOf(Catalog("full")[i]) = VkRegistryStep
  BY DEF StepOf, Catalog
<1>3. \A id \in Ids \ {"MACI", "VkRegistry"} :
        Turn(id) = i => Fresh(SimpleStep(id, Needs(id)), i)
  BY SimpleFresh
<1>4. /\ Turn("ConstantInitialVoiceCreditProxy") = 1 /\ Needs("ConstantInitialVoiceCreditProxy") = {}
      /\ Turn("Verifier") = 3 /\ Needs("Verifier") = {}
      /\ Turn("TopupCredit") = 4 /\ Needs("TopupCredit") = {}
  BY DEF Turn, Needs, Poseidons, Factories, Gatekeepers
<1>5. /\ Turn("PollFactory") = 6 /\ Needs("PollFactory") = Poseidons
      /\ Turn("MessageProcessorFactory") = 7 /\ Needs("MessageProcessorFactory") = Poseidons
      /\ Turn("TallyFactory") = 8 /\ Needs("TallyFactory") = Poseidons
      /\ Turn("SubsidyFactory") = 9 /\ Needs("SubsidyFactory") = Poseidons
  BY DEF Turn, Needs, Poseidons, Factories, Gatekeepers
<1>6. {"ConstantInitialVoiceCreditProxy", "Verifier", "TopupCredit", "PollFactory",
       "MessageProcessorFactory", "TallyFactory", "SubsidyFactory"} \subseteq Ids \ {"MACI", "VkRegistry"}
  BY DEF Ids, Factories
<1>13. CASE i = 1
  <2>1. Fresh(SimpleStep("ConstantInitialVoiceCreditProxy", {}), i)
    BY <1>3, <1>4, <1>6, <1>13
  <2> QED
    BY <1>2, <1>13, <2>1, ThrowFresh DEF VoiceCreditsStep
<1>7. CASE i \in {3, 4}
  BY <1>2, <1>3, <1>4, <1>6, <1>7
<1>8. CASE i \in {6, 7, 8, 9}
  BY <1>2, <1>3, <1>5, <1>6, <1>8
<1>9. CASE i = 2
  BY <1>1, <1>2, <1>9, GatekeepersFresh
<1>10. CASE i = 5
  BY <1>1, <1>2, <1>10, PoseidonFresh
<1>11. CASE i = 10
  BY <1>1, <1>2, <1>11, MaciFresh
<1>12. CASE i = 11
  BY <1>1, <1>2, <1>12, VkRegistryFresh
<1> QED
  BY <1>7, <1>8, <1>9, <1>10, <1>11, <1>12, <1>13

LEMMA BegunTyped ==
  ASSUME run \in Runs, NEW i \in Nat, NEW s \in Seq(Items), NEW q \in Nat, NEW mine \in References,
         run' = [run EXCEPT !.step = i, !.todo = s, !.pollId = q, !.mine = mine]
  PROVE  /\ run' \in Runs /\ todo' = s /\ run'.mine = mine
         /\ run'.task = run.task /\ run'.incremental = run.incremental
         /\ run'.step = i /\ run'.pollId = q
  BY DEF Runs, todo

LEMMA BegunRun ==
  ASSUME Types, runStep, NEW s \in Seq(Items),
         s = IF run.step + 1 <= run.skip THEN << >> ELSE StepOf(Catalog(run.task)[run.step + 1])
  PROVE  /\ run' \in Runs /\ todo' = s /\ run'.mine = << >>
         /\ run'.task = run.task /\ run'.incremental = run.incremental
         /\ run'.step = run.step + 1
         /\ run'.pollId = IF run.task = "poll" /\ Saved("MACI") THEN Len(Polls) ELSE 0
<1> DEFINE p == IF run.task = "poll" /\ Saved("MACI") THEN Len(Polls) ELSE 0
<1>1. run' = [run EXCEPT !.step = run.step + 1, !.todo = s, !.pollId = p, !.mine = << >>]
  BY DEF runStep, pollId, Polls
<1>2. p \in Nat
  BY PollsTyped
<1> HIDE DEF p
<1>3. run \in Runs /\ << >> \in References
  BY NothingYet DEF Types
<1>5. run.step + 1 \in Nat
  BY RunTyped DEF Types
<1>6. run' \in Runs /\ todo' = s /\ run'.mine = << >>
      /\ run'.task = run.task /\ run'.incremental = run.incremental
      /\ run'.step = run.step + 1 /\ run'.pollId = p
  BY <1>1, <1>2, <1>3, <1>5, BegunTyped
<1> QED
  BY <1>6 DEF p

LEMMA Beginning ==
  ASSUME Types, RunInv, runStep
  PROVE  /\ todo = << >> /\ Left = {} /\ run.step \in Nat
         /\ UNCHANGED <<config, chain, storage, lost>>
         /\ skippedGatekeepers => skippedGatekeepers'
         /\ skippedGatekeepers' \in BOOLEAN
         /\ \/ run.task = "full" /\ FullInv /\ run.step + 1 \in 1..11
            \/ run.task = "poll" /\ PollInv /\ run.step + 1 = 1
<1>1. todo = << >> /\ run # Idle /\ run.step + 1 <= Len(Catalog(run.task))
  BY DEF runStep, todo
<1>2. run.task \in {"none", "full", "poll"} /\ run.step \in Nat
  BY RunTyped DEF Types
<1>3. Left = {}
  BY <1>1 DEF Left
<1>4. /\ run.task = "full" => FullInv /\ Len(Catalog(run.task)) = 11
      /\ run.task = "poll" => PollInv /\ Len(Catalog(run.task)) = 1
      /\ run.task # "none"
  BY <1>1, <1>2 DEF RunInv, Catalog
<1>5. \/ run.task = "full" /\ FullInv /\ run.step + 1 \in 1..11
      \/ run.task = "poll" /\ PollInv /\ run.step + 1 = 1
  <2>1. CASE run.task = "full"
    <3>1. FullInv /\ run.step + 1 <= 11
      BY <1>1, <1>4, <2>1
    <3> QED
      BY <1>2, <2>1, <3>1
  <2>2. CASE run.task = "poll"
    <3>1. PollInv /\ run.step + 1 <= 1
      BY <1>1, <1>4, <2>2
    <3> QED
      BY <1>2, <2>2, <3>1
  <2> QED
    BY <1>2, <1>4, <2>1, <2>2
<1>6. skippedGatekeepers' \in BOOLEAN /\ (skippedGatekeepers => skippedGatekeepers')
  BY DEF runStep
<1> QED
  BY <1>1, <1>2, <1>3, <1>5, <1>6 DEF runStep

LEMMA FullBegins ==
  ASSUME Types, RunInv, StorageInv, runStep, run.task = "full"
  PROVE  run' \in Runs /\ run'.task = "full" /\ FullInv'
<1> DEFINE i == run.step + 1
           skipped == i <= run.skip
           s == IF skipped THEN << >> ELSE StepOf(Catalog(run.task)[i])
<1>1. /\ todo = << >> /\ Left = {} /\ FullInv /\ i \in 1..11 /\ run.step \in Nat
      /\ UNCHANGED <<config, chain, storage>> /\ (skippedGatekeepers => skippedGatekeepers')
  BY Beginning
<1>2. Fresh(StepOf(Catalog("full")[i]), i)
  BY <1>1, StepFresh DEF StorageInv
<1>3. Fresh(s, i)
  BY <1>2, ThrowFresh
<1>4. s \in Seq(Items)
  BY <1>3 DEF Fresh
<1>5. todo' = s
  BY DEF runStep, todo
<1> HIDE DEF s
<1>6. /\ run' \in Runs /\ run'.mine = << >> /\ run'.task = "full"
      /\ run'.incremental = run.incremental /\ run'.step = i
  BY <1>4, <1>5, BegunRun DEF s
<1>7. Fresh(todo', run'.step)
  BY <1>3, <1>5, <1>6
<1>8. \A k \in Left' : FullItem(k)'
  BY <1>1, <1>7, FreshIsFull
<1>9. MineInv'
  <2>1. DOMAIN << >> = {}
    OBVIOUS
  <2> QED
    BY <1>6, <2>1 DEF MineInv
<1>10. \A id : Saved(id)' <=> Saved(id)
  BY <1>1 DEF Saved, storage
<1>11. ASSUME i >= 2, ~skippedGatekeepers', NEW g \in config.gatekeepers
       PROVE  Saved(g) \/ \E k \in Left' : todo'[k].do = "register" /\ todo'[k].id = g
  <2>1. CASE i = 2
    <3>1. ~skipped
      <4>1. Catalog(run.task)[2] = "gatekeepers"
        BY DEF Catalog
      <4>2. skippedGatekeepers' = (skippedGatekeepers \/ (skipped /\ Catalog(run.task)[i] = "gatekeepers"))
        BY DEF runStep
      <4> QED
        BY <1>11, <2>1, <4>1, <4>2
    <3>2. s = GatekeepersStep
      BY <2>1, <3>1 DEF s, StepOf, Catalog
    <3>3. run.step = 1
      BY <1>1, <2>1
    <3> QED
      BY <1>1, <1>5, <1>11, <3>2, <3>3, GatekeepersFresh DEF StorageInv, Left
  <2>2. CASE i # 2
    <3>1. run.step >= 2 /\ ~skippedGatekeepers
      BY <1>1, <1>11, <2>2
    <3> QED
      BY <1>1, <1>11, <3>1 DEF FullInv
  <2> QED
    BY <2>1, <2>2
<1>12. ~run'.incremental => \A id \in Ids : Saved(id)' => Turn(id) <= run'.step
  <2>1. ASSUME ~run.incremental, NEW id \in Ids, Saved(id)
        PROVE  Turn(id) <= i
    <3>1. Turn(id) <= run.step /\ Turn(id) \in 1..11
      BY <1>1, <2>1, TurnTyped DEF FullInv
    <3> QED
      BY <1>1, <3>1
  <2> QED
    BY <1>6, <1>10, <2>1
<1>13. FullInv'
  <2>1. run'.step <= 11 /\ config' = config
    BY <1>1, <1>6
  <2> QED
    BY <1>6, <1>8, <1>9, <1>10, <1>11, <1>12, <2>1 DEF FullInv
<1> QED
  BY <1>6, <1>13

-----------------------------------------------------------------------------
(***************************************************************************)
(* The step of deploy-poll begins.                                         *)
(***************************************************************************)
PollItems ==
  <<[do |-> "deployPoll"], registerPoll("Poll"), registerPoll("MessageProcessor"), registerPoll("Tally")>>
    \o (IF config.subsidyPolls THEN <<registerPoll("Subsidy")>> ELSE << >>)

LEMMA PollItemsTyped ==
  ASSUME Types
  PROVE  /\ PollItems \in Seq(Items) /\ Len(PollItems) \in {4, 5}
         /\ PollItems[1].do = "deployPoll"
         /\ \A k \in 2..Len(PollItems) :
              PollItems[k].do = "registerPoll" /\ PollItems[k].id \in Kinds
         /\ \A kind \in Kinds : \E k \in 1..Len(PollItems) :
              PollItems[k].do = "registerPoll" /\ PollItems[k].id = kind
<1> DEFINE d == [do |-> "deployPoll"]
           p == registerPoll("Poll")
           m == registerPoll("MessageProcessor")
           t == registerPoll("Tally")
           u == registerPoll("Subsidy")
           s == PollItems
           five == config.subsidyPolls
<1>1. five \in BOOLEAN /\ s = <<d, p, m, t>> \o (IF five THEN <<u>> ELSE << >>)
  BY ConfigTyped DEF Types, PollItems
<1>2. d \in Items /\ d.do = "deployPoll"
  BY DEF Items
<1>3. ASSUME NEW kind \in AllKinds
      PROVE  registerPoll(kind) \in Items /\ registerPoll(kind).do = "registerPoll" /\ registerPoll(kind).id = kind
  BY DEF registerPoll, Items
<1>4. /\ p \in Items /\ p.do = "registerPoll" /\ p.id = "Poll"
      /\ m \in Items /\ m.do = "registerPoll" /\ m.id = "MessageProcessor"
      /\ t \in Items /\ t.do = "registerPoll" /\ t.id = "Tally"
      /\ u \in Items /\ u.do = "registerPoll" /\ u.id = "Subsidy"
  BY <1>3 DEF AllKinds
<1>5. Kinds = {"Poll", "MessageProcessor", "Tally"} \cup (IF five THEN {"Subsidy"} ELSE {})
  BY DEF Kinds
<1> HIDE DEF d, p, m, t, u, s, five
<1>6. /\ s \in Seq(Items) /\ Len(s) = IF five THEN 5 ELSE 4
      /\ s[1] = d /\ s[2] = p /\ s[3] = m /\ s[4] = t /\ (five => s[5] = u)
  <2>1. CASE five
    <3>1. s = <<d, p, m, t>> \o <<u>>
      BY <1>1, <2>1
    <3> QED
      BY <1>2, <1>4, <2>1, <3>1
  <2>2. CASE ~five
    <3>1. s = <<d, p, m, t>> \o << >>
      BY <1>1, <2>2
    <3> QED
      BY <1>2, <1>4, <2>2, <3>1
  <2> QED
    BY <1>1, <2>1, <2>2
<1>7. Len(s) \in {4, 5} /\ s[1].do = "deployPoll"
  BY <1>1, <1>2, <1>6
<1>8. ASSUME NEW k \in 2..Len(s)
      PROVE  s[k].do = "registerPoll" /\ s[k].id \in Kinds
  <2>1. k = 2 \/ k = 3 \/ k = 4 \/ (five /\ k = 5)
    BY <1>1, <1>6
  <2> QED
    BY <1>4, <1>5, <1>6, <2>1
<1>9. ASSUME NEW kind \in Kinds
      PROVE  \E k \in 1..Len(s) : s[k].do = "registerPoll" /\ s[k].id = kind
  <2>1. 2 \in 1..Len(s) /\ 3 \in 1..Len(s) /\ 4 \in 1..Len(s) /\ (five => 5 \in 1..Len(s))
    BY <1>1, <1>6
  <2> QED
    BY <1>4, <1>5, <1>6, <2>1
<1> QED
  BY <1>6, <1>7, <1>8, <1>9 DEF s

LEMMA PollStepItems ==
  ASSUME Types
  PROVE  /\ PollStep \in Seq(Items)
         /\ PollStep = << >> \/ PollStep = Throw \/ PollStep = PollItems
         /\ PollStep = PollItems => Saved("MACI") /\ Saved("Verifier") /\ Saved("VkRegistry")
<1>1. << >> \in Seq(Items) /\ Throw \in Seq(Items)
  BY ThrowFresh DEF Fresh
<1>2. PollStep = << >> \/ PollStep = Throw \/ PollStep = PollItems
  BY DEF PollStep, PollItems
<1>3. PollItems # << >> /\ PollItems # Throw
  <2>1. PollItems[1].do = "deployPoll" /\ Len(PollItems) # 0 /\ Throw[1].do = "throw" /\ Len(<< >>) = 0
    BY PollItemsTyped DEF Throw
  <2> QED
    BY <2>1
<1>4. PollStep = PollItems => Saved("MACI") /\ Saved("Verifier") /\ Saved("VkRegistry")
  BY <1>3 DEF PollStep
<1> QED
  BY <1>1, <1>2, <1>4, PollItemsTyped

LEMMA PollBegins ==
  ASSUME Types, RunInv, StorageInv, runStep, run.task = "poll"
  PROVE  run' \in Runs /\ run'.task = "poll" /\ PollInv'
<1> DEFINE skipped == run.step + 1 <= run.skip
           s == IF skipped THEN << >> ELSE StepOf(Catalog(run.task)[run.step + 1])
<1>1. /\ PollInv /\ run.step + 1 = 1 /\ UNCHANGED <<config, chain, storage>>
  BY Beginning
<1>2. \A id : (Saved(id)' <=> Saved(id)) /\ AddressOf(id)' = AddressOf(id)
  BY <1>1 DEF Saved, AddressOf, storage
<1>3. Polls' = Polls /\ Kinds' = Kinds
  BY <1>1, <1>2 DEF Polls, Kinds
<1>4. StepOf(Catalog(run.task)[run.step + 1]) = PollStep
  BY <1>1 DEF StepOf, Catalog
<1>5. s = << >> \/ s = PollStep
  BY <1>4
<1>6. s \in Seq(Items) /\ todo' = s
  <2>1. todo' = s
    BY DEF runStep, todo
  <2> HIDE DEF s
  <2> QED
    BY <1>5, <2>1, PollStepItems, NothingYet
<1>7. /\ run' \in Runs /\ run'.mine = << >> /\ run'.task = "poll" /\ run'.step = 1
      /\ run'.pollId = IF Saved("MACI") THEN Len(Polls) ELSE 0
  BY <1>1, <1>6, BegunRun
<1> HIDE DEF s
<1>8. CASE s = << >>
  <2>1. Left' = {} /\ todo' = << >>
    BY <1>6, <1>8 DEF Left
  <2> QED
    BY <1>7, <2>1 DEF PollInv
<1>9. CASE s = Throw
  <2>1. Left' = {1} /\ Len(todo') = 1 /\ todo'[1].do = "throw"
    BY <1>6, <1>9 DEF Left, Throw
  <2>2. \A k \in Left' : PollItem(k)'
    BY <2>1 DEF PollItem
  <2> QED
    BY <1>7, <2>1, <2>2 DEF PollInv
<1>10. CASE s = PollItems /\ s = PollStep
  <2>1. Saved("MACI") /\ Saved("Verifier") /\ Saved("VkRegistry")
    BY <1>10, PollStepItems
  <2>2. /\ todo'[1].do = "deployPoll" /\ Len(todo') \in {4, 5}
        /\ \A k \in 2..Len(todo') : todo'[k].do = "registerPoll" /\ todo'[k].id \in Kinds
        /\ \A kind \in Kinds : \E k \in 1..Len(todo') : todo'[k].do = "registerPoll" /\ todo'[k].id = kind
    BY <1>6, <1>10, PollItemsTyped
  <2>3. ASSUME NEW k \in Left'
        PROVE  PollItem(k)'
    <3>1. k = 1 \/ k \in 2..Len(todo')
      BY <2>2 DEF Left
    <3> QED
      BY <1>3, <2>2, <3>1 DEF PollItem
  <2> QED
    BY <1>2, <1>3, <1>7, <2>1, <2>2, <2>3 DEF PollInv, Left
<1> QED
  BY <1>5, <1>8, <1>9, <1>10, PollStepItems

LEMMA BeginStep ==
  ASSUME TasksInv, runStep
  PROVE  TasksInv'
<1>1. Types /\ RunInv /\ StorageInv /\ PollsKnownInv
  BY DEF TasksInv
<1>2. /\ Left = {} /\ UNCHANGED <<config, chain, storage, lost>>
      /\ skippedGatekeepers' \in BOOLEAN /\ (skippedGatekeepers => skippedGatekeepers')
      /\ run.task = "full" \/ run.task = "poll"
  BY <1>1, Beginning
<1>3. StorageInv'
  BY <1>1, <1>2, StorageSame
<1>4. run' \in Runs /\ RunInv'
  <2>1. CASE run.task = "full"
    BY <1>1, <2>1, FullBegins DEF RunInv
  <2>2. CASE run.task = "poll"
    BY <1>1, <2>2, PollBegins DEF RunInv
  <2> QED
    BY <1>2, <2>1, <2>2
<1>5. Types'
  BY <1>1, <1>2, <1>4, TypesSame
<1>6. PollsKnownInv'
  <2>1. \A kind, id : PollKnown(kind, id) => <<kind, id>> \in DOMAIN named
    BY <1>2 DEF PollKnown
  <2>2. Saved("MACI") =>
          \A id \in 0..(Len(Polls) - 1) : id \notin lost =>
            \A kind \in Kinds : <<kind, id>> \in DOMAIN named
    BY <1>1, <2>1 DEF PollsKnownInv
  <2> QED
    BY <1>2, <2>2 DEF PollsKnownInv, PollKnown, Polls, Saved, AddressOf, Kinds, storage
<1> QED
  BY <1>1, <1>3, <1>4, <1>5, <1>6 DEF TasksInv

-----------------------------------------------------------------------------
(***************************************************************************)
(* The instances written, and those without a name.                        *)
(***************************************************************************)
Registration(it) == it.do \in {"register", "registerPoll"}

\* A step registers a contract once.
OnceEach(s) ==
  \A j \in 1..Len(s), k \in 1..Len(s) :
    Registration(s[j]) /\ Registration(s[k]) /\ s[j].id = s[k].id => j = k

LEMMA TwoOnce ==
  ASSUME NEW a, NEW b, ~Registration(a)
  PROVE  OnceEach(<<a, b>>)
<1> DEFINE s == <<a, b>>
<1>1. s[1] = a /\ Len(s) = 2
  OBVIOUS
<1> HIDE DEF s
<1> QED
  BY <1>1 DEF OnceEach, s

LEMMA SimpleOnce ==
  ASSUME NEW id, NEW needs
  PROVE  OnceEach(SimpleStep(id, needs))
<1>1. OnceEach(<< >>) /\ OnceEach(Throw)
  BY DEF OnceEach, Throw
<1>2. ~Registration(deploy(id, needs))
  BY DEF Registration, deploy
<1>3. OnceEach(<<deploy(id, needs), register(id)>>)
  BY <1>2, TwoOnce
<1> QED
  BY <1>1, <1>3 DEF SimpleStep, Needing

LEMMA PoseidonOnce == OnceEach(PoseidonStep)
<1> DEFINE s == <<deploy("PoseidonT3", {}), deploy("PoseidonT4", {}),
                  deploy("PoseidonT5", {}), deploy("PoseidonT6", {}),
                  register("PoseidonT3"), register("PoseidonT4"),
                  register("PoseidonT5"), register("PoseidonT6")>>
<1>1. OnceEach(<< >>)
  BY DEF OnceEach
<1>2. /\ ~Registration(s[1]) /\ ~Registration(s[2]) /\ ~Registration(s[3]) /\ ~Registration(s[4])
      /\ s[5].id = "PoseidonT3" /\ s[6].id = "PoseidonT4"
      /\ s[7].id = "PoseidonT5" /\ s[8].id = "PoseidonT6" /\ Len(s) = 8
  BY DEF deploy, register, Registration
<1> HIDE DEF s
<1>3. ASSUME NEW k \in 1..8
      PROVE  k = 1 \/ k = 2 \/ k = 3 \/ k = 4 \/ k = 5 \/ k = 6 \/ k = 7 \/ k = 8
  OBVIOUS
<1>4. ASSUME NEW k \in 1..8, Registration(s[k])
      PROVE  k = 5 \/ k = 6 \/ k = 7 \/ k = 8
  BY <1>2, <1>3, <1>4
<1>5. OnceEach(s)
  <2>1. \A j \in 1..8, k \in 1..8 :
          Registration(s[j]) /\ Registration(s[k]) /\ s[j].id = s[k].id => j = k
    <3> SUFFICES ASSUME NEW j \in 1..8, NEW k \in 1..8, Registration(s[j]), Registration(s[k]),
                        s[j].id = s[k].id
                 PROVE  j = k
      OBVIOUS
    <3>1. j = 5 \/ j = 6 \/ j = 7 \/ j = 8
      BY <1>4
    <3>2. k = 5 \/ k = 6 \/ k = 7 \/ k = 8
      BY <1>4
    <3> QED
      BY <1>2, <3>1, <3>2
  <2> QED
    BY <1>2, <2>1 DEF OnceEach
<1> QED
  BY <1>1, <1>5 DEF PoseidonStep, s

LEMMA GatekeepersOnce == OnceEach(GatekeepersStep)
<1> DEFINE f == "FreeForAllGatekeeper"
           e == "EASGatekeeper"
           one(id) == IF id \in config.gatekeepers THEN <<deploy(id, {}), register(id)>> ELSE << >>
<1>1. OnceEach(<< >>)
  BY DEF OnceEach
<1>2. \A id : deploy(id, {}).do = "deploy" /\ register(id).id = id
  BY DEF deploy, register
<1>3. \A a, b : LET s == <<deploy(a, {}), register(a)>> \o <<deploy(b, {}), register(b)>>
               IN  a # b => OnceEach(s)
  <2> SUFFICES ASSUME NEW a, NEW b, a # b
               PROVE  OnceEach(<<deploy(a, {}), register(a)>> \o <<deploy(b, {}), register(b)>>)
    OBVIOUS
  <2> DEFINE s == <<deploy(a, {}), register(a)>> \o <<deploy(b, {}), register(b)>>
  <2>1. /\ s[1].do = "deploy" /\ s[3].do = "deploy" /\ s[2].id = a /\ s[4].id = b /\ Len(s) = 4
    BY <1>2
  <2> HIDE DEF s
  <2>2. \A k \in 1..4 : k = 1 \/ k = 2 \/ k = 3 \/ k = 4
    OBVIOUS
  <2> QED
    BY <2>1, <2>2 DEF OnceEach, Registration, s
<1>4. \A a : OnceEach(<<deploy(a, {}), register(a)>>)
  BY <1>2, TwoOnce DEF Registration
<1>5. OnceEach(one(f) \o one(e))
  <2>1. CASE f \in config.gatekeepers /\ e \in config.gatekeepers
    BY <1>3, <2>1
  <2>2. CASE f \in config.gatekeepers /\ e \notin config.gatekeepers
    <3>1. one(f) \o one(e) = <<deploy(f, {}), register(f)>>
      BY <2>2
    <3> QED
      BY <1>4, <3>1
  <2>3. CASE f \notin config.gatekeepers /\ e \in config.gatekeepers
    <3>1. one(f) \o one(e) = <<deploy(e, {}), register(e)>>
      BY <2>3
    <3> QED
      BY <1>4, <3>1
  <2>4. CASE f \notin config.gatekeepers /\ e \notin config.gatekeepers
    <3>1. one(f) \o one(e) = << >>
      BY <2>4
    <3> QED
      BY <1>1, <3>1
  <2> QED
    BY <2>1, <2>2, <2>3, <2>4
<1> QED
  BY <1>1, <1>5 DEF GatekeepersStep

LEMMA ConcatTwo ==
  ASSUME NEW a, NEW b, ~Registration(a)
  PROVE  OnceEach(<<a>> \o << >> \o <<b>>)
<1> DEFINE s == <<a>> \o << >> \o <<b>>
<1>1. s[1] = a /\ Len(s) = 2
  OBVIOUS
<1> HIDE DEF s
<1> QED
  BY <1>1 DEF OnceEach, s

LEMMA ConcatThree ==
  ASSUME NEW a, NEW b, NEW c, ~Registration(a), ~Registration(b)
  PROVE  OnceEach(<<a>> \o <<b>> \o <<c>>) /\ OnceEach(<<a>> \o <<b>> \o << >> \o <<c>>)
<1> DEFINE s == <<a>> \o <<b>> \o <<c>>
           t == <<a>> \o <<b>> \o << >> \o <<c>>
<1>1. s[1] = a /\ s[2] = b /\ Len(s) = 3
  OBVIOUS
<1>2. t[1] = a /\ t[2] = b /\ Len(t) = 3
  OBVIOUS
<1> HIDE DEF s, t
<1>3. OnceEach(s)
  BY <1>1 DEF OnceEach
<1>4. OnceEach(t)
  BY <1>2 DEF OnceEach
<1> QED
  BY <1>3, <1>4 DEF s, t

LEMMA ConcatFour ==
  ASSUME NEW a, NEW b, NEW c, NEW d, ~Registration(a), ~Registration(b), ~Registration(c)
  PROVE  OnceEach(<<a>> \o <<b>> \o <<c>> \o <<d>>)
<1> DEFINE s == <<a>> \o <<b>> \o <<c>> \o <<d>>
<1>1. s[1] = a /\ s[2] = b /\ s[3] = c /\ Len(s) = 4
  OBVIOUS
<1> HIDE DEF s
<1> QED
  BY <1>1 DEF OnceEach, s

LEMMA LastOnce == OnceEach(MaciStep) /\ OnceEach(VkRegistryStep)
<1>1. OnceEach(<< >>) /\ OnceEach(Throw)
  BY DEF OnceEach, Throw
<1>2. /\ \A id, needs : ~Registration(deploy(id, needs))
      /\ \A id : ~Registration([do |-> "setMaciInstance", id |-> id])
      /\ \A id : ~Registration([do |-> "setKeys", id |-> id])
  BY DEF deploy, Registration
<1>3. OnceEach(MaciStep)
  <2> DEFINE a == deploy("MACI", MaciNeeds)
             b == [do |-> "setMaciInstance", id |-> AddressOf(config.gatekeeper)]
             c == register("MACI")
  <2>1. setMaciInstance = <<b>> \/ setMaciInstance = << >>
    BY DEF setMaciInstance
  <2>2. ~Registration(a) /\ ~Registration(b)
    BY <1>2
  <2>3. MaciStep = << >> \/ MaciStep = Throw \/ MaciStep = <<a>> \o setMaciInstance \o <<c>>
    BY DEF MaciStep, Needing
  <2> HIDE DEF a, b, c
  <2> QED
    BY <1>1, <2>1, <2>2, <2>3, ConcatTwo, ConcatThree
<1>4. OnceEach(VkRegistryStep)
  <2> DEFINE a == deploy("VkRegistry", {})
             b == [do |-> "setKeys", id |-> "verifying"]
             c == [do |-> "setKeys", id |-> "subsidy"]
             d == register("VkRegistry")
  <2>1. \/ VkRegistryStep = << >>
        \/ VkRegistryStep = <<a>> \o <<b>> \o <<c>> \o <<d>>
        \/ VkRegistryStep = <<a>> \o <<b>> \o << >> \o <<d>>
    BY DEF VkRegistryStep
  <2>2. ~Registration(a) /\ ~Registration(b) /\ ~Registration(c)
    BY <1>2
  <2> HIDE DEF a, b, c, d
  <2> QED
    BY <1>1, <2>1, <2>2, ConcatThree, ConcatFour
<1> QED
  BY <1>3, <1>4

LEMMA PollOnce ==
  ASSUME Types
  PROVE  OnceEach(PollStep)
<1>1. OnceEach(<< >>) /\ OnceEach(Throw)
  BY DEF OnceEach, Throw
<1>2. OnceEach(PollItems)
  <2> DEFINE s == PollItems
  <2>1. /\ ~Registration(s[1]) /\ s[2].id = "Poll" /\ s[3].id = "MessageProcessor" /\ s[4].id = "Tally"
        /\ Len(s) = 4 \/ (Len(s) = 5 /\ s[5].id = "Subsidy")
    <3>1. CASE config.subsidyPolls
      <4>1. s = <<[do |-> "deployPoll"], registerPoll("Poll"), registerPoll("MessageProcessor"),
                  registerPoll("Tally")>> \o <<registerPoll("Subsidy")>>
        BY <3>1 DEF PollItems
      <4> QED
        BY <4>1 DEF registerPoll, Registration
    <3>2. CASE ~config.subsidyPolls
      <4>1. s = <<[do |-> "deployPoll"], registerPoll("Poll"), registerPoll("MessageProcessor"),
                  registerPoll("Tally")>> \o << >>
        BY <3>2 DEF PollItems
      <4> QED
        BY <4>1 DEF registerPoll, Registration
    <3> QED
      BY <3>1, <3>2
  <2> HIDE DEF s
  <2>2. \A k \in 1..Len(s) : k = 1 \/ k = 2 \/ k = 3 \/ k = 4 \/ (Len(s) = 5 /\ k = 5)
    <3>1. Len(s) = 4 => \A k \in 1..Len(s) : k = 1 \/ k = 2 \/ k = 3 \/ k = 4
      OBVIOUS
    <3>2. Len(s) = 5 => \A k \in 1..Len(s) : k = 1 \/ k = 2 \/ k = 3 \/ k = 4 \/ k = 5
      OBVIOUS
    <3> QED
      BY <2>1, <3>1, <3>2
  <2>3. \A k \in 1..Len(s) : Registration(s[k]) => k = 2 \/ k = 3 \/ k = 4 \/ (Len(s) = 5 /\ k = 5)
    BY <2>1, <2>2
  <2>4. ASSUME NEW j \in 1..Len(s), NEW k \in 1..Len(s), Registration(s[j]), Registration(s[k]),
               s[j].id = s[k].id
        PROVE  j = k
    <3>1. j = 2 \/ j = 3 \/ j = 4 \/ (Len(s) = 5 /\ j = 5)
      BY <2>3, <2>4
    <3>2. k = 2 \/ k = 3 \/ k = 4 \/ (Len(s) = 5 /\ k = 5)
      BY <2>3, <2>4
    <3> QED
      BY <2>1, <2>4, <3>1, <3>2
  <2> QED
    BY <2>4 DEF OnceEach, s
<1> QED
  BY <1>1, <1>2, PollStepItems

LEMMA StepOnce ==
  ASSUME Types, RunInv, runStep
  PROVE  OnceEach(todo')
<1> DEFINE step == StepOf(Catalog(run.task)[run.step + 1])
<1>1. OnceEach(<< >>)
  BY DEF OnceEach
<1>2. OnceEach(step)
  <2>1. CASE run.task = "poll"
    <3>1. step = PollStep
      BY <2>1, Beginning DEF StepOf, Catalog
    <3> QED
      BY <3>1, PollOnce
  <2>2. CASE run.task = "full" /\ run.step + 1 \in 1..11
    <3>1. \/ step \in {GatekeepersStep, PoseidonStep, MaciStep, VkRegistryStep, VoiceCreditsStep}
          \/ \E id, needs : step = SimpleStep(id, needs)
      BY <2>2 DEF StepOf, Catalog
    <3>2. OnceEach(VoiceCreditsStep)
      BY <1>1, SimpleOnce DEF VoiceCreditsStep
    <3> HIDE DEF step
    <3> QED
      BY <3>1, <3>2, SimpleOnce, GatekeepersOnce, PoseidonOnce, LastOnce
  <2> QED
    BY <2>1, <2>2, Beginning
<1>3. todo' = << >> \/ todo' = step
  BY DEF runStep, todo, Runs, Types
<1> QED
  BY <1>1, <1>2, <1>3

LEMMA CountsInit == Init => CountsInv
<1> SUFFICES ASSUME Init PROVE CountsInv
  OBVIOUS
<1>1. /\ DOMAIN named = {} /\ instance = {} /\ unnamed = {} /\ todo = << >> /\ ~run.written
      /\ DOMAIN run.mine = {}
  BY DEF Init, Idle, todo
<1>2. Left = {} /\ NamedAddresses = {} /\ HalfRegistered = {}
  BY <1>1 DEF Left, NamedAddresses, HalfRegistered
<1> QED
  BY <1>1, <1>2 DEF CountsInv, WrittenInv, UnnamedInv, InstancesInv

LEMMA NamedOnChain ==
  ASSUME Types
  PROVE  NamedAddresses \subseteq Addresses
  BY NameTyped DEF NamedAddresses

\* What the head of the run registers is a contract that the run has deployed.
LEMMA HeadRegisters ==
  ASSUME Types, RunInv, todo # << >>, Registers(1)
  PROVE  /\ 1 \in Left /\ Head(run.todo) = todo[1]
         /\ todo[1].id \in DOMAIN run.mine /\ run.mine[todo[1].id] \in Addresses
         /\ \A id \in DOMAIN run.mine : chain[run.mine[id]].id = id
<1>1. todo \in Seq(Items) /\ Len(todo) \in Nat \ {0} /\ Head(todo) = todo[1] /\ 1 \in Left
  <2>1. todo \in Seq(Items)
    BY RunTyped DEF Types
  <2> QED
    BY <2>1, TailOfTodo DEF Left
<1>2. CASE todo[1].do = "register"
  <2>1. run.task = "full" /\ FullInv /\ FullItem(1)
    BY <1>1, <1>2, TaskOfItem DEF Doing, todo
  <2>2. todo[1].id \in DOMAIN run.mine
    BY <1>2, <2>1 DEF FullItem, RegisterItem, Deployed
  <2> QED
    BY <1>1, <2>1, <2>2 DEF FullInv, MineInv, todo
<1>3. CASE todo[1].do = "registerPoll"
  <2>1. run.task = "poll" /\ PollInv /\ PollItem(1)
    BY <1>1, <1>3, TaskOfItem DEF Doing, todo
  <2>2. todo[1].id \in DOMAIN run.mine
    BY <1>3, <2>1 DEF PollItem
  <2> QED
    BY <1>1, <1>3, <2>1, <2>2 DEF PollInv, todo
<1> QED
  BY <1>2, <1>3 DEF Registers

\* An item is done that registers nothing.
LEMMA DoneCounts ==
  ASSUME Types, CountsInv, todo # << >>, ~Registers(1), todo' = Tail(todo), ~run'.written,
         UNCHANGED <<named, instance, unnamed>>, Addresses \subseteq Addresses',
         \A id \in DOMAIN run'.mine : \/ id \in DOMAIN run.mine /\ run'.mine[id] = run.mine[id]
                                      \/ run'.mine[id] \notin Addresses
  PROVE  CountsInv'
<1>1. NamedAddresses \subseteq Addresses /\ NamedAddresses' = NamedAddresses
  BY NamedOnChain DEF NamedAddresses
<1>2. ~run.written /\ HalfRegistered = {} /\ HalfRegistered' = {}
  BY DEF CountsInv, WrittenInv, HalfRegistered
<1>3. \A k \in Left' : k + 1 \in Left /\ todo'[k] = todo[k + 1] /\ k \in Nat
  BY NextItem DEF Left
<1>4. \A k \in Left' : Registers(k)' => Registers(k + 1)
  BY <1>3 DEF Registers
<1>5. unnamed \subseteq Addresses' /\ unnamed \cap NamedAddresses = {}
  BY DEF CountsInv, UnnamedInv
<1>6. \A id \in DOMAIN run'.mine : run'.mine[id] \notin unnamed
  BY DEF CountsInv, UnnamedInv
<1>7. ASSUME NEW k \in Left', Registers(k)', todo'[k].id \in DOMAIN run'.mine
      PROVE  run'.mine[todo'[k].id] \notin NamedAddresses
  <2>1. todo[k + 1].id \in DOMAIN run.mine => run.mine[todo[k + 1].id] \notin NamedAddresses
    BY <1>3, <1>4, <1>7 DEF CountsInv, UnnamedInv
  <2>2. todo'[k].id = todo[k + 1].id
    BY <1>3
  <2> QED
    BY <1>1, <1>7, <2>1, <2>2
<1>8. ASSUME NEW j \in Left', NEW k \in Left', Registers(j)', Registers(k)', todo'[j].id = todo'[k].id
      PROVE  j = k
  <2>1. j + 1 = k + 1
    BY <1>3, <1>4, <1>8 DEF CountsInv, UnnamedInv
  <2> QED
    BY <1>3, <2>1
<1>9. UnnamedInv'
  BY <1>1, <1>5, <1>6, <1>7, <1>8 DEF UnnamedInv
<1>10. InstancesInv'
  BY <1>1, <1>2 DEF CountsInv, InstancesInv
<1> QED
  BY <1>9, <1>10 DEF CountsInv, WrittenInv

\* A run stops, or has come to its end: an instance that it has written
\* without the name has none.
LEMMA StopCounts ==
  ASSUME TasksInv, CountsInv, throws \/ finish \/ crash
  PROVE  CountsInv'
<1>1. run' = Idle /\ UNCHANGED <<chain, named, instance>>
  BY DEF throws, finish, crash, storage
<1>2. todo' = << >> /\ DOMAIN run'.mine = {} /\ ~run'.written
  BY <1>1 DEF Idle, todo
<1>3. Left' = {} /\ HalfRegistered' = {} /\ NamedAddresses' = NamedAddresses /\ Addresses' = Addresses
  BY <1>1, <1>2 DEF Left, HalfRegistered, NamedAddresses, Addresses
<1>4. run.written => /\ 1 \in Left /\ todo # << >> /\ Registers(1)
                     /\ Head(run.todo) = todo[1] /\ todo[1].id \in DOMAIN run.mine
                     /\ run.mine[todo[1].id] \in Addresses
  <2>1. run.written => 1 \in Left /\ Registers(1)
    BY DEF CountsInv, WrittenInv
  <2>2. 1 \in Left => todo # << >>
    BY DEF Left
  <2> QED
    BY <2>1, <2>2, HeadRegisters DEF TasksInv
<1>5. unnamed' = unnamed \cup HalfRegistered
  <2>1. CASE throws
    <3>1. todo[1].do = "throw"
      BY <2>1, HeadItem DEF throws, TasksInv
    <3> QED
      BY <1>4, <2>1, <3>1 DEF throws, history, Registers, HalfRegistered
  <2>2. CASE finish
    BY <1>4, <2>2 DEF finish, Checking, history, HalfRegistered, todo
  <2>3. CASE crash
    BY <1>4, <2>3 DEF crash, Registered, HalfRegistered
  <2> QED
    BY <2>1, <2>2, <2>3
<1>6. HalfRegistered \subseteq Addresses /\ HalfRegistered \cap NamedAddresses = {}
  BY <1>4 DEF HalfRegistered, CountsInv, UnnamedInv
<1>7. UnnamedInv'
  BY <1>2, <1>3, <1>5, <1>6 DEF UnnamedInv, CountsInv
<1>8. InstancesInv'
  BY <1>1, <1>3, <1>5 DEF InstancesInv, CountsInv
<1> QED
  BY <1>2, <1>7, <1>8 DEF CountsInv, WrittenInv

LEMMA StartCounts ==
  ASSUME TasksInv, CountsInv, NEW task \in {"full", "poll"}, NEW incremental \in BOOLEAN,
         NEW skip \in Skips \cup {0}, start(task, incremental, skip)
  PROVE  CountsInv'
<1>1. todo' = << >> /\ DOMAIN run'.mine = {} /\ ~run'.written /\ ~run.written
  BY DEF start, Idle, todo
<1>2. Left' = {} /\ HalfRegistered = {} /\ HalfRegistered' = {} /\ Addresses' = Addresses
  BY <1>1 DEF Left, HalfRegistered, Addresses, start
<1>3. CASE incremental
  <2>1. UNCHANGED <<named, instance, unnamed>> /\ NamedAddresses' = NamedAddresses
    BY <1>3 DEF start, NamedAddresses
  <2> QED
    BY <1>1, <1>2, <2>1 DEF CountsInv, WrittenInv, UnnamedInv, InstancesInv
<1>4. CASE ~incremental
  <2>1. DOMAIN named' = {} /\ instance' = {} /\ unnamed' = {} /\ NamedAddresses' = {}
    BY <1>4 DEF start, CleanedNames, CleanedInstances, NamedAddresses
  <2> QED
    BY <1>1, <1>2, <2>1 DEF CountsInv, WrittenInv, UnnamedInv, InstancesInv
<1> QED
  BY <1>3, <1>4

LEMMA BeginCounts ==
  ASSUME TasksInv, CountsInv, runStep
  PROVE  CountsInv'
<1>1. Left = {} /\ UNCHANGED <<chain, named, instance, unnamed>>
  BY Beginning DEF TasksInv, runStep, storage
<1>2. ~run.written
  BY <1>1 DEF CountsInv, WrittenInv
<1>3. ~run'.written /\ DOMAIN run'.mine = {}
  BY <1>2 DEF runStep, TasksInv, Types, Runs
<1>4. /\ HalfRegistered = {} /\ HalfRegistered' = {} /\ NamedAddresses' = NamedAddresses
      /\ Addresses' = Addresses
  BY <1>1, <1>2, <1>3 DEF HalfRegistered, NamedAddresses, Addresses
<1>5. OnceEach(todo')
  BY StepOnce DEF TasksInv
<1>6. \A j \in Left', k \in Left' :
        Registers(j)' /\ Registers(k)' /\ todo'[j].id = todo'[k].id => j = k
  BY <1>5 DEF OnceEach, Registration, Registers, Left
<1>7. UnnamedInv'
  BY <1>1, <1>3, <1>4, <1>6 DEF UnnamedInv, CountsInv
<1>8. InstancesInv'
  BY <1>1, <1>4 DEF InstancesInv, CountsInv
<1> QED
  BY <1>3, <1>7, <1>8 DEF CountsInv, WrittenInv

LEMMA ActCounts ==
  ASSUME TasksInv, CountsInv, deployContract \/ setsMaciInstance \/ setsKeys \/ deployPoll
  PROVE  CountsInv'
<1>1. Types /\ RunInv /\ StorageInv /\ Len(chain) \in Nat
  BY DEF TasksInv, Types
<1>2. UNCHANGED <<named, instance, unnamed>>
  BY DEF deployContract, setsMaciInstance, setsKeys, deployPoll, storage, history
<1>3. CASE deployContract
  <2>1. /\ todo # << >> /\ ~Registers(1) /\ todo' = Tail(todo)
        /\ run'.mine = With(run.mine, todo[1].id, Len(chain) + 1)
    BY <1>1, <1>3, DeployedRun DEF Registers
  <2>2. ~run'.written
    BY <1>1, <1>3 DEF deployContract, Done, Types, Runs
  <2>3. Addresses \subseteq Addresses'
    BY <1>1, <1>3, DeployedChain DEF Grown, Addresses
  <2>4. Len(chain) + 1 \notin Addresses
    BY <1>1 DEF Addresses
  <2>5. \A id \in DOMAIN run'.mine : \/ id \in DOMAIN run.mine /\ run'.mine[id] = run.mine[id]
                                     \/ run'.mine[id] = Len(chain) + 1
    BY <2>1 DEF With
  <2> QED
    BY <1>1, <1>2, <2>1, <2>2, <2>3, <2>4, <2>5, DoneCounts
<1>4. CASE setsMaciInstance
  <2>1. todo # << >> /\ ~Registers(1) /\ todo' = Tail(todo) /\ run'.mine = run.mine
    BY <1>1, <1>4, InstanceRun DEF Registers
  <2>2. ~run'.written
    BY <1>1, <1>4 DEF setsMaciInstance, Done, Types, Runs
  <2>3. Addresses \subseteq Addresses'
    BY <1>1, <1>4, InstanceChain DEF Grown, Addresses
  <2> QED
    BY <1>1, <1>2, <2>1, <2>2, <2>3, DoneCounts
<1>5. CASE setsKeys
  <2>1. todo # << >> /\ ~Registers(1) /\ todo' = Tail(todo) /\ run'.mine = run.mine
    BY <1>1, <1>5, KeysRun DEF Registers
  <2>2. ~run'.written
    BY <1>1, <1>5 DEF setsKeys, Done, Types, Runs
  <2>3. Addresses \subseteq Addresses'
    BY <1>1, <1>5, KeysChain DEF Grown, Addresses
  <2> QED
    BY <1>1, <1>2, <2>1, <2>2, <2>3, DoneCounts
<1>6. CASE deployPoll
  <2>1. todo # << >> /\ ~Registers(1)
    BY <1>1, <1>6, PollRun DEF Registers
  <2>2. todo' = Tail(todo) /\ DOMAIN run'.mine = Kinds
    BY <1>1, <1>6, PollMine
  <2>3. ~run'.written
    BY <1>1, <1>6 DEF deployPoll, Done, Types, Runs
  <2>4. Addresses \subseteq Addresses'
    BY <1>1, <1>6, PollChain DEF Grown, Addresses
  <2>5. \A id \in DOMAIN run'.mine : run'.mine[id] \notin Addresses
    <3>1. \A i \in 1..Len(NewPoll) : Len(chain) + i \notin Addresses
      BY <1>1 DEF Addresses
    <3> QED
      BY <1>1, <1>6, <2>2, <3>1, PollMine
  <2> QED
    BY <1>1, <1>2, <2>1, <2>2, <2>3, <2>4, <2>5, DoneCounts
<1> QED
  BY <1>3, <1>4, <1>5, <1>6

LEMMA InstanceCounts ==
  ASSUME TasksInv, CountsInv, registersInstance
  PROVE  CountsInv'
<1>1. /\ UNCHANGED <<chain, named, unnamed>> /\ ~run.written
      /\ instance' = instance \cup {Registered} /\ run' = [run EXCEPT !.written = TRUE]
  BY DEF registersInstance, history
<1>2. Types /\ RunInv
  BY DEF TasksInv
<1>3. todo # << >> /\ Registers(1)
  <2>1. PICK what \in {"register", "registerPoll"} : Doing(what)
    BY DEF registersInstance, Registering
  <2> QED
    BY <1>2, <2>1, HeadItem DEF Registers
<1>4. 1 \in Left /\ Registered = run.mine[todo[1].id]
  BY <1>2, <1>3, HeadRegisters DEF Registered
<1>5. todo' = todo /\ run'.mine = run.mine /\ run'.written
  BY <1>1, <1>2 DEF Types, Runs, todo
<1>6. /\ Left' = Left /\ (\A k : Registers(k)' <=> Registers(k))
      /\ NamedAddresses' = NamedAddresses /\ Addresses' = Addresses
  BY <1>1, <1>5 DEF Left, Registers, NamedAddresses, Addresses
<1>7. WrittenInv'
  BY <1>1, <1>3, <1>4, <1>5, <1>6 DEF WrittenInv
<1>8. UnnamedInv'
  BY <1>1, <1>5, <1>6 DEF CountsInv, UnnamedInv
<1>9. HalfRegistered = {} /\ HalfRegistered' = {Registered}
  BY <1>1, <1>4, <1>5 DEF HalfRegistered
<1>10. InstancesInv'
  BY <1>1, <1>6, <1>9 DEF CountsInv, InstancesInv
<1> QED
  BY <1>7, <1>8, <1>10 DEF CountsInv

LEMMA NameCounts ==
  ASSUME TasksInv, CountsInv, registersName
  PROVE  CountsInv'
<1> DEFINE it == todo[1]
           a == run.mine[it.id]
           name == RegisteredName
<1>1. Types /\ RunInv
  BY DEF TasksInv
<1>2. /\ UNCHANGED <<config, chain, history>> /\ UNCHANGED <<instance, unnamed>> /\ run.written
      /\ run' = Done
  BY DEF registersName, history
<1>3. todo # << >> /\ Registers(1)
  <2>1. PICK what \in {"register", "registerPoll"} : Doing(what)
    BY DEF registersName, Registering
  <2> QED
    BY <1>1, <2>1, HeadItem DEF Registers
<1>4. /\ 1 \in Left /\ Head(run.todo) = it /\ it.id \in DOMAIN run.mine /\ a \in Addresses
      /\ \A id \in DOMAIN run.mine : chain[run.mine[id]].id = id
  BY <1>1, <1>3, HeadRegisters
<1>5. name \in Names
  <2>1. it \in Items /\ run.pollId \in Nat
    BY <1>1, <1>4, TodoTyped, RunTyped DEF Types
  <2>2. name = <<it.id, IF it.do = "registerPoll" THEN run.pollId ELSE NoKey>>
    BY <1>3, <1>4 DEF RegisteredName, Doing, todo
  <2> HIDE DEF it, name
  <2>3. it.do = "register" => it.id \in Ids
    BY <2>1, ItemTyped
  <2>4. it.do = "registerPoll" => it.id \in AllKinds
    BY <2>1, ItemTyped
  <2>5. it.do = "register" \/ it.do = "registerPoll"
    BY <1>3 DEF Registers, it
  <2> QED
    BY <2>1, <2>2, <2>3, <2>4, <2>5 DEF Names
<1>6. Register(name, a)
  BY <1>4 DEF registersName, Register, Registered
<1>7. /\ run' \in Runs /\ todo' = Tail(todo) /\ run'.mine = run.mine /\ ~run'.written
  BY <1>1, <1>2, <1>3, DoneSame DEF Types
<1> HIDE DEF it, a, name
<1>8. /\ DOMAIN named' = DOMAIN named \cup {name} /\ named'[name].address = a
      /\ name \in DOMAIN named => named'[name].count # 1
      /\ \A m \in DOMAIN named : m # name => named'[m] = named[m]
  BY <1>1, <1>2, <1>4, <1>5, <1>6, <1>7, NameWritten
<1>9. NamedAddresses' \subseteq NamedAddresses \cup {a}
  BY <1>8 DEF NamedAddresses
<1>10. HalfRegistered = {a} /\ HalfRegistered' = {}
  BY <1>2, <1>7 DEF HalfRegistered, a, it
<1>11. \A k \in Left' : k + 1 \in Left /\ todo'[k] = todo[k + 1] /\ k \in Nat /\ k >= 1
  BY <1>1, <1>3, <1>7, NextItem DEF Left
<1>12. \A k \in Left' : Registers(k)' => Registers(k + 1)
  BY <1>11 DEF Registers
<1>13. unnamed \subseteq Addresses' /\ unnamed \cap NamedAddresses' = {}
  BY <1>2, <1>4, <1>9 DEF CountsInv, UnnamedInv, Addresses, a
<1>14. ASSUME NEW k \in Left', Registers(k)', todo'[k].id \in DOMAIN run.mine
       PROVE  run.mine[todo'[k].id] \notin NamedAddresses'
  <2>1. run.mine[todo'[k].id] \notin NamedAddresses
    BY <1>11, <1>12, <1>14 DEF CountsInv, UnnamedInv
  <2>2. todo[k + 1].id # it.id
    <3>1. k + 1 # 1 /\ k + 1 \in Left
      BY <1>11
    <3> QED
      BY <1>3, <1>4, <1>12, <1>14, <3>1 DEF CountsInv, UnnamedInv, it
  <2>3. run.mine[todo'[k].id] # a
    BY <1>4, <1>11, <1>14, <2>2 DEF a
  <2> QED
    BY <1>9, <2>1, <2>3
<1>15. ASSUME NEW j \in Left', NEW k \in Left', Registers(j)', Registers(k)', todo'[j].id = todo'[k].id
       PROVE  j = k
  <2>1. j + 1 = k + 1
    BY <1>11, <1>12, <1>15 DEF CountsInv, UnnamedInv
  <2> QED
    BY <1>11, <2>1
<1>16. UnnamedInv'
  <2>1. \A id \in DOMAIN run.mine : run.mine[id] \notin unnamed
    BY DEF CountsInv, UnnamedInv
  <2> QED
    BY <1>2, <1>7, <1>13, <1>14, <1>15, <2>1 DEF UnnamedInv
<1>17. InstancesInv'
  <2> SUFFICES ASSUME \A m \in DOMAIN named' : named'[m].count = 1
               PROVE  instance' = NamedAddresses' \cup unnamed'
    BY <1>10 DEF InstancesInv
  <2>1. name \notin DOMAIN named
    BY <1>8
  <2>2. \A m \in DOMAIN named : named'[m] = named[m] /\ named[m].count = 1
    BY <1>8, <2>1
  <2>3. instance = NamedAddresses \cup unnamed \cup {a}
    BY <1>10, <2>2 DEF CountsInv, InstancesInv
  <2>4. NamedAddresses' = NamedAddresses \cup {a}
    BY <1>8, <2>2 DEF NamedAddresses
  <2> QED
    BY <1>2, <2>3, <2>4
<1> QED
  BY <1>7, <1>16, <1>17 DEF CountsInv, WrittenInv

LEMMA CountsNext ==
  ASSUME TasksInv, CountsInv, [Next]_vars
  PROVE  CountsInv'
<1>1. CASE UNCHANGED <<named, instance, run, unnamed>> /\ Len(chain') = Len(chain)
  <2>1. todo' = todo /\ Left' = Left /\ (\A k : Registers(k)' <=> Registers(k))
    BY <1>1 DEF todo, Left, Registers
  <2>2. HalfRegistered' = HalfRegistered /\ NamedAddresses' = NamedAddresses /\ Addresses' = Addresses
    BY <1>1, <2>1 DEF HalfRegistered, NamedAddresses, Addresses
  <2> QED
    BY <1>1, <2>1, <2>2 DEF CountsInv, WrittenInv, UnnamedInv, InstancesInv
<1>2. CASE mergeTrees
  BY <1>1, <1>2 DEF mergeTrees, storage, history, TasksInv, Types
<1>3. CASE UNCHANGED vars
  BY <1>1, <1>3 DEF vars, storage, history
<1>4. ASSUME NEW incremental \in BOOLEAN, NEW skip \in Skips, start("full", incremental, skip)
      PROVE  CountsInv'
  BY <1>4, StartCounts
<1>5. CASE start("poll", TRUE, 0)
  BY <1>5, StartCounts
<1>6. CASE runStep
  BY <1>6, BeginCounts
<1>7. CASE deployContract \/ setsMaciInstance \/ setsKeys \/ deployPoll
  BY <1>7, ActCounts
<1>8. CASE registersInstance
  BY <1>8, InstanceCounts
<1>9. CASE registersName
  BY <1>9, NameCounts
<1>10. CASE throws \/ finish \/ crash
  BY <1>10, StopCounts
<1> QED
  BY <1>2, <1>3, <1>4, <1>5, <1>6, <1>7, <1>8, <1>9, <1>10 DEF Next, Advance

-----------------------------------------------------------------------------
(***************************************************************************)
(* Every reachable state.                                                  *)
(***************************************************************************)
LEMMA TasksInit == Init => TasksInv
<1> SUFFICES ASSUME Init PROVE TasksInv
  OBVIOUS
<1>1. DOMAIN << >> = {} /\ DOMAIN named = {} /\ chain = << >> /\ run = Idle
  BY DEF Init
<1>2. Types
  <2>1. << >> \in Seq(Contracts)
    OBVIOUS
  <2>2. named \in [DOMAIN named -> [address : Addresses, count : Nat \ {0}]]
    BY DEF Init
  <2>3. IsFiniteSet(DOMAIN named)
    BY <1>1, FS_EmptySet
  <2> QED
    BY <1>1, <2>1, <2>2, <2>3, IdleTyped DEF Init, Types
<1>3. \A id : ~Saved(id)
  BY <1>1 DEF Saved
<1>4. RefsOnChain
  <2>1. Addresses = {}
    BY <1>1 DEF Addresses
  <2> QED
    BY <2>1 DEF RefsOnChain
<1>6. NamesInv /\ RegisteredIsUsable /\ GatekeepersInv /\ PollNamesInv /\ PollsKnownInv
  BY <1>1, <1>3 DEF NamesInv, RegisteredIsUsable, GatekeepersInv, PollNamesInv, PollsKnownInv
<1>7. RunInv
  BY <1>1, IdleTyped DEF RunInv
<1> QED
  BY <1>2, <1>4, <1>6, <1>7 DEF TasksInv, StorageInv

LEMMA TasksStutter ==
  ASSUME TasksInv, UNCHANGED vars
  PROVE  TasksInv'
<1>1. UNCHANGED <<config, chain, named, instance, run, lost, skippedGatekeepers>>
  BY DEF vars, storage, history
<1>2. UNCHANGED storage /\ Types /\ StorageInv /\ PollsKnownInv /\ RunInv
  BY <1>1 DEF storage, TasksInv
<1>3. Types'
  BY <1>1, <1>2, TypesSame DEF Types
<1>4. StorageInv'
  BY <1>1, <1>2, StorageSame
<1>5. run' = [run EXCEPT !.written = run'.written]
  BY <1>1, <1>2 DEF Types, Runs
<1>6. RunInv' /\ \A kind, id : PollKnown(kind, id)' <=> PollKnown(kind, id)
  BY <1>1, <1>2, <1>3, <1>5, RunInvSame DEF Types
<1>7. PollsKnownInv'
  BY <1>1, <1>2, <1>6 DEF PollsKnownInv, Polls, Saved, AddressOf, Kinds
<1> QED
  BY <1>3, <1>4, <1>6, <1>7 DEF TasksInv

LEMMA TasksNext ==
  ASSUME TasksInv, WrittenInv, [Next]_vars
  PROVE  TasksInv'
<1>1. CASE UNCHANGED vars
  BY <1>1, TasksStutter
<1>2. ASSUME NEW incremental \in BOOLEAN, NEW skip \in Skips, start("full", incremental, skip)
      PROVE  TasksInv'
  BY <1>2, StartStep
<1>3. CASE start("poll", TRUE, 0)
  BY <1>3, StartStep
<1>4. CASE runStep
  BY <1>4, BeginStep
<1>5. CASE deployContract
  BY <1>5, DeployStep
<1>6. CASE setsMaciInstance
  BY <1>6, InstanceStep
<1>7. CASE setsKeys
  BY <1>7, KeysStep
<1>8. CASE deployPoll
  BY <1>8, PollDeployStep
<1>9. CASE registersInstance \/ registersName
  BY <1>9, InstanceWritten, NameStep
<1>10. CASE throws \/ finish \/ crash
  BY <1>10, StopStep
<1>11. CASE mergeTrees
  BY <1>11, MergeStep
<1> QED
  BY <1>1, <1>2, <1>3, <1>4, <1>5, <1>6, <1>7, <1>8, <1>9, <1>10, <1>11 DEF Next, Advance

\* However deploy-full and deploy-poll are interrupted and run again, between
\* any two of their effects: what is on the chain, what the storage knows and
\* what the run has left to do stay in step.
THEOREM DeploymentInvariant == Spec => []DeploymentInv
<1>1. Init => DeploymentInv
  BY TasksInit, CountsInit DEF DeploymentInv
<1>2. DeploymentInv /\ [Next]_vars => DeploymentInv'
  BY TasksNext, CountsNext DEF DeploymentInv, CountsInv
<1> QED
  BY <1>1, <1>2, PTL DEF Spec

\* A contract that the incremental mode takes for done is done: MACI is
\* registered after its gatekeeper has learnt of it, the registry after its
\* keys are set, and neither is ever registered anew over one that is.
THEOREM RegisteredContractsUsable == Spec => []RegisteredIsUsable
<1>1. DeploymentInv => RegisteredIsUsable
  BY DEF DeploymentInv, TasksInv, StorageInv
<1> QED
  BY <1>1, DeploymentInvariant, PTL

\* What is registered belongs together: no contract is deployed again under a
\* name that a registered contract was built with, as long as the step of the
\* gatekeepers is not jumped.
THEOREM RegisteredTogether == Spec => []WiredTogether
<1>1. DeploymentInv => WiredTogether
  <2> SUFFICES ASSUME DeploymentInv, NEW name \in DOMAIN named
               PROVE  LET address == named[name].address
                          refs == chain[address].refs
                      IN  /\ chain[address].id = name[1] /\ address \in instance
                          /\ name[2] = NoKey /\ ~Exempt =>
                               \A id \in DOMAIN refs : Saved(id) /\ refs[id] = AddressOf(id)
    BY DEF WiredTogether, Exempt
  <2>1. chain[named[name].address].id = name[1] /\ named[name].address \in instance
    BY DEF DeploymentInv, TasksInv, StorageInv, NamesInv
  <2>2. ASSUME name[2] = NoKey, ~Exempt
        PROVE  \A id \in DOMAIN chain[named[name].address].refs :
                 Saved(id) /\ chain[named[name].address].refs[id] = AddressOf(id)
    <3>1. name \in Ids \X {NoKey} \/ name \in AllKinds \X Nat
      BY DEF DeploymentInv, TasksInv, Types, Names
    <3>2. name[1] \in Ids /\ name = <<name[1], NoKey>>
      BY <2>2, <3>1 DEF NoKey
    <3>3. Saved(name[1]) /\ AddressOf(name[1]) = named[name].address
      BY <3>2 DEF Saved, AddressOf
    <3>4. Wired(chain[AddressOf(name[1])].refs, name[1])
      BY <2>2, <3>2, <3>3 DEF DeploymentInv, TasksInv, StorageInv, NamesInv
    <3> QED
      BY <3>3, <3>4 DEF Wired
  <2> QED
    BY <2>1, <2>2
<1> QED
  BY <1>1, DeploymentInvariant, PTL

\* A poll's contracts are registered under the ID that MACI gave it, though
\* the ID is read before the poll is deployed and its contracts are registered
\* one by one; only an interrupted run leaves a poll without some of them.
THEOREM PollsByTheirIds == Spec => []PollsUnderTheirIds
<1>1. DeploymentInv => PollsUnderTheirIds
  <2> SUFFICES ASSUME DeploymentInv PROVE PollsUnderTheirIds
    OBVIOUS
  <2> USE DEF DeploymentInv, TasksInv, StorageInv
  <2>1. ASSUME NEW name \in DOMAIN named, name[2] # NoKey
        PROVE  /\ Saved("MACI") /\ name[2] < Len(Polls)
               /\ IF name[1] = "Poll" THEN named[name].address = Polls[name[2] + 1]
                  ELSE chain[named[name].address].refs["Poll"] = Polls[name[2] + 1]
    <3>1. name[1] \in AllKinds
      BY <2>1, PollNameTyped
    <3> QED
      BY <3>1 DEF PollNamesInv, OfPoll
  <2>2. ASSUME run = Idle, Saved("MACI"), NEW id \in 0..(Len(Polls) - 1), id \notin lost,
               NEW kind \in Kinds
        PROVE  <<kind, id>> \in DOMAIN named
    <3>1. PollKnown(kind, id)
      BY <2>2 DEF PollsKnownInv
    <3> QED
      BY <2>2, <3>1, IdleTyped DEF PollKnown
  <2> QED
    BY <2>1, <2>2 DEF PollsUnderTheirIds, Polls, Kinds
<1> QED
  BY <1>1, DeploymentInvariant, PTL

LEMMA OneToOne ==
  ASSUME NEW S, IsFiniteSet(S), NEW f, DOMAIN f = S,
         \A x \in S, y \in S : f[x] = f[y] => x = y
  PROVE  Cardinality({f[x] : x \in S}) = Cardinality(S)
<1> DEFINE T == {f[x] : x \in S}
           g == [x \in S |-> f[x]]
<1>1. g \in [S -> T]
  OBVIOUS
<1>2. g \in Injection(S, T)
  BY <1>1 DEF Injection, IsInjective
<1>3. g \in Surjection(S, T)
  BY <1>1 DEF Surjection
<1>4. ExistsBijection(S, T)
  BY <1>2, <1>3 DEF ExistsBijection, Bijection
<1> QED
  BY <1>4, FS_Bijection

\* With one poll at most a name belongs to one contract.
LEMMA NamesApart ==
  ASSUME Types, NEW a \in DOMAIN named, NEW b \in DOMAIN named,
         a[2] <= 0, b[2] <= 0, a[1] = b[1]
  PROVE  a = b
<1>1. ASSUME NEW name \in DOMAIN named
      PROVE  name \in Ids \X {NoKey} \/ name \in AllKinds \X Nat
  BY DEF Types, Names
<1>2. a[1] \in Ids \/ a[1] \in AllKinds
  BY <1>1
<1>3. CASE a[1] \in Ids
  <2>1. a = <<a[1], NoKey>>
    BY <1>3, PollNameTyped
  <2>2. b = <<b[1], NoKey>>
    BY <1>3, PollNameTyped
  <2> QED
    BY <2>1, <2>2
<1>4. CASE a[1] \in AllKinds
  <2>1. a[2] \in Nat /\ b[2] \in Nat
    BY <1>4, PollNameTyped
  <2>2. a[2] = b[2]
    BY <2>1
  <2>3. a = <<a[1], a[2]>>
    BY <1>1
  <2>4. b = <<b[1], b[2]>>
    BY <1>1
  <2> QED
    BY <2>2, <2>3, <2>4
<1> QED
  BY <1>2, <1>3, <1>4

LEMMA MultiCounted ==
  ASSUME Types, NEW name \in DOMAIN named, named[name].count > 1
  PROVE  multiCount > 0
<1> DEFINE S == {n \in DOMAIN named : named[n].count > 1}
<1>1. IsFiniteSet(S) /\ name \in S
  BY FS_Subset DEF Types
<1>2. Cardinality(S) \in Nat /\ Cardinality(S) # 0
  BY <1>1, FS_CardinalityType, FS_EmptySet
<1> QED
  BY <1>2 DEF multiCount

\* The check of the results: while there is one poll at most, it warns if and
\* only if something was registered twice or an instance was left without a
\* name; else the names of the contracts and the addresses are as many.
THEOREM OnePollWarnsWhenDue == Spec => []WarnsWhenDue
<1>1. DeploymentInv => WarnsWhenDue
  <2> SUFFICES ASSUME DeploymentInv, Checking,
                      \A name \in DOMAIN named : name[2] <= 0,
                      \A name \in DOMAIN named : ~(named[name].count > 1)
               PROVE  hasWarn <=> unnamed # {}
    <3>1. ASSUME DeploymentInv, NEW name \in DOMAIN named, named[name].count > 1
          PROVE  hasWarn
      BY <3>1, MultiCounted DEF DeploymentInv, TasksInv, hasWarn
    <3> QED
      BY <3>1 DEF WarnsWhenDue
  <2> DEFINE S == DOMAIN named
             kind == [name \in S |-> name[1]]
             place == [name \in S |-> named[name].address]
  <2>1. Types /\ NamesInv /\ CountsInv /\ IsFiniteSet(S)
    BY DEF DeploymentInv, TasksInv, StorageInv, Types
  <2>2. \A name \in S : named[name].count = 1
    <3> SUFFICES ASSUME NEW name \in S PROVE named[name].count = 1
      OBVIOUS
    <3>1. named[name].count \in Nat \ {0}
      BY <2>1, NameTyped
    <3> QED
      BY <3>1
  <2>3. multiCount = 0
    <3>1. {name \in DOMAIN named : named[name].count > 1} = {}
      OBVIOUS
    <3> QED
      BY <3>1, FS_EmptySet DEF multiCount
  <2>4. entryMap = {kind[name] : name \in S}
    BY <2>2 DEF entryMap
  <2>5. /\ NamedAddresses = {place[name] : name \in S}
        /\ instance = NamedAddresses \cup unnamed /\ unnamed \cap NamedAddresses = {}
    <3>1. HalfRegistered = {}
      BY <2>1 DEF Checking, CountsInv, WrittenInv, HalfRegistered, Left, todo
    <3> QED
      BY <2>1, <2>2, <3>1 DEF CountsInv, InstancesInv, UnnamedInv, NamedAddresses
  <2>6. \A a \in S, b \in S : kind[a] = kind[b] => a = b
    BY <2>1, NamesApart
  <2>7. \A a \in S, b \in S : place[a] = place[b] => a = b
    <3> SUFFICES ASSUME NEW a \in S, NEW b \in S, place[a] = place[b] PROVE a = b
      OBVIOUS
    <3>1. a[1] = b[1]
      BY <2>1 DEF NamesInv
    <3> QED
      BY <2>1, <3>1, NamesApart
  <2>8. DOMAIN kind = S /\ DOMAIN place = S
    OBVIOUS
  <2>9. Cardinality({kind[name] : name \in S}) = Cardinality(S)
    <3> HIDE DEF kind, S
    <3> QED
      BY <2>1, <2>6, <2>8, OneToOne
  <2>10. Cardinality({place[name] : name \in S}) = Cardinality(S)
    <3> HIDE DEF place, S
    <3> QED
      BY <2>1, <2>7, <2>8, OneToOne
  <2> HIDE DEF kind, place
  <2>11. IsFiniteSet(NamedAddresses) /\ IsFiniteSet(unnamed)
    <3>1. IsFiniteSet(Addresses)
      <4>1. Len(chain) \in Int /\ 1 \in Int
        BY <2>1 DEF Types
      <4> QED
        BY <4>1, FS_Interval DEF Addresses
    <3> QED
      BY <2>1, <3>1, NamedOnChain, FS_Subset DEF CountsInv, UnnamedInv
  <2>12. Cardinality(instance) = Cardinality(NamedAddresses) + Cardinality(unnamed)
    <3>1. Cardinality(NamedAddresses \cap unnamed) = 0
      <4>1. NamedAddresses \cap unnamed = {}
        BY <2>5
      <4> QED
        BY <4>1, FS_EmptySet
    <3>2. Cardinality(NamedAddresses) \in Nat /\ Cardinality(unnamed) \in Nat
      BY <2>11, FS_CardinalityType
    <3>3. Cardinality(NamedAddresses \cup unnamed) =
            Cardinality(NamedAddresses) + Cardinality(unnamed) - Cardinality(NamedAddresses \cap unnamed)
      BY <2>11, FS_Union
    <3> QED
      BY <2>5, <3>1, <3>2, <3>3
  <2>13. /\ Cardinality(unnamed) \in Nat /\ Cardinality(NamedAddresses) \in Nat
         /\ Cardinality(unnamed) = 0 <=> unnamed = {}
    BY <2>11, FS_CardinalityType, FS_EmptySet
  <2>14. Cardinality(entryMap) = Cardinality(NamedAddresses)
    BY <2>4, <2>5, <2>9, <2>10
  <2> QED
    BY <2>3, <2>12, <2>13, <2>14 DEF hasWarn
<1> QED
  BY <1>1, DeploymentInvariant, PTL
=============================================================================
