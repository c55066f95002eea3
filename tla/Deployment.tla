----------------------------- MODULE Deployment -----------------------------
(***************************************************************************)
(* The hardhat tasks deploy-full and deploy-poll (contracts/tasks): each   *)
(* runs the steps of its catalog, a step deploys contracts and registers   *)
(* them in deployed-contracts.json, and a later run in incremental mode    *)
(* skips the steps whose contracts are registered.  A run may stop between *)
(* any two of its effects, a transaction or a write to the file, because   *)
(* the process dies or a transaction fails, and is run again.  The file    *)
(* belongs to one task at a time.                                          *)
(*                                                                         *)
(* The chain outlives the process (sepolia, not hardhat's own network).  A *)
(* contract is modelled by its kind, the addresses it was built with and   *)
(* what the tasks set in it; its address is its position on the chain.     *)
(***************************************************************************)
EXTENDS Integers, Sequences, FiniteSets

CONSTANTS
  Configs,          (* deploy-config.json: which gatekeepers to deploy and *)
                    (*   use, whether there are subsidy keys and contracts *)
                    (*   and the voice credit proxy is not switched off    *)
  Skips,            (* the values of --skip                                *)
  MaxPolls,         (* bound on the polls                                  *)
  MaxMishaps        (* bound on interruptions, clean runs and runs with    *)
                    (*   --skip, together                                  *)

ASSUME DeploymentBounds == MaxPolls \in Nat /\ MaxMishaps \in Nat

\* The tasks deploy these two gatekeepers and know no other.
Gatekeepers == {"FreeForAllGatekeeper", "EASGatekeeper"}

ASSUME ConfigsTyped ==
  \A c \in Configs : /\ c.gatekeepers \subseteq Gatekeepers /\ c.gatekeeper \in Gatekeepers
                     /\ c.subsidyKeys \in BOOLEAN /\ c.subsidyPolls \in BOOLEAN
                     /\ c.voiceCredits \in BOOLEAN

VARIABLES
  config, chain,
  named,            (* storage: name -> address and count of registrations *)
  instance,         (* storage: the addresses registered                   *)
  run,              (* the task running, its step, what the step has left  *)
                    (*   to do, whether it has written the instance of the *)
                    (*   contract it registers, and what it has deployed   *)
  lost,             (* history: the polls deployed in a run that stopped   *)
                    (*   before it had registered them                     *)
  unnamed,          (* history: the instances written by runs that stopped *)
                    (*   before they had written the name                  *)
  skippedGatekeepers,        (* history: a run has skipped their step      *)
  mishaps

storage == <<named, instance>>
history == <<lost, unnamed, skippedGatekeepers, mishaps>>
vars == <<config, chain, storage, run, history>>

Poseidons == {"PoseidonT3", "PoseidonT4", "PoseidonT5", "PoseidonT6"}
Factories == {"PollFactory", "MessageProcessorFactory", "TallyFactory", "SubsidyFactory"}

Contract(id, refs) ==
  [id |-> id, refs |-> refs, maci |-> 0, keys |-> {}, polls |-> << >>, treeMerged |-> FALSE]

\* f with the value at x.
With(f, x, value) == [y \in DOMAIN f \cup {x} |-> IF y = x THEN value ELSE f[y]]

NoKey == -1
Saved(id) == <<id, NoKey>> \in DOMAIN named
AddressOf(id) == named[<<id, NoKey>>].address

Idle == [task |-> "none", incremental |-> FALSE, skip |-> 0, step |-> 0,
         todo |-> << >>, written |-> FALSE, pollId |-> 0, mine |-> << >>]

Init ==
  /\ config \in Configs
  /\ chain = << >>
  /\ named = << >> /\ instance = {}
  /\ run = Idle
  /\ lost = {} /\ unnamed = {} /\ skippedGatekeepers = FALSE
  /\ mishaps = 0

-----------------------------------------------------------------------------
(***************************************************************************)
(* What a step does, settled from the storage when it begins.              *)
(***************************************************************************)
deploy(id, needs) ==
  [do |-> "deploy", id |-> id, refs |-> [need \in needs |-> AddressOf(need)]]
register(id) == [do |-> "register", id |-> id]
registerPoll(id) == [do |-> "registerPoll", id |-> id]
Throw == <<[do |-> "throw"]>>

Skippable(ids) == run.incremental /\ \A id \in ids : Saved(id)

\* mustGetAddress of everything the contract needs.
Needing(needs, todo) == IF \A need \in needs : Saved(need) THEN todo ELSE Throw

SimpleStep(id, needs) ==
  IF Skippable({id}) THEN << >>
  ELSE Needing(needs, <<deploy(id, needs), register(id)>>)

VoiceCreditsStep ==
  IF config.voiceCredits THEN SimpleStep("ConstantInitialVoiceCreditProxy", {}) ELSE << >>

PoseidonStep ==
  IF Skippable(Poseidons) THEN << >>
  ELSE <<deploy("PoseidonT3", {}), deploy("PoseidonT4", {}),
         deploy("PoseidonT5", {}), deploy("PoseidonT6", {}),
         register("PoseidonT3"), register("PoseidonT4"),
         register("PoseidonT5"), register("PoseidonT6")>>

\* Mutant: the gatekeepers are deployed in every run.
NeverSkipped == FALSE

\* All the gatekeepers of the configuration are registered, or none is wanted.
canSkipDeploy == Skippable(config.gatekeepers) /\ config.gatekeepers # {}

GatekeepersStep ==
  LET one(id) == IF id \in config.gatekeepers THEN <<deploy(id, {}), register(id)>> ELSE << >>
  IN  IF canSkipDeploy THEN << >> ELSE one("FreeForAllGatekeeper") \o one("EASGatekeeper")

MaciNeeds ==
  Poseidons \cup Factories
    \cup {"ConstantInitialVoiceCreditProxy", "TopupCredit", config.gatekeeper}

setMaciInstance ==
  IF config.gatekeeper = "EASGatekeeper"
  THEN <<[do |-> "setMaciInstance", id |-> AddressOf(config.gatekeeper)]>> ELSE << >>

\* Mutant: MACI is registered before the gatekeeper knows it.
RegisteredFirst ==
  IF Skippable({"MACI"}) THEN << >>
  ELSE Needing(MaciNeeds, <<deploy("MACI", MaciNeeds), register("MACI")>> \o setMaciInstance)

MaciStep ==
  IF Skippable({"MACI"}) THEN << >>
  ELSE Needing(MaciNeeds, <<deploy("MACI", MaciNeeds)>> \o setMaciInstance \o <<register("MACI")>>)

VkRegistryStep ==
  LET key(kind) == <<[do |-> "setKeys", id |-> kind]>>
  IN  IF Skippable({"VkRegistry"}) THEN << >>
      ELSE <<deploy("VkRegistry", {})>> \o key("verifying")
             \o (IF config.subsidyKeys THEN key("subsidy") ELSE << >>)
             \o <<register("VkRegistry")>>

\* A poll whose predecessor has not merged is not deployed, and that is no
\* error.
PollStep ==
  LET maci == chain[AddressOf("MACI")]
  IN  IF ~(Saved("MACI") /\ Saved("Verifier") /\ Saved("VkRegistry")) THEN Throw
      ELSE IF Len(maci.polls) > 0 /\ ~maci.treeMerged THEN << >>
      ELSE <<[do |-> "deployPoll"],
             registerPoll("Poll"), registerPoll("MessageProcessor"), registerPoll("Tally")>>
           \o (IF config.subsidyPolls THEN <<registerPoll("Subsidy")>> ELSE << >>)

\* Mutant: the files of the steps without their leading zeros, 10 before 2.
CatalogUnpadded(task) ==
  IF task = "poll" THEN <<"poll">>
  ELSE <<"voiceCreditProxy", "maci", "vkRegistry", "gatekeepers", "verifier", "topupCredit",
         "poseidon", "pollFactory", "messageProcessorFactory", "tallyFactory", "subsidyFactory">>

Catalog(task) ==
  IF task = "poll" THEN <<"poll">>
  ELSE <<"voiceCreditProxy", "gatekeepers", "verifier", "topupCredit", "poseidon",
         "pollFactory", "messageProcessorFactory", "tallyFactory", "subsidyFactory",
         "maci", "vkRegistry">>

StepOf(name) ==
  CASE name = "voiceCreditProxy" -> VoiceCreditsStep
    [] name = "gatekeepers" -> GatekeepersStep
    [] name = "verifier" -> SimpleStep("Verifier", {})
    [] name = "topupCredit" -> SimpleStep("TopupCredit", {})
    [] name = "poseidon" -> PoseidonStep
    [] name = "pollFactory" -> SimpleStep("PollFactory", Poseidons)
    [] name = "messageProcessorFactory" -> SimpleStep("MessageProcessorFactory", Poseidons)
    [] name = "tallyFactory" -> SimpleStep("TallyFactory", Poseidons)
    [] name = "subsidyFactory" -> SimpleStep("SubsidyFactory", Poseidons)
    [] name = "maci" -> MaciStep
    [] name = "vkRegistry" -> VkRegistryStep
    [] name = "poll" -> PollStep

-----------------------------------------------------------------------------
\* Mutant: the instances outlive the names.
InstancesKept == instance

CleanedInstances == {}

CleanedNames == << >>

\* deploy-full, or deploy-poll, which is always incremental.
start(task, incremental, skip) ==
  LET plain == incremental /\ skip = 0 IN
  /\ run = Idle
  /\ task = "poll" => plain
  /\ ~plain => mishaps < MaxMishaps
  /\ run' = [Idle EXCEPT !.task = task, !.incremental = incremental, !.skip = skip]
  /\ named' = IF incremental THEN named ELSE CleanedNames
  /\ instance' = IF incremental THEN instance ELSE CleanedInstances
  /\ mishaps' = mishaps + (IF plain THEN 0 ELSE 1)
  /\ lost' = IF incremental THEN lost ELSE {}
  /\ unnamed' = IF incremental THEN unnamed ELSE {}
  /\ UNCHANGED <<config, chain, skippedGatekeepers>>

\* Mutant: the ID is read once the poll is there.
IdOfNextPoll == Len(chain[AddressOf("MACI")].polls) + 1

pollId == Len(chain[AddressOf("MACI")].polls)

runStep ==
  LET step == run.step + 1
      skipped == step <= run.skip
  IN  /\ run # Idle /\ run.todo = << >>
      /\ step <= Len(Catalog(run.task))
      /\ run' = [run EXCEPT !.step = step,
                            !.todo = IF skipped THEN << >> ELSE StepOf(Catalog(run.task)[step]),
                            !.pollId = IF run.task = "poll" /\ Saved("MACI") THEN pollId ELSE 0,
                            !.mine = << >>]
      /\ skippedGatekeepers' =
           (skippedGatekeepers \/ (skipped /\ Catalog(run.task)[step] = "gatekeepers"))
      /\ UNCHANGED <<config, chain, storage, lost, unnamed, mishaps>>

Doing(what) == run.todo # << >> /\ Head(run.todo).do = what
Done == [run EXCEPT !.todo = Tail(@), !.written = FALSE]

deployContract ==
  /\ Doing("deploy")
  /\ LET it == Head(run.todo)
     IN  /\ chain' = Append(chain, Contract(it.id, it.refs))
         /\ run' = [Done EXCEPT !.mine = With(@, it.id, Len(chain) + 1)]
  /\ UNCHANGED <<config, storage, history>>

setsMaciInstance ==
  /\ Doing("setMaciInstance")
  /\ chain' = [chain EXCEPT ![Head(run.todo).id].maci = run.mine["MACI"]]
  /\ run' = Done
  /\ UNCHANGED <<config, storage, history>>

setsKeys ==
  /\ Doing("setKeys")
  /\ chain' = [chain EXCEPT ![run.mine["VkRegistry"]].keys = @ \cup {Head(run.todo).id}]
  /\ run' = Done
  /\ UNCHANGED <<config, storage, history>>

\* What MACI.deployPoll creates for a poll at this address, one after the other.
PollContracts(maci, poll) ==
  LET base == With([ref \in {"Verifier", "VkRegistry"} |-> AddressOf(ref)], "Poll", poll)
      both == With(base, "MessageProcessor", poll + 1)
  IN  <<Contract("Poll", [ref \in {"MACI"} |-> maci]), Contract("MessageProcessor", base),
        Contract("Tally", both)>>
      \o (IF config.subsidyPolls THEN <<Contract("Subsidy", both)>> ELSE << >>)

\* One transaction.
deployPoll ==
  /\ Doing("deployPoll")
  /\ LET n == Len(chain)
         maci == AddressOf("MACI")
         new == PollContracts(maci, n + 1)
     IN  /\ chain' = [chain EXCEPT ![maci].polls = Append(@, n + 1)] \o new
         /\ run' = [Done EXCEPT !.mine = [id \in {c.id : c \in {new[i] : i \in DOMAIN new}} |->
                                            n + CHOOSE i \in DOMAIN new : new[i].id = id]]
  /\ UNCHANGED <<config, storage, history>>

Registering == Doing("register") \/ Doing("registerPoll")

\* What the item at the head registers, and the name it gets.
Registered == run.mine[Head(run.todo).id]
RegisteredName == <<Head(run.todo).id, IF Doing("registerPoll") THEN run.pollId ELSE NoKey>>

\* A registration is two writes of the file, first the instance's entry.
registersInstance ==
  /\ Registering /\ ~run.written
  /\ instance' = instance \cup {Registered}
  /\ run' = [run EXCEPT !.written = TRUE]
  /\ UNCHANGED <<config, chain, named, history>>

registersName ==
  /\ Registering /\ run.written
  /\ named' = With(named, RegisteredName,
                   [address |-> Registered,
                    count |-> 1 + IF RegisteredName \in DOMAIN named
                                  THEN named[RegisteredName].count ELSE 0])
  /\ run' = Done
  /\ UNCHANGED <<config, chain, instance, history>>

throws ==
  /\ Doing("throw")
  /\ run' = Idle
  /\ UNCHANGED <<config, chain, storage, history>>

\* printContracts: a name registered twice counts in multiCount; the others
\* are put in a map by the name of the contract, without the poll's key.
multiCount == Cardinality({name \in DOMAIN named : named[name].count > 1})
entryMap == {name[1] : name \in {n \in DOMAIN named : named[n].count = 1}}

hasWarn == multiCount > 0 \/ Cardinality(entryMap) # Cardinality(instance)

\* The steps are done and their results are to be checked.
Checking == run # Idle /\ run.todo = << >> /\ run.step = Len(Catalog(run.task))

\* The warning decides how the task exits if it is strict, and nothing else.
finish ==
  /\ Checking
  /\ run' = Idle
  /\ UNCHANGED <<config, chain, storage, history>>

\* A poll that the run has deployed and not registered in full is lost: the
\* next run takes the next ID.  An instance that it has written without the
\* name stays in the file.
crash ==
  /\ run.todo # << >> /\ mishaps < MaxMishaps
  /\ mishaps' = mishaps + 1
  /\ lost' = IF Doing("registerPoll") THEN lost \cup {run.pollId} ELSE lost
  /\ unnamed' = IF run.written THEN unnamed \cup {Registered} ELSE unnamed
  /\ run' = Idle
  /\ UNCHANGED <<config, chain, storage, skippedGatekeepers>>

\* The merge task, which takes a poll by its ID from MACI, registered or not.
mergeTrees ==
  /\ run = Idle /\ Saved("MACI")
  /\ LET maci == AddressOf("MACI")
     IN  /\ chain[maci].polls # << >>
         /\ ~chain[maci].treeMerged
         /\ chain' = [chain EXCEPT ![maci].treeMerged = TRUE]
  /\ UNCHANGED <<config, storage, run, history>>

PollsLeft == Saved("MACI") => pollId < MaxPolls

Advance ==
  \/ runStep \/ deployContract \/ setsMaciInstance \/ setsKeys \/ deployPoll
  \/ registersInstance \/ registersName \/ throws \/ finish

Next ==
  \/ \E incremental \in BOOLEAN, skip \in Skips : start("full", incremental, skip)
  \/ PollsLeft /\ start("poll", TRUE, 0)
  \/ Advance
  \/ crash
  \/ mergeTrees

\* A run gets on, and the operator runs deploy-full again, incrementally and
\* without --skip.  The second is strong, for other runs come in between.
Fairness == WF_vars(Advance) /\ SF_vars(start("full", TRUE, 0))

Spec == Init /\ [][Next]_vars /\ Fairness

-----------------------------------------------------------------------------
\* However often a deployment is interrupted and resumed, a contract that the
\* incremental mode takes for done is done: the gatekeeper of the registered
\* MACI knows that MACI, and the registry has its keys.
RegisteredIsUsable ==
  /\ Saved("MACI") /\ config.gatekeeper = "EASGatekeeper" =>
       chain[chain[AddressOf("MACI")].refs["EASGatekeeper"]].maci = AddressOf("MACI")
  /\ Saved("VkRegistry") =>
       chain[AddressOf("VkRegistry")].keys =
         {"verifying"} \cup (IF config.subsidyKeys THEN {"subsidy"} ELSE {})

\* The registered contracts are one system: each is of the kind of its name,
\* its address is among the instances, and it was built with the addresses
\* that are registered.  Not so once --skip has jumped the gatekeepers' step,
\* for that step deploys both again when one is missing and MACI keeps the
\* old one.
WiredTogether ==
  \A name \in DOMAIN named :
    LET address == named[name].address
        refs == chain[address].refs
    IN  /\ chain[address].id = name[1] /\ address \in instance
        /\ name[2] = NoKey /\ ~(skippedGatekeepers /\ Cardinality(config.gatekeepers) > 1) =>
             \A id \in DOMAIN refs : Saved(id) /\ refs[id] = AddressOf(id)

\* The contracts registered under a poll's ID are those of the poll that the
\* registered MACI knows by that ID, and only a run that was interrupted
\* leaves a poll without them.
PollsUnderTheirIds ==
  LET kinds == {"Poll", "MessageProcessor", "Tally"}
                 \cup (IF config.subsidyPolls THEN {"Subsidy"} ELSE {})
      polls == chain[AddressOf("MACI")].polls
  IN  /\ \A name \in DOMAIN named : name[2] # NoKey =>
           /\ Saved("MACI") /\ name[2] < Len(polls)
           /\ LET it == chain[named[name].address]
              IN  IF name[1] = "Poll" THEN named[name].address = polls[name[2] + 1]
                  ELSE it.refs["Poll"] = polls[name[2] + 1]
      /\ run = Idle /\ Saved("MACI") =>
           \A id \in 0..(Len(polls) - 1) : id \notin lost =>
             \A kind \in kinds : <<kind, id>> \in DOMAIN named

\* While one poll at most is registered, the check of the results warns if
\* and only if it should: something was registered twice, or a run stopped
\* between the two writes of a registration and left an instance without a
\* name.  With two polls it has false alarms, for entryMap holds one of them.
WarnsWhenDue ==
  Checking /\ (\A name \in DOMAIN named : name[2] <= 0) =>
    (hasWarn <=> (\E name \in DOMAIN named : named[name].count > 1) \/ unnamed # {})

\* Run after run, every interrupted deployment is completed, unless the voice
\* credit proxy, which MACI needs, is not to be deployed.
DeploymentCompletes == config.voiceCredits => <>[](Saved("MACI") /\ Saved("VkRegistry"))
=============================================================================
