--------------------------- MODULE SnapshotFreeze ---------------------------
(***************************************************************************)
(* How a scenario is frozen: RolloverScenarioService.Create reads anchors, *)
(* candidates, one page of chains and all services, outside a transaction, *)
(* and stores what it read                                                 *)
(* (backend/internal/service/rollover_scenario_service.go and common.go,   *)
(* internal/algorithm/simulator.go, the repositories it reads from).       *)
(*                                                                         *)
(* The commits of other handlers fall between the reads.  Each is one step *)
(* here, with what TrustInventory and DependencyGraph show of it: rows are *)
(* never deleted, a service names an existing chain and existing services, *)
(* and two concurrent updates can close a cycle.                           *)
(***************************************************************************)
EXTENDS Integers, FiniteSets

CONSTANTS
    AnchorIds, ChainIds, ServiceIds,  \* row numbers, given in ascending order
    Requests,    \* the scenarios a client can describe
    Times,       \* when chains expire
    PageSize,    \* how many chains the freeze asks for
    FirstAnchors, FirstChains, FirstServices,  \* the tables at first
    MaxCommits   \* bound on the commits of other handlers

ASSUME PageAssumption == PageSize \in Nat \ {0} /\ MaxCommits \in Nat

ASSUME NumbersAssumption ==
    /\ AnchorIds \subseteq Nat /\ ChainIds \subseteq Nat /\ ServiceIds \subseteq Nat
    /\ Times \subseteq Int

ASSUME RequestsAssumption ==
    /\ Requests # {}
    /\ \A asked \in Requests :
          /\ {asked.OldAnchorID, asked.NewAnchorID} \subseteq Nat \ {0}
          /\ asked.CandidateChainIDs \subseteq ChainIds
          /\ asked.CandidateChainIDs # {}

VARIABLES
    anchors, chains, services,  \* the tables: a row for each existing number
    request,     \* the creation of a scenario under way
    commits      \* commits of other handlers so far

vars == <<anchors, chains, services, request, commits>>

-----------------------------------------------------------------------------
(* Rows.  Leaves, trusted anchors and the begin of validity are left out:  *)
(* nothing of the freeze looks at them.                                    *)

AnchorStates == {"valid", "revoked"}
Chain == [ValidTo : Times, State : {"validated", "deprecated", "revoked"}]
Service ==
    [ChainID : ChainIds, DependencyIDs : SUBSET ServiceIds,
     State : {"active", "inactive"}]

IsTable(table, ids, rows) ==
    DOMAIN table \subseteq ids /\ table \in [DOMAIN table -> rows]

\* A service depends on other services of the table only.
IsClosed(table) ==
    \A id \in DOMAIN table : table[id].DependencyIDs \subseteq DOMAIN table \ {id}

ASSUME TablesAssumption ==
    /\ IsTable(FirstAnchors, AnchorIds, AnchorStates)
    /\ IsTable(FirstChains, ChainIds, Chain) /\ IsFiniteSet(DOMAIN FirstChains)
    /\ IsTable(FirstServices, ServiceIds, Service) /\ IsClosed(FirstServices)

NoRows == [id \in {} |-> {}]

\* ORDER BY valid_to ASC, id DESC
Precedes_ByNumber(a, b) == a < b  \* fault: as the other tables are read
Precedes(a, b) ==
    \/ chains[a].ValidTo < chains[b].ValidTo
    \/ chains[a].ValidTo = chains[b].ValidTo /\ a > b

FirstPage_InUse ==  \* fault: as a list for users, without what is out of use
    {id \in DOMAIN chains :
        /\ chains[id].State = "validated"
        /\ Cardinality({other \in DOMAIN chains : Precedes(other, id)}) < PageSize}
\* LIMIT: those that fewer than PageSize chains precede.
FirstPage ==
    {id \in DOMAIN chains :
        Cardinality({other \in DOMAIN chains : Precedes(other, id)}) < PageSize}

-----------------------------------------------------------------------------
(* The creation of a scenario.                                             *)

Answers ==
    {"none", "created", "notDistinct", "noAnchors", "noCandidates", "invalid",
     "candidateMissing", "cyclic", "failed"}

Idle ==
    [pc |-> "idle", config |-> CHOOSE asked \in Requests : TRUE,
     anchors |-> NoRows, chains |-> NoRows, services |-> NoRows,
     answer |-> "none",
     seen |-> {},          \* history: the chains there were when they were read
     overtaken |-> FALSE]  \* history: something committed since the first read

Become(next) ==
    /\ request' = next
    /\ UNCHANGED <<anchors, chains, services, commits>>

Refuse(answer) == Become([request EXCEPT !.pc = "answered", !.answer = answer])

Start ==
    /\ request.pc = "idle"
    /\ \E asked \in Requests :
          LET distinct == asked.OldAnchorID # asked.NewAnchorID
          IN  Become([Idle EXCEPT
                 !.pc = IF distinct THEN "anchors" ELSE "answered",
                 !.answer = IF distinct THEN "none" ELSE "notDistinct",
                 !.config = asked])

\* GetByIDs; an error of the read is answered as a missing row.
ReadAnchors ==
    LET ids == {request.config.OldAnchorID, request.config.NewAnchorID}
    IN  /\ request.pc = "anchors"
        /\ \/ Refuse("noAnchors")
           \/ /\ ids \subseteq DOMAIN anchors
              /\ Become([request EXCEPT !.pc = "candidates",
                            !.anchors = [id \in ids |-> anchors[id]]])

\* The rows that are found are counted and dropped.
CandidatesExist == request.config.CandidateChainIDs \subseteq DOMAIN chains

ReadCandidates ==
    /\ request.pc = "candidates"
    /\ \/ Refuse("noCandidates")
       \/ /\ CandidatesExist
          /\ Become([request EXCEPT !.pc = "chains"])

\* List: the first page, whether or not there are more.
ReadChains ==
    /\ request.pc = "chains"
    /\ \/ Refuse("failed")
       \/ Become([request EXCEPT !.pc = "services", !.seen = DOMAIN chains,
                     !.chains = [id \in FirstPage |-> chains[id]]])

\* All
Frozen_ActiveOnly ==  \* fault: inactive services are left out
    [id \in {service \in DOMAIN services : services[service].State = "active"} |->
        services[id]]
Frozen == services

ReadServices ==
    /\ request.pc = "services"
    /\ \/ Refuse("failed")
       \/ Become([request EXCEPT !.pc = "build", !.services = Frozen])

\* What is read is what Simulator starts from.
Snapshot ==
    INSTANCE Simulator WITH
        config <- request.config, chains <- request.chains,
        services <- request.services, LeafSubjects <- {},
        Configs <- Requests, ChainTables <- {}, ServiceTables <- {},
        pc <- "validate", state <- NoRows, stack <- << >>, result <- {}

\* buildSnapshot; ValidateSnapshot says what is wrong.
BuildSnapshot ==
    LET inOrder == request.config.OverlapStart < request.config.OverlapEnd
    IN  /\ request.pc = "build"
        /\ \/ /\ Snapshot!Valid /\ ~Snapshot!Cyclic(Snapshot!Graph)
              /\ Become([request EXCEPT !.pc = "commit"])
           \/ /\ Snapshot!Valid /\ Snapshot!Cyclic(Snapshot!Graph)
              /\ Refuse("cyclic")
           \/ /\ ~Snapshot!Valid
              /\ Refuse(IF inOrder THEN "candidateMissing" ELSE "invalid")

\* The draft is stored with what was read, however old it is by now.
Commit ==
    /\ request.pc = "commit"
    /\ Refuse("created") \/ Refuse("failed")

Respond == request.pc = "answered" /\ Become(Idle)

Create ==
    Start \/ ReadAnchors \/ ReadCandidates \/ ReadChains \/ ReadServices
    \/ BuildSnapshot \/ Commit \/ Respond

-----------------------------------------------------------------------------
(* What other handlers commit meanwhile.                                   *)

Overtake(next) ==
    /\ commits < MaxCommits /\ commits' = commits + 1
    /\ request' = [request EXCEPT !.overtaken = request.pc # "idle"]
    /\ anchors' = next.anchors /\ chains' = next.chains /\ services' = next.services

Tables == [anchors |-> anchors, chains |-> chains, services |-> services]

NextId(ids, table) ==
    CHOOSE id \in ids \ DOMAIN table :
        \A other \in ids \ DOMAIN table : id <= other

With(table, id, row) ==
    [some \in DOMAIN table \cup {id} |-> IF some = id THEN row ELSE table[some]]

ImportAnchor ==
    /\ AnchorIds \ DOMAIN anchors # {}
    /\ Overtake([Tables EXCEPT
          !.anchors = With(@, NextId(AnchorIds, anchors), "valid")])

RevokeAnchor ==
    \E id \in DOMAIN anchors :
        /\ anchors[id] = "valid"
        /\ Overtake([Tables EXCEPT !.anchors[id] = "revoked"])

ImportChain ==
    /\ ChainIds \ DOMAIN chains # {}
    /\ \E time \in Times :
          Overtake([Tables EXCEPT
             !.chains = With(@, NextId(ChainIds, chains),
                                [ValidTo |-> time, State |-> "validated"])])

TransitionChain ==
    \E id \in DOMAIN chains, to \in {"deprecated", "revoked"} :
        /\ chains[id].State # "revoked" /\ chains[id].State # to
        /\ Overtake([Tables EXCEPT !.chains[id].State = to])

\* validateReferences: the chain exists, the dependencies are other services
\* that exist.
ReferencesExist(id, row) ==
    /\ row.ChainID \in DOMAIN chains
    /\ row.DependencyIDs \subseteq DOMAIN services \ {id}

Rows(id) ==
    {row \in [ChainID : ChainIds, DependencyIDs : SUBSET ServiceIds, State : {"active"}] :
        ReferencesExist(id, row)}

CreateService ==
    /\ ServiceIds \ DOMAIN services # {}
    /\ LET id == NextId(ServiceIds, services)
       IN  \E row \in Rows(id) :
              Overtake([Tables EXCEPT !.services = With(@, id, row)])

\* An inactive service can be changed and stays inactive.
UpdateService ==
    \E id \in DOMAIN services : \E row \in Rows(id) :
        Overtake([Tables EXCEPT
           !.services[id] = [row EXCEPT !.State = services[id].State]])

DeactivateService ==
    \E id \in DOMAIN services :
        /\ services[id].State = "active"
        /\ Overtake([Tables EXCEPT !.services[id].State = "inactive"])

Others ==
    ImportAnchor \/ RevokeAnchor \/ ImportChain \/ TransitionChain
    \/ CreateService \/ UpdateService \/ DeactivateService

-----------------------------------------------------------------------------
Init ==
    /\ anchors = FirstAnchors /\ chains = FirstChains /\ services = FirstServices
    /\ request = Idle
    /\ commits = 0

Next == Create \/ Others

Spec == Init /\ [][Next]_vars

-----------------------------------------------------------------------------
(* Properties.                                                             *)

Judged == request.answer \in {"created", "candidateMissing", "cyclic"}

\* Every variable keeps its type, and a scenario that is stored meets what
\* Simulator assumes of its input: dependencies lead to services of the same
\* snapshot, although services are added between the reads.
TypeOK ==
    /\ IsTable(anchors, AnchorIds, AnchorStates)
    /\ IsTable(chains, ChainIds, Chain)
    /\ IsTable(services, ServiceIds, Service)
    /\ commits \in 0..MaxCommits
    /\ request.config \in Requests /\ request.answer \in Answers
    /\ request.answer = "created" => IsClosed(request.services)

\* A chain that a stored scenario needs and does not hold - the simulation
\* says of its service "configured certificate chain is missing" - and a
\* candidate that a refusal calls missing is one of two kinds: it was imported
\* for a service after the chains were read, or there were more chains than
\* the page holds and it expires no earlier than any that was frozen.
MissingChainsExpireLast ==
    Judged =>
        LET frozen == DOMAIN request.chains
            used == {request.services[id].ChainID : id \in DOMAIN request.services}
        IN  /\ \A id \in used \ frozen :
                  id \in request.seen => Cardinality(frozen) = PageSize
            /\ \A id \in request.config.CandidateChainIDs \ frozen :
                  id \in request.seen
            /\ \A id \in (used \cup request.config.CandidateChainIDs) \ frozen :
                  id \in request.seen =>
                     \A other \in frozen : chains[other].ValidTo <= chains[id].ValidTo

\* Unless another handler commits while a scenario is created, what is stored
\* is the model as it is, all of it if the chains fit the page, and a request is
\* refused for a cycle if and only if the services form one.
QuietSnapshotIsTheModel ==
    Judged /\ ~request.overtaken =>
        /\ \A id \in DOMAIN request.anchors : request.anchors[id] = anchors[id]
        /\ \A id \in DOMAIN request.chains : request.chains[id] = chains[id]
        /\ Cardinality(DOMAIN chains) <= PageSize => request.chains = chains
        /\ request.services = services
        /\ request.answer = "cyclic" <=>
              /\ request.config.CandidateChainIDs \subseteq DOMAIN request.chains
              /\ Snapshot!Cyclic([id \in DOMAIN services |-> services[id].DependencyIDs])

=============================================================================
