----------------------------- MODULE Simulator -----------------------------
(***************************************************************************)
(* The simulation of a rollover over a frozen snapshot                     *)
(* (backend/internal/algorithm/simulator.go): the snapshot is validated,   *)
(* a depth-first search looks for a dependency cycle, and every active     *)
(* service is evaluated at a handful of times around the overlap window.   *)
(*                                                                         *)
(* The search goes over a Go map, whose order differs from run to run: it  *)
(* is modelled step by step, its roots in any order.  Times are numbers;   *)
(* the minute the code adds before and after the window is 1.              *)
(***************************************************************************)
EXTENDS CycleDetection, Integers, FiniteSetsExt, SequencesExt

CONSTANTS
    AnchorIds,     \* numbers, 0 stands for none, as in the code
    ChainIds, ServiceIds,
    LeafSubjects,
    Configs,       \* scenarios a request can describe
    ChainTables,   \* certificate chains a freeze can find
    ServiceTables  \* dependent services a freeze can find

\* Lists of identifiers are sets here: NewSnapshot sorts them and drops
\* repetitions and zeros.
ScenarioConfig ==
    [OldAnchorID : Nat, NewAnchorID : Nat, OverlapStart : Int, OverlapEnd : Int,
     SimulationTime : Int, CandidateChainIDs : SUBSET ChainIds]

ChainSnapshot ==
    [AnchorID : AnchorIds, LeafSubject : LeafSubjects, ValidFrom : Int,
     ValidTo : Int, State : {"validated", "deprecated", "revoked"}]

ServiceSnapshot ==
    [ChainID : ChainIds, TrustAnchorIDs : SUBSET AnchorIds,
     DependencyIDs : SUBSET ServiceIds, State : {"active", "inactive"}]

ASSUME IdsAssumption ==
    /\ AnchorIds \subseteq Nat \ {0}
    /\ ChainIds \subseteq Nat \ {0}
    /\ ServiceIds \subseteq Nat \ {0}

ASSUME InputAssumption ==
    /\ Configs \subseteq ScenarioConfig
    /\ \A chains \in ChainTables :
          DOMAIN chains \subseteq ChainIds /\ chains \in [DOMAIN chains -> ChainSnapshot]
    /\ \A services \in ServiceTables :
          /\ DOMAIN services \subseteq ServiceIds
          /\ services \in [DOMAIN services -> ServiceSnapshot]
          /\ \A id \in DOMAIN services :
                services[id].DependencyIDs \subseteq DOMAIN services \ {id}

VARIABLES
    config, chains, services,  \* the snapshot
    pc,          \* how far the simulation has come
    state,       \* of the search: 0 unseen, 1 on the stack, 2 finished
    stack,       \* the calls of visit, each with the dependencies it has left
    result

vars == <<config, chains, services, pc, state, stack, result>>
snapshot == <<config, chains, services>>

-----------------------------------------------------------------------------
(* ValidateSnapshot.                                                       *)

Graph == [id \in DOMAIN services |-> services[id].DependencyIDs]

Refused == "refused"

Valid ==
    /\ 0 \notin {config.OldAnchorID, config.NewAnchorID}
    /\ config.OldAnchorID # config.NewAnchorID
    /\ config.OverlapStart < config.OverlapEnd
    /\ config.CandidateChainIDs \subseteq DOMAIN chains

Validate ==
    /\ pc = "validate"
    /\ pc' = IF Valid THEN "visit" ELSE Refused
    /\ UNCHANGED <<snapshot, state, stack, result>>

Opened_Finished(id) == [state EXCEPT ![id] = 2]  \* fault: marked once only
Opened(id) == [state EXCEPT ![id] = 1]

\* for id := range edges { visit(id) }; a finished service returns at once.
Root ==
    /\ pc = "visit" /\ stack = << >>
    /\ \E id \in DOMAIN services :
          /\ state[id] = 0
          /\ state' = Opened(id)
          /\ stack' = <<[id |-> id, left |-> Graph[id]]>>
    /\ UNCHANGED <<snapshot, pc, result>>

\* The innermost call visits its next dependency.
Descend ==
    /\ pc = "visit" /\ stack # << >> /\ Last(stack).left # {}
    /\ LET next == Min(Last(stack).left)
           rest == [stack EXCEPT ![Len(stack)].left = @ \ {next}]
       IN  \/ /\ state[next] = 1
              /\ pc' = "cyclic"
              /\ UNCHANGED <<state, stack>>
           \/ /\ state[next] = 2
              /\ stack' = rest
              /\ UNCHANGED <<state, pc>>
           \/ /\ state[next] = 0
              /\ state' = Opened(next)
              /\ stack' = Append(rest, [id |-> next, left |-> Graph[next]])
              /\ UNCHANGED pc
    /\ UNCHANGED <<snapshot, result>>

Finished_StaysOpen(id) == state  \* fault: a finished service is not marked
Finished(id) == [state EXCEPT ![id] = 2]

Leave ==
    /\ pc = "visit" /\ stack # << >> /\ Last(stack).left = {}
    /\ state' = Finished(Last(stack).id)
    /\ stack' = Front(stack)
    /\ UNCHANGED <<snapshot, pc, result>>

-----------------------------------------------------------------------------
(* Simulate.                                                               *)

criticalTimes ==
    {config.OverlapStart - 1, config.OverlapStart,
     config.OverlapStart + (config.OverlapEnd - config.OverlapStart) \div 2,
     config.OverlapEnd, config.OverlapEnd + 1, config.SimulationTime}

activeAnchors_NoOverlap(at) ==  \* fault: the old anchor goes when the new comes
    IF at < config.OverlapStart THEN {config.OldAnchorID} ELSE {config.NewAnchorID}
activeAnchors(at) ==
    (IF at <= config.OverlapEnd THEN {config.OldAnchorID} ELSE {}) \cup
    (IF at >= config.OverlapStart THEN {config.NewAnchorID} ELSE {})

\* Chains for the same leaf as the one a service is configured with.
Candidates(service) ==
    {id \in (config.CandidateChainIDs \cup {service.ChainID}) \cap DOMAIN chains :
        chains[id].LeafSubject = chains[service.ChainID].LeafSubject}

Usable(service, chain, at) ==
    /\ chain.State \notin {"revoked", "deprecated"}
    /\ chain.ValidFrom <= at /\ at < chain.ValidTo
    /\ chain.AnchorID \in activeAnchors(at) \cap service.TrustAnchorIDs

\* The chain a service is reached by at a time, the usable one of lowest
\* number, or 0.
evaluateDirect(service, at) ==
    LET usable == {id \in Candidates(service) : Usable(service, chains[id], at)}
    IN  IF service.ChainID \notin DOMAIN chains \/ usable = {} THEN 0 ELSE Min(usable)

Active == {id \in DOMAIN services : services[id].State = "active"}

\* Services that are absent, inactive or without a usable chain.
Failing(at) == {id \in DOMAIN services :
                   id \notin Active \/ evaluateDirect(services[id], at) = 0}

\* The path from a service to the first failing one among those it depends
\* on, depth first and by number; empty if there is none.  `resolve` is given
\* a service and the path that led to it.
resolveService_OneHop(failing, from) ==  \* fault: only direct dependencies
    LET broken == Graph[from] \cap failing
    IN  CASE from \in failing                    -> <<from>>
          [] from \notin failing /\ broken # {}  -> <<from, Min(broken)>>
          [] from \notin failing /\ broken = {}  -> << >>
resolveService_OwnPath(failing, from) ==  \* fault: stops at the one that asks
    LET resolve[id \in DOMAIN services] ==
            IF id \in failing \/ \E next \in Graph[id] : resolve[next] # << >>
            THEN <<id>> ELSE << >>
    IN  resolve[from]
resolveService(failing, from) ==
    LET resolve[id \in DOMAIN services] == [path \in Seq(DOMAIN services) |->
            LET here == Append(path, id)
                broken == {next \in Graph[id] : resolve[next][here] # << >>}
            IN  IF id \in failing \/ Contains(path, id) THEN here
                ELSE IF broken # {} THEN resolve[Min(broken)][here]
                ELSE << >>]
    IN  resolve[from][<< >>]

\* What is found of every active service at a time: it is reachable if its
\* broken path is empty.
Outcomes(at) ==
    LET failing == Failing(at)
    IN  {[At |-> at, ServiceID |-> id,
          SelectedChainID |-> evaluateDirect(services[id], at),
          BrokenPath |-> resolveService(failing, id)] : id \in Active}

\* What is said of the failures: that there are none, that some fall before
\* the window, that some fall after it.
explain(failures) ==
    {word \in {"allReachable", "tooLate", "tooEarly"} :
        CASE word = "allReachable" -> failures = {}
          [] word = "tooLate"  -> \E f \in failures : f.At < config.OverlapStart
          [] word = "tooEarly" -> \E f \in failures : f.At > config.OverlapEnd}

NoResult == [Evidence |-> {}, Explanation |-> {}]

Result ==
    LET evidence == UNION {Outcomes(at) : at \in criticalTimes}
    IN  [Evidence    |-> evidence,
         Explanation |-> explain({found \in evidence : found.BrokenPath # << >>})]

\* The search has finished every service: each active one is evaluated at each
\* of the times.
Simulate ==
    /\ pc = "visit" /\ stack = << >>
    /\ \A id \in DOMAIN services : state[id] = 2
    /\ result' = Result
    /\ pc' = "simulated"
    /\ UNCHANGED <<snapshot, state, stack>>

-----------------------------------------------------------------------------
\* Every snapshot a freeze can take of the tables.
Init ==
    /\ config \in Configs /\ chains \in ChainTables /\ services \in ServiceTables
    /\ pc = "validate"
    /\ state = [id \in DOMAIN services |-> 0]
    /\ stack = << >>
    /\ result = NoResult

Next == Validate \/ Root \/ Descend \/ Leave \/ Simulate

Spec == Init /\ [][Next]_vars /\ WF_vars(Next)

-----------------------------------------------------------------------------
(* Properties.                                                             *)

\* Whatever order the map is iterated in, the search ends, and it refuses a
\* snapshot if and only if its dependencies form a cycle.
SearchDecidesCycles ==
    /\ pc = "cyclic" => Cyclic(Graph)
    /\ pc = "simulated" => ~Cyclic(Graph)
SearchEnds == <>(pc \in {Refused, "cyclic", "simulated"})

Sound(id, at) == id \in Active /\ evaluateDirect(services[id], at) # 0

\* A service that needs nothing that fails: it belongs to a set of sound
\* services that depend on each other only.
ReachableAt(id, at) ==
    \E closed \in SUBSET Active :
        /\ id \in closed
        /\ \A member \in closed : Sound(member, at) /\ Graph[member] \subseteq closed

\* The evidence says "reachable" of exactly the services all of whose direct
\* and indirect dependencies are active and hold a usable chain at that time.
EvidenceIsExact ==
    \A found \in result.Evidence :
        found.BrokenPath = << >> <=> ReachableAt(found.ServiceID, found.At)

\* A broken path leads from its service along dependencies, through services
\* that are sound themselves, to one that is not.
BrokenPathsAreWitnesses ==
    \A found \in result.Evidence :
        LET path == found.BrokenPath
        IN  path # << >> =>
               /\ Head(path) = found.ServiceID
               /\ \A i \in 1..(Len(path) - 1) :
                     Sound(path[i], found.At) /\ path[i + 1] \in Graph[path[i]]
               /\ ~Sound(Last(path), found.At)

\* The overlap itself breaks nothing: a service that is reachable just before
\* the window stays so at every evaluated time within it, unless a chain
\* expires.
OverlapBreaksNothing ==
    LET before == config.OverlapStart - 1
    IN  \A found \in result.Evidence :
           /\ config.OverlapStart <= found.At /\ found.At <= config.OverlapEnd
           /\ found.BrokenPath # << >>
           /\ \A chain \in DOMAIN chains :
                 chains[chain].ValidTo \notin (before + 1)..found.At
           => \E earlier \in result.Evidence :
                 /\ earlier.At = before /\ earlier.ServiceID = found.ServiceID
                 /\ earlier.BrokenPath # << >>

(* A statement of the code that its result does not bear out.              *)

\* "All active service trust paths remain reachable before, during, and after
\* the proposed overlap window."
SilenceMeansReachable ==
    "allReachable" \in result.Explanation =>
        \A at \in (config.OverlapStart - 1)..(config.OverlapEnd + 1), id \in Active :
            ReachableAt(id, at)

=============================================================================
