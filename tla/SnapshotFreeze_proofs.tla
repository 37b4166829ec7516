----------------------- MODULE SnapshotFreeze_proofs -----------------------
(* Proofs of the properties of SnapshotFreeze: the page of chains, what    *)
(* the other handlers can commit, and the creation stage by stage.         *)
EXTENDS SnapshotFreeze, FiniteSetTheorems, WellFoundedInduction, TLAPS

-----------------------------------------------------------------------------
(* The page.                                                               *)

\* A set of natural numbers has a least member.
LEMMA LeastNatural ==
  ASSUME NEW set, set \subseteq Nat, set # {}
  PROVE  \E n \in set : \A m \in set : n <= m
<1>1. PICK n \in set : \A m \in set : ~ (<<m, n>> \in OpToRel(<, Nat))
  BY WFMin, NatLessThanWellFounded, Zenon
<1>2. ASSUME NEW m \in set, m < n PROVE <<m, n>> \in OpToRel(<, Nat)
  BY <1>2, Zenon DEF OpToRel
<1>3. ASSUME NEW m \in set PROVE ~(m < n)
  BY <1>1, <1>2, Zenon
<1> QED BY <1>3

ChainsAreRows ==
    IsTable(chains, ChainIds, Chain) /\ IsFiniteSet(DOMAIN chains)

\* The chains that are listed before one.
Before(id) == {other \in DOMAIN chains : Precedes(other, id)}

\* The order of the list is a strict total order.
LEMMA PrecedesIsOrder ==
  ASSUME ChainsAreRows
  PROVE  /\ \A a \in DOMAIN chains : ~Precedes(a, a)
         /\ \A a, b \in DOMAIN chains : a # b => Precedes(a, b) \/ Precedes(b, a)
         /\ \A a, b, c \in DOMAIN chains :
               Precedes(a, b) /\ Precedes(b, c) => Precedes(a, c)
<1>1. \A a \in DOMAIN chains : a \in Nat /\ chains[a].ValidTo \in Int
  BY NumbersAssumption DEF ChainsAreRows, IsTable, Chain
<1> QED BY <1>1 DEF Precedes

\* The number of those before a chain grows along the list.
LEMMA BeforeGrows ==
  ASSUME ChainsAreRows
  PROVE  /\ \A a \in DOMAIN chains :
               IsFiniteSet(Before(a)) /\ Cardinality(Before(a)) \in Nat
         /\ \A a, b \in DOMAIN chains :
               Precedes(a, b) => Cardinality(Before(a)) < Cardinality(Before(b))
<1>1. ASSUME NEW a \in DOMAIN chains
      PROVE  IsFiniteSet(Before(a)) /\ Cardinality(Before(a)) \in Nat
  <2>1. Before(a) \subseteq DOMAIN chains
    BY DEF Before
  <2> QED BY <2>1, FS_Subset, FS_CardinalityType DEF ChainsAreRows
<1>2. ASSUME NEW a \in DOMAIN chains, NEW b \in DOMAIN chains, Precedes(a, b)
      PROVE  Cardinality(Before(a)) < Cardinality(Before(b))
  <2>1. a \notin Before(a) /\ Before(a) \cup {a} \subseteq Before(b)
    BY <1>2, PrecedesIsOrder DEF Before
  <2>2. Cardinality(Before(a) \cup {a}) = Cardinality(Before(a)) + 1
    BY <1>1, <2>1, FS_AddElement
  <2>3. Cardinality(Before(a) \cup {a}) <= Cardinality(Before(b))
    BY <1>1, <2>1, FS_Subset
  <2> QED BY <1>1, <2>2, <2>3
<1> QED BY <1>1, <1>2

\* A chain that the page leaves out is listed after all of the page, which is
\* full.
LEMMA PageIsFull ==
  ASSUME ChainsAreRows, NEW id \in DOMAIN chains, id \notin FirstPage
  PROVE  /\ Cardinality(FirstPage) = PageSize
         /\ \A other \in FirstPage : chains[other].ValidTo <= chains[id].ValidTo
<1> DEFINE Rank(chain) == Cardinality(Before(chain))
<1>1. /\ \A a \in DOMAIN chains : Rank(a) \in Nat /\ IsFiniteSet(Before(a))
      /\ \A a, b \in DOMAIN chains : Precedes(a, b) => Rank(a) < Rank(b)
  BY BeforeGrows
<1>2. \A chain : chain \in FirstPage <=> chain \in DOMAIN chains /\ Rank(chain) < PageSize
  BY DEF FirstPage, Before
<1> HIDE DEF Rank
<1>3. ASSUME NEW first \in FirstPage, NEW out \in DOMAIN chains, out \notin FirstPage
      PROVE  Precedes(first, out)
  BY <1>1, <1>2, <1>3, PrecedesIsOrder, PageAssumption
<1>4. \A a \in DOMAIN chains : chains[a].ValidTo \in Int
  BY NumbersAssumption DEF ChainsAreRows, IsTable, Chain
<1>5. \A other \in FirstPage : chains[other].ValidTo <= chains[id].ValidTo
  BY <1>2, <1>3, <1>4 DEF Precedes
<1>6. PICK m \in DOMAIN chains \ FirstPage :
         \A out \in DOMAIN chains \ FirstPage : Rank(m) <= Rank(out)
  <2> DEFINE ranks == {Rank(out) : out \in DOMAIN chains \ FirstPage}
  <2>1. ranks \subseteq Nat /\ ranks # {}
    BY <1>1
  <2>2. PICK n \in ranks : \A other \in ranks : n <= other
    <3> HIDE DEF ranks
    <3> QED BY <2>1, LeastNatural
  <2> QED BY <2>2
<1>7. Before(m) = FirstPage
  <2>1. ASSUME NEW chain \in Before(m) PROVE chain \in FirstPage
    <3>1. chain \in DOMAIN chains /\ Precedes(chain, m) /\ m \in DOMAIN chains
      BY <2>1 DEF Before
    <3>2. Rank(chain) < Rank(m) /\ Rank(chain) \in Nat /\ Rank(m) \in Nat
      BY <1>1, <3>1
    <3> QED BY <1>6, <3>1, <3>2
  <2>2. ASSUME NEW chain \in FirstPage PROVE chain \in Before(m)
    BY <1>2, <1>3, <1>6 DEF Before
  <2> QED BY <2>1, <2>2
<1>8. Rank(m) >= PageSize /\ Rank(m) = Cardinality(FirstPage)
  BY <1>1, <1>2, <1>6, <1>7, PageAssumption DEF Rank
<1>9. PICK q \in FirstPage : \A other \in FirstPage : Rank(other) <= Rank(q)
  <2> DEFINE ranks == {PageSize - Rank(chain) : chain \in FirstPage}
  <2>1. IsFiniteSet(FirstPage)
    BY <1>1, <1>6, <1>7
  <2>2. FirstPage # {}
    BY <1>8, FS_EmptySet, PageAssumption
  <2>3. ranks \subseteq Nat /\ ranks # {}
    BY <1>1, <1>2, <2>2, PageAssumption
  <2>4. PICK n \in ranks : \A other \in ranks : n <= other
    <3> HIDE DEF ranks
    <3> QED BY <2>3, LeastNatural
  <2>5. PICK q \in FirstPage : n = PageSize - Rank(q)
    BY <2>4
  <2>6. \A other \in FirstPage : PageSize - Rank(q) <= PageSize - Rank(other)
    BY <2>4, <2>5
  <2> QED BY <1>1, <1>2, <2>5, <2>6, PageAssumption
<1>10. FirstPage \subseteq Before(q) \cup {q}
  <2> SUFFICES ASSUME NEW chain \in FirstPage, chain # q PROVE Precedes(chain, q)
    BY <1>2 DEF Before
  <2>1. chain \in DOMAIN chains /\ q \in DOMAIN chains
    BY <1>2
  <2>2. ~Precedes(q, chain)
    BY <1>1, <1>9, <2>1
  <2> QED BY <2>1, <2>2, PrecedesIsOrder
<1>11. Cardinality(FirstPage) <= Rank(q) + 1
  <2>1. q \in DOMAIN chains /\ q \notin Before(q)
    BY <1>2, PrecedesIsOrder DEF Before
  <2>2. /\ IsFiniteSet(Before(q) \cup {q})
        /\ Cardinality(Before(q) \cup {q}) = Rank(q) + 1
    BY <1>1, <2>1, FS_AddElement DEF Rank
  <2> QED BY <1>10, <2>2, FS_Subset
<1>12. Rank(q) \in Nat /\ Rank(q) < PageSize /\ Cardinality(FirstPage) \in Nat
  BY <1>1, <1>2, <1>6, <1>8, <1>9
<1> QED BY <1>5, <1>8, <1>11, <1>12, PageAssumption

\* A page that is large enough holds every chain.
LEMMA SmallTableFitsPage ==
  ASSUME ChainsAreRows, Cardinality(DOMAIN chains) <= PageSize
  PROVE  FirstPage = DOMAIN chains
<1> SUFFICES ASSUME NEW id \in DOMAIN chains
             PROVE  Cardinality(Before(id)) < PageSize
  BY DEF FirstPage, Before
<1>1. Before(id) \subseteq DOMAIN chains /\ id \notin Before(id)
  BY PrecedesIsOrder DEF Before
<1>2. /\ Cardinality(Before(id)) <= Cardinality(DOMAIN chains)
      /\ Cardinality(DOMAIN chains) = Cardinality(Before(id)) => DOMAIN chains = Before(id)
      /\ Cardinality(Before(id)) \in Nat /\ Cardinality(DOMAIN chains) \in Nat
  BY <1>1, FS_Subset, FS_CardinalityType, BeforeGrows DEF ChainsAreRows
<1> QED BY <1>1, <1>2, PageAssumption

-----------------------------------------------------------------------------
(* What other handlers commit.                                             *)

TablesAreSound ==
    /\ IsTable(anchors, AnchorIds, AnchorStates)
    /\ ChainsAreRows
    /\ IsTable(services, ServiceIds, Service) /\ IsClosed(services)
    /\ commits \in 0..MaxCommits

\* No row is ever deleted, and no chain changes when it expires.
TablesGrow ==
    /\ DOMAIN chains \subseteq DOMAIN chains'
    /\ \A id \in DOMAIN chains : chains'[id].ValidTo = chains[id].ValidTo

\* A new row takes a number that no row has.
LEMMA NextIdIsNew ==
  ASSUME NEW ids, ids \subseteq Nat, NEW table, ids \ DOMAIN table # {}
  PROVE  NextId(ids, table) \in ids \ DOMAIN table
<1> DEFINE free == ids \ DOMAIN table
<1>1. \E id \in free : \A other \in free : id <= other
  <2>1. free \subseteq Nat /\ free # {}
    OBVIOUS
  <2> HIDE DEF free
  <2> QED BY <2>1, LeastNatural
<1> QED BY <1>1, Zenon DEF NextId

\* A table with one more row is a table of such rows.
LEMMA WithIsTable ==
  ASSUME NEW ids, NEW rows, NEW table, IsTable(table, ids, rows),
         NEW id \in ids, NEW row \in rows
  PROVE  /\ IsTable(With(table, id, row), ids, rows)
         /\ DOMAIN With(table, id, row) = DOMAIN table \cup {id}
         /\ With(table, id, row)[id] = row
         /\ \A other \in DOMAIN table \ {id} : With(table, id, row)[other] = table[other]
  BY DEF With, IsTable

\* So does a table with another row in one place.
LEMMA ReplacedIsTable ==
  ASSUME NEW ids, NEW rows, NEW table, IsTable(table, ids, rows),
         NEW id \in DOMAIN table, NEW row \in rows
  PROVE  /\ IsTable([table EXCEPT ![id] = row], ids, rows)
         /\ DOMAIN [table EXCEPT ![id] = row] = DOMAIN table
         /\ [table EXCEPT ![id] = row][id] = row
         /\ \A other \in DOMAIN table \ {id} :
               [table EXCEPT ![id] = row][other] = table[other]
  BY DEF IsTable

\* What is left to show of a commit, in terms of the three tables.
LEMMA OvertakeEffect ==
  ASSUME NEW next, Overtake(next), TablesAreSound
  PROVE  /\ anchors' = next.anchors /\ chains' = next.chains /\ services' = next.services
         /\ commits' \in 0..MaxCommits
         /\ request' = [request EXCEPT !.overtaken = request.pc # "idle"]
<1>1. commits' = commits + 1 /\ commits < MaxCommits
  BY DEF Overtake
<1> QED BY <1>1, PageAssumption DEF Overtake, TablesAreSound

\* Anchors are imported and revoked.
LEMMA AnchorCommits ==
  ASSUME TablesAreSound, ImportAnchor \/ RevokeAnchor
  PROVE  /\ IsTable(anchors', AnchorIds, AnchorStates)
         /\ chains' = chains /\ services' = services
         /\ commits' \in 0..MaxCommits
         /\ request' = [request EXCEPT !.overtaken = request.pc # "idle"]
<1>1. CASE ImportAnchor
  <2> DEFINE id == NextId(AnchorIds, anchors)
             next == [Tables EXCEPT !.anchors = With(@, id, "valid")]
  <2>1. /\ next.anchors = With(anchors, id, "valid")
        /\ next.chains = chains /\ next.services = services
    BY DEF Tables
  <2>2. Overtake(next) /\ AnchorIds \ DOMAIN anchors # {}
    BY <1>1 DEF ImportAnchor
  <2>3. id \in AnchorIds
    BY <2>2, NextIdIsNew, NumbersAssumption
  <2>4. IsTable(With(anchors, id, "valid"), AnchorIds, AnchorStates)
    BY <2>3, WithIsTable DEF TablesAreSound, AnchorStates
  <2> HIDE DEF next
  <2> QED BY <2>1, <2>2, <2>4, OvertakeEffect
<1>2. CASE RevokeAnchor
  <2>1. PICK id \in DOMAIN anchors : Overtake([Tables EXCEPT !.anchors[id] = "revoked"])
    BY <1>2 DEF RevokeAnchor
  <2> DEFINE next == [Tables EXCEPT !.anchors[id] = "revoked"]
  <2>2. /\ next.anchors = [anchors EXCEPT ![id] = "revoked"]
        /\ next.chains = chains /\ next.services = services
    BY DEF Tables
  <2>3. IsTable([anchors EXCEPT ![id] = "revoked"], AnchorIds, AnchorStates)
    BY ReplacedIsTable DEF TablesAreSound, AnchorStates
  <2> HIDE DEF next
  <2> QED BY <2>1, <2>2, <2>3, OvertakeEffect DEF next
<1> QED BY <1>1, <1>2

\* Chains are imported and change their state.
LEMMA ChainCommits ==
  ASSUME TablesAreSound, ImportChain \/ TransitionChain
  PROVE  /\ IsTable(chains', ChainIds, Chain) /\ IsFiniteSet(DOMAIN chains')
         /\ TablesGrow
         /\ anchors' = anchors /\ services' = services
         /\ commits' \in 0..MaxCommits
         /\ request' = [request EXCEPT !.overtaken = request.pc # "idle"]
<1>1. CASE ImportChain
  <2> DEFINE id == NextId(ChainIds, chains)
  <2>1. PICK time \in Times :
           Overtake([Tables EXCEPT
             !.chains = With(@, id, [ValidTo |-> time, State |-> "validated"])])
    BY <1>1 DEF ImportChain
  <2> DEFINE row == [ValidTo |-> time, State |-> "validated"]
             next == [Tables EXCEPT !.chains = With(@, id, row)]
  <2>2. /\ next.anchors = anchors /\ next.services = services
        /\ next.chains = With(chains, id, row)
    BY DEF Tables
  <2>3. id \in ChainIds /\ id \notin DOMAIN chains
    BY <1>1, NextIdIsNew, NumbersAssumption DEF ImportChain
  <2>4. row \in Chain
    BY DEF Chain
  <2>5. Overtake(next)
    BY <2>1
  <2> HIDE DEF next, row, id
  <2>6. chains' = With(chains, id, row)
    BY <2>2, <2>5, OvertakeEffect
  <2>7. /\ IsTable(chains', ChainIds, Chain)
        /\ DOMAIN chains' = DOMAIN chains \cup {id}
        /\ \A other \in DOMAIN chains : chains'[other] = chains[other]
    BY <2>3, <2>4, <2>6, WithIsTable DEF TablesAreSound, ChainsAreRows
  <2>8. IsFiniteSet(DOMAIN chains')
    BY <2>7, FS_AddElement DEF TablesAreSound, ChainsAreRows
  <2> QED BY <2>2, <2>5, <2>7, <2>8, OvertakeEffect DEF TablesGrow
<1>2. CASE TransitionChain
  <2>1. PICK id \in DOMAIN chains, to \in {"deprecated", "revoked"} :
           Overtake([Tables EXCEPT !.chains[id].State = to])
    BY <1>2 DEF TransitionChain
  <2> DEFINE row == [chains[id] EXCEPT !.State = to]
             next == [Tables EXCEPT !.chains[id].State = to]
  <2>2. /\ next.anchors = anchors /\ next.services = services
        /\ next.chains = [chains EXCEPT ![id] = row]
    BY DEF Tables
  <2>3. row \in Chain /\ row.ValidTo = chains[id].ValidTo
    BY DEF TablesAreSound, ChainsAreRows, IsTable, Chain
  <2>4. Overtake(next)
    BY <2>1
  <2> HIDE DEF next, row
  <2>5. chains' = [chains EXCEPT ![id] = row]
    BY <2>2, <2>4, OvertakeEffect
  <2>6. /\ IsTable(chains', ChainIds, Chain)
        /\ DOMAIN chains' = DOMAIN chains
        /\ chains'[id] = row
        /\ \A other \in DOMAIN chains \ {id} : chains'[other] = chains[other]
    BY <2>3, <2>5, ReplacedIsTable DEF TablesAreSound, ChainsAreRows
  <2> QED BY <2>2, <2>3, <2>4, <2>6, OvertakeEffect
          DEF TablesGrow, TablesAreSound, ChainsAreRows
<1> QED BY <1>1, <1>2

\* Services are created, changed and deactivated.
LEMMA ServiceCommits ==
  ASSUME TablesAreSound, CreateService \/ UpdateService \/ DeactivateService
  PROVE  /\ IsTable(services', ServiceIds, Service) /\ IsClosed(services')
         /\ anchors' = anchors /\ chains' = chains
         /\ commits' \in 0..MaxCommits
         /\ request' = [request EXCEPT !.overtaken = request.pc # "idle"]
<1>1. CASE CreateService
  <2> DEFINE id == NextId(ServiceIds, services)
  <2>1. PICK row \in Rows(id) :
           Overtake([Tables EXCEPT !.services = With(@, id, row)])
    BY <1>1 DEF CreateService
  <2> DEFINE next == [Tables EXCEPT !.services = With(@, id, row)]
  <2>2. /\ next.anchors = anchors /\ next.chains = chains
        /\ next.services = With(services, id, row)
    BY DEF Tables
  <2>3. id \in ServiceIds /\ id \notin DOMAIN services
    BY <1>1, NextIdIsNew, NumbersAssumption DEF CreateService
  <2>4. row \in Service /\ row.DependencyIDs \subseteq DOMAIN services \ {id}
    BY DEF Rows, ReferencesExist, Service
  <2>5. Overtake(next)
    BY <2>1
  <2> HIDE DEF next, id
  <2>6. services' = With(services, id, row)
    BY <2>2, <2>5, OvertakeEffect
  <2>7. /\ IsTable(services', ServiceIds, Service)
        /\ DOMAIN services' = DOMAIN services \cup {id}
        /\ services'[id] = row
        /\ \A other \in DOMAIN services : services'[other] = services[other]
    BY <2>3, <2>4, <2>6, WithIsTable DEF TablesAreSound
  <2>8. IsClosed(services')
    BY <2>3, <2>4, <2>7 DEF IsClosed, TablesAreSound
  <2> QED BY <2>2, <2>5, <2>7, <2>8, OvertakeEffect
<1>2. CASE UpdateService
  <2>0. PICK id \in DOMAIN services :
           \E asked \in Rows(id) :
              Overtake([Tables EXCEPT
                !.services[id] = [asked EXCEPT !.State = services[id].State]])
    BY <1>2 DEF UpdateService
  <2>1. PICK asked \in Rows(id) :
           Overtake([Tables EXCEPT
             !.services[id] = [asked EXCEPT !.State = services[id].State]])
    BY <2>0
  <2> DEFINE row == [asked EXCEPT !.State = services[id].State]
             next == [Tables EXCEPT !.services[id] = row]
  <2>2. /\ next.anchors = anchors /\ next.chains = chains
        /\ next.services = [services EXCEPT ![id] = row]
    BY DEF Tables
  <2>3. services[id].State \in {"active", "inactive"}
    BY DEF TablesAreSound, IsTable, Service
  <2>4. row \in Service /\ row.DependencyIDs \subseteq DOMAIN services \ {id}
    BY <2>3 DEF Rows, ReferencesExist, Service
  <2>5. Overtake(next)
    BY <2>1
  <2> HIDE DEF next, row
  <2>6. services' = [services EXCEPT ![id] = row]
    BY <2>2, <2>5, OvertakeEffect
  <2>7. /\ IsTable(services', ServiceIds, Service)
        /\ DOMAIN services' = DOMAIN services
        /\ services'[id] = row
        /\ \A other \in DOMAIN services \ {id} : services'[other] = services[other]
    BY <2>4, <2>6, ReplacedIsTable DEF TablesAreSound
  <2>8. IsClosed(services')
    BY <2>4, <2>7 DEF IsClosed, TablesAreSound
  <2> QED BY <2>2, <2>5, <2>7, <2>8, OvertakeEffect
<1>3. CASE DeactivateService
  <2>1. PICK id \in DOMAIN services :
           Overtake([Tables EXCEPT !.services[id].State = "inactive"])
    BY <1>3 DEF DeactivateService
  <2> DEFINE row == [services[id] EXCEPT !.State = "inactive"]
             next == [Tables EXCEPT !.services[id].State = "inactive"]
  <2>2. /\ next.anchors = anchors /\ next.chains = chains
        /\ next.services = [services EXCEPT ![id] = row]
    BY DEF Tables
  <2>3. row \in Service /\ row.DependencyIDs = services[id].DependencyIDs
    BY DEF TablesAreSound, IsTable, Service
  <2>4. Overtake(next)
    BY <2>1
  <2> HIDE DEF next, row
  <2>5. services' = [services EXCEPT ![id] = row]
    BY <2>2, <2>4, OvertakeEffect
  <2>6. /\ IsTable(services', ServiceIds, Service)
        /\ DOMAIN services' = DOMAIN services
        /\ services'[id] = row
        /\ \A other \in DOMAIN services \ {id} : services'[other] = services[other]
    BY <2>3, <2>5, ReplacedIsTable DEF TablesAreSound
  <2>7. IsClosed(services')
    BY <2>3, <2>6 DEF IsClosed, TablesAreSound
  <2> QED BY <2>2, <2>4, <2>6, <2>7, OvertakeEffect
<1> QED BY <1>1, <1>2, <1>3

\* Whatever another handler commits, the tables stay sound and only grow, and
\* the creation under way is marked as overtaken.
LEMMA OthersEffect ==
  ASSUME TablesAreSound, Others
  PROVE  /\ TablesAreSound' /\ TablesGrow
         /\ request' = [request EXCEPT !.overtaken = request.pc # "idle"]
<1>1. CASE ImportAnchor \/ RevokeAnchor
  <2>1. chains' = chains /\ services' = services
    BY <1>1, AnchorCommits
  <2>2. ChainsAreRows' /\ IsClosed(services') /\ TablesGrow
    BY <2>1 DEF TablesAreSound, ChainsAreRows, TablesGrow
  <2> QED BY <1>1, <2>1, <2>2, AnchorCommits DEF TablesAreSound
<1>2. CASE ImportChain \/ TransitionChain
  BY <1>2, ChainCommits DEF TablesAreSound, ChainsAreRows
<1>3. CASE CreateService \/ UpdateService \/ DeactivateService
  <2>1. chains' = chains /\ anchors' = anchors
    BY <1>3, ServiceCommits
  <2>2. ChainsAreRows' /\ TablesGrow
    BY <2>1 DEF TablesAreSound, ChainsAreRows, TablesGrow
  <2> QED BY <1>3, <2>1, <2>2, ServiceCommits DEF TablesAreSound
<1> QED BY <1>1, <1>2, <1>3 DEF Others

-----------------------------------------------------------------------------
(* The creation under way: what is known of it at each of its stages.      *)

HasFields ==
    request = [pc |-> request.pc, config |-> request.config,
               anchors |-> request.anchors, chains |-> request.chains,
               services |-> request.services, answer |-> request.answer,
               seen |-> request.seen, overtaken |-> request.overtaken]

PastServices == request.pc \in {"build", "commit"} \/ Judged
PastChains == request.pc = "services" \/ PastServices
PastCandidates == request.pc = "chains" \/ PastChains
PastAnchors == request.pc = "candidates" \/ PastCandidates
PastStart == request.pc = "anchors" \/ PastAnchors

CreationInv ==
    /\ HasFields
    /\ request.config \in Requests /\ request.answer \in Answers
    /\ request.pc # "answered" => request.answer = "none"
    /\ IsClosed(request.services)
    /\ PastStart => request.config.OldAnchorID # request.config.NewAnchorID

\* The chains that were frozen are the first page of those there were.
PageInv ==
    /\ PastCandidates => request.config.CandidateChainIDs \subseteq DOMAIN chains
    /\ PastChains =>
          /\ request.seen \subseteq DOMAIN chains
          /\ DOMAIN request.chains \subseteq request.seen
          /\ request.config.CandidateChainIDs \subseteq request.seen
          /\ \A id \in request.seen \ DOMAIN request.chains :
                /\ Cardinality(DOMAIN request.chains) = PageSize
                /\ \A other \in DOMAIN request.chains :
                      chains[other].ValidTo <= chains[id].ValidTo

\* What was read without being overtaken is what the tables hold.
QuietInv ==
    ~request.overtaken =>
        /\ PastAnchors =>
              \A id \in DOMAIN request.anchors : request.anchors[id] = anchors[id]
        /\ PastChains =>
              /\ \A id \in DOMAIN request.chains : request.chains[id] = chains[id]
              /\ Cardinality(DOMAIN chains) <= PageSize => request.chains = chains
        /\ PastServices => request.services = services

\* The answer is the verdict of Simulator over what was frozen.
VerdictInv ==
    /\ request.pc = "commit" \/ request.answer = "created" =>
          Snapshot!Valid /\ ~Snapshot!Cyclic(Snapshot!Graph)
    /\ request.answer = "cyclic" => Snapshot!Valid /\ Snapshot!Cyclic(Snapshot!Graph)
    /\ request.answer = "candidateMissing" =>
          ~(request.config.CandidateChainIDs \subseteq DOMAIN request.chains)

FreezeInv == TablesAreSound /\ CreationInv /\ PageInv /\ QuietInv /\ VerdictInv

\* With the first tables and no creation under way, all of this holds.
LEMMA FreezeInvInit == Init => FreezeInv
<1> SUFFICES ASSUME Init PROVE FreezeInv
  OBVIOUS
<1>1. TablesAreSound
  BY TablesAssumption, PageAssumption DEF Init, TablesAreSound, ChainsAreRows
<1>2. /\ request.pc = "idle" /\ request.answer = "none"
      /\ request.config = CHOOSE asked \in Requests : TRUE
      /\ request.services = NoRows
  BY DEF Init, Idle
<1>3. request.config \in Requests
  BY <1>2, RequestsAssumption
<1>4. HasFields
  BY DEF HasFields, Init, Idle
<1>5. IsClosed(request.services)
  BY <1>2 DEF IsClosed, NoRows
<1>6. ~PastStart
  BY <1>2 DEF PastStart, PastAnchors, PastCandidates, PastChains, PastServices, Judged
<1>7. CreationInv
  BY <1>2, <1>3, <1>4, <1>5, <1>6 DEF CreationInv, Answers
<1>8. PageInv /\ QuietInv /\ VerdictInv
  BY <1>2, <1>6 DEF PageInv, QuietInv, VerdictInv, PastStart, PastAnchors,
     PastCandidates, PastChains, PastServices
<1> QED BY <1>1, <1>7, <1>8 DEF FreezeInv

\* A commit of another handler changes nothing of the creation but that it is
\* overtaken, if there is one.
LEMMA OthersKeepCreation ==
  ASSUME HasFields, request' = [request EXCEPT !.overtaken = request.pc # "idle"]
  PROVE  /\ HasFields'
         /\ request'.pc = request.pc /\ request'.config = request.config
         /\ request'.anchors = request.anchors /\ request'.chains = request.chains
         /\ request'.services = request.services /\ request'.answer = request.answer
         /\ request'.seen = request.seen
         /\ request.pc # "idle" => request'.overtaken
<1>1. DOMAIN request = {"pc", "config", "anchors", "chains", "services", "answer",
                        "seen", "overtaken"}
  BY DEF HasFields
<1>2. request'.overtaken = (request.pc # "idle")
  BY <1>1
<1> QED BY <1>1, <1>2 DEF HasFields

\* A commit of another handler breaks nothing of it.
LEMMA OthersKeepFreezeInv == FreezeInv /\ Others => FreezeInv'
<1> SUFFICES ASSUME FreezeInv, Others PROVE FreezeInv'
  OBVIOUS
<1>1. /\ TablesAreSound' /\ TablesGrow
      /\ request' = [request EXCEPT !.overtaken = request.pc # "idle"]
  BY OthersEffect DEF FreezeInv
<1>2. /\ HasFields'
      /\ request'.pc = request.pc /\ request'.config = request.config
      /\ request'.anchors = request.anchors /\ request'.chains = request.chains
      /\ request'.services = request.services /\ request'.answer = request.answer
      /\ request'.seen = request.seen
      /\ request.pc # "idle" => request'.overtaken
  BY <1>1, OthersKeepCreation DEF FreezeInv, CreationInv
<1>3. /\ PastStart' <=> PastStart
      /\ PastCandidates' <=> PastCandidates
      /\ PastChains' <=> PastChains
  BY <1>2 DEF PastStart, PastAnchors, PastCandidates, PastChains, PastServices, Judged
<1>4. CreationInv'
  BY <1>2, <1>3 DEF FreezeInv, CreationInv, IsClosed
<1>5. PageInv'
  <2>1. \A id \in DOMAIN chains : id \in DOMAIN chains' /\ chains'[id].ValidTo = chains[id].ValidTo
    BY <1>1 DEF TablesGrow
  <2> QED BY <1>2, <1>3, <2>1 DEF FreezeInv, PageInv
<1>6. QuietInv'
  <2>1. CASE request.pc = "idle"
    <3>1. ~Judged'
      BY <1>2, <2>1 DEF FreezeInv, CreationInv, Judged
    <3>2. ~PastAnchors' /\ ~PastChains' /\ ~PastServices'
      BY <1>2, <2>1, <3>1 DEF PastAnchors, PastCandidates, PastChains, PastServices
    <3> QED BY <3>2 DEF QuietInv
  <2>2. CASE request.pc # "idle"
    BY <1>2, <2>2 DEF QuietInv
  <2> QED BY <2>1, <2>2
<1>7. VerdictInv'
  BY <1>2 DEF FreezeInv, VerdictInv, Snapshot!Valid, Snapshot!Graph
<1> QED BY <1>1, <1>4, <1>5, <1>6, <1>7 DEF FreezeInv

\* A step of the creation leaves the tables alone.
LEMMA TablesStay ==
  ASSUME TablesAreSound, NEW next, Become(next)
  PROVE  /\ TablesAreSound' /\ request' = next
         /\ anchors' = anchors /\ chains' = chains /\ services' = services
  BY DEF Become, TablesAreSound, ChainsAreRows

\* A refusal keeps what was read.
LEMMA RefuseEffect ==
  ASSUME HasFields, NEW word, Refuse(word)
  PROVE  /\ HasFields'
         /\ request'.pc = "answered" /\ request'.answer = word
         /\ request'.config = request.config
         /\ request'.anchors = request.anchors /\ request'.chains = request.chains
         /\ request'.services = request.services /\ request'.seen = request.seen
         /\ request'.overtaken = request.overtaken
<1>1. DOMAIN request = {"pc", "config", "anchors", "chains", "services", "answer",
                        "seen", "overtaken"}
  BY DEF HasFields
<1>2. request' = [request EXCEPT !.pc = "answered", !.answer = word]
  BY DEF Refuse, Become
<1> QED BY <1>1, <1>2 DEF HasFields

\* Before anything is judged, an answer that is no judgement says nothing.
LEMMA RefusalKeepsFreezeInv ==
  ASSUME FreezeInv, NEW word \in Answers,
         word \notin {"created", "candidateMissing", "cyclic"}, Refuse(word)
  PROVE  FreezeInv'
<1>1. /\ TablesAreSound'
      /\ anchors' = anchors /\ chains' = chains /\ services' = services
  BY TablesStay DEF FreezeInv, Refuse
<1>2. /\ HasFields'
      /\ request'.pc = "answered" /\ request'.answer = word
      /\ request'.config = request.config
      /\ request'.services = request.services
  BY RefuseEffect DEF FreezeInv, CreationInv
<1>3. ~PastStart' /\ ~PastAnchors' /\ ~PastCandidates' /\ ~PastChains' /\ ~PastServices'
  BY <1>2 DEF PastStart, PastAnchors, PastCandidates, PastChains, PastServices, Judged
<1>4. CreationInv'
  BY <1>2, <1>3 DEF FreezeInv, CreationInv, IsClosed
<1>5. PageInv' /\ QuietInv'
  BY <1>3 DEF PageInv, QuietInv
<1>6. VerdictInv'
  BY <1>2 DEF VerdictInv
<1> QED BY <1>1, <1>4, <1>5, <1>6 DEF FreezeInv

\* A creation begins with nothing read; an answered one is forgotten.
LEMMA StartKeepsFreezeInv == FreezeInv /\ Start => FreezeInv'
<1> SUFFICES ASSUME FreezeInv, Start PROVE FreezeInv'
  OBVIOUS
<1>1. PICK asked \in Requests :
         LET distinct == asked.OldAnchorID # asked.NewAnchorID
         IN  Become([Idle EXCEPT
                !.pc = IF distinct THEN "anchors" ELSE "answered",
                !.answer = IF distinct THEN "none" ELSE "notDistinct",
                !.config = asked])
  BY DEF Start
<1> DEFINE distinct == asked.OldAnchorID # asked.NewAnchorID
           stage == IF distinct THEN "anchors" ELSE "answered"
           answer == IF distinct THEN "none" ELSE "notDistinct"
           next == [Idle EXCEPT !.pc = stage, !.answer = answer, !.config = asked]
<1>2. Become(next)
  BY <1>1
<1>3. /\ stage \in {"anchors", "answered"} /\ answer \in {"none", "notDistinct"}
      /\ stage = "anchors" => answer = "none" /\ asked.OldAnchorID # asked.NewAnchorID
  OBVIOUS
<1> HIDE DEF stage, answer
<1>4. /\ Idle.services = NoRows
      /\ DOMAIN Idle = {"pc", "config", "anchors", "chains", "services", "answer",
                        "seen", "overtaken"}
  <2> DEFINE none == CHOOSE some \in Requests : TRUE
  <2>1. Idle = [pc |-> "idle", config |-> none, anchors |-> NoRows, chains |-> NoRows,
                services |-> NoRows, answer |-> "none", seen |-> {}, overtaken |-> FALSE]
    BY Zenon DEF Idle
  <2> HIDE DEF none
  <2> QED BY <2>1
<1>5. DOMAIN next = DOMAIN Idle /\ next.pc = stage /\ next.answer = answer
       /\ next.config = asked /\ next.services = NoRows
  BY <1>4
<1>6. next = [name \in DOMAIN next |-> next[name]]
  OBVIOUS
<1> HIDE DEF next
<1>7. /\ TablesAreSound' /\ request' = next
      /\ anchors' = anchors /\ chains' = chains /\ services' = services
  BY <1>2, TablesStay DEF FreezeInv
<1>8. /\ request'.pc = stage /\ request'.answer = answer /\ request'.config = asked
      /\ request'.services = NoRows /\ HasFields'
  BY <1>4, <1>5, <1>6, <1>7 DEF HasFields
<1>9. ~PastAnchors' /\ ~PastCandidates' /\ ~PastChains' /\ ~PastServices'
      /\ (PastStart' => stage = "anchors")
  BY <1>3, <1>8 DEF PastStart, PastAnchors, PastCandidates, PastChains, PastServices, Judged
<1>10. IsClosed(request.services)'
  BY <1>8 DEF IsClosed, NoRows
<1>11. CreationInv'
  BY <1>3, <1>8, <1>9, <1>10 DEF CreationInv, Answers
<1>12. PageInv' /\ QuietInv'
  BY <1>9 DEF PageInv, QuietInv
<1>13. VerdictInv'
  BY <1>3, <1>8 DEF VerdictInv
<1> QED BY <1>7, <1>11, <1>12, <1>13 DEF FreezeInv

\* Once answered, nothing is known of a creation.
LEMMA RespondKeepsFreezeInv == FreezeInv /\ Respond => FreezeInv'
<1> SUFFICES ASSUME FreezeInv, Respond PROVE FreezeInv'
  OBVIOUS
<1>1. /\ TablesAreSound' /\ request' = Idle
      /\ anchors' = anchors /\ chains' = chains /\ services' = services
  BY TablesStay DEF FreezeInv, Respond
<1>2. /\ request'.pc = "idle" /\ request'.answer = "none"
      /\ request'.config = CHOOSE asked \in Requests : TRUE
      /\ request'.services = NoRows
  BY <1>1 DEF Idle
<1>3. request'.config \in Requests
  BY <1>2, RequestsAssumption
<1>4. HasFields'
  BY <1>1 DEF HasFields, Idle
<1>5. IsClosed(request.services)'
  BY <1>2 DEF IsClosed, NoRows
<1>6. ~PastStart' /\ ~PastAnchors' /\ ~PastCandidates' /\ ~PastChains' /\ ~PastServices'
  BY <1>2 DEF PastStart, PastAnchors, PastCandidates, PastChains, PastServices, Judged
<1>7. CreationInv'
  BY <1>2, <1>3, <1>4, <1>5, <1>6 DEF CreationInv, Answers
<1>8. PageInv' /\ QuietInv' /\ VerdictInv'
  BY <1>2, <1>6 DEF PageInv, QuietInv, VerdictInv
<1> QED BY <1>1, <1>7, <1>8 DEF FreezeInv

\* What the creation reads is what the tables hold.
LEMMA ReadAnchorsKeepsFreezeInv == FreezeInv /\ ReadAnchors => FreezeInv'
<1> SUFFICES ASSUME FreezeInv, ReadAnchors PROVE FreezeInv'
  OBVIOUS
<1> DEFINE ids == {request.config.OldAnchorID, request.config.NewAnchorID}
           rows == [id \in ids |-> anchors[id]]
           next == [request EXCEPT !.pc = "candidates", !.anchors = rows]
<1>1. CASE Refuse("noAnchors")
  BY <1>1, RefusalKeepsFreezeInv DEF Answers
<1>2. CASE Become(next)
  <2>1. /\ TablesAreSound' /\ request' = next
        /\ anchors' = anchors /\ chains' = chains /\ services' = services
    BY <1>2, TablesStay DEF FreezeInv
  <2>2. \A id \in DOMAIN rows : rows[id] = anchors[id]
    OBVIOUS
  <2> HIDE DEF rows
  <2>3. DOMAIN request = {"pc", "config", "anchors", "chains", "services", "answer",
                          "seen", "overtaken"}
    BY DEF FreezeInv, CreationInv, HasFields
  <2>4. /\ HasFields'
        /\ request'.pc = "candidates" /\ request'.answer = request.answer
        /\ request'.config = request.config
        /\ request'.anchors = rows /\ request'.services = request.services
    BY <2>1, <2>3 DEF HasFields
  <2>5. request.pc = "anchors" /\ request.answer = "none" /\ PastStart
    BY DEF ReadAnchors, FreezeInv, CreationInv, PastStart
  <2>6. ~PastCandidates' /\ ~PastChains' /\ ~PastServices'
    BY <2>4, <2>5 DEF PastCandidates, PastChains, PastServices, Judged
  <2>7. CreationInv'
    BY <2>4, <2>5 DEF FreezeInv, CreationInv, IsClosed
  <2>8. PageInv' /\ VerdictInv'
    BY <2>4, <2>5, <2>6 DEF PageInv, VerdictInv
  <2>9. QuietInv'
    BY <2>1, <2>2, <2>4, <2>6 DEF QuietInv
  <2> QED BY <2>1, <2>7, <2>8, <2>9 DEF FreezeInv
<1> QED BY <1>1, <1>2 DEF ReadAnchors

\* Candidates that were found stay: no chain is ever deleted.
LEMMA ReadCandidatesKeepsFreezeInv == FreezeInv /\ ReadCandidates => FreezeInv'
<1> SUFFICES ASSUME FreezeInv, ReadCandidates PROVE FreezeInv'
  OBVIOUS
<1> DEFINE next == [request EXCEPT !.pc = "chains"]
<1>1. CASE Refuse("noCandidates")
  BY <1>1, RefusalKeepsFreezeInv DEF Answers
<1>2. CASE CandidatesExist /\ Become(next)
  <2>1. /\ TablesAreSound' /\ request' = next
        /\ anchors' = anchors /\ chains' = chains /\ services' = services
    BY <1>2, TablesStay DEF FreezeInv
  <2>2. DOMAIN request = {"pc", "config", "anchors", "chains", "services", "answer",
                          "seen", "overtaken"}
    BY DEF FreezeInv, CreationInv, HasFields
  <2>3. /\ HasFields'
        /\ request'.pc = "chains" /\ request'.answer = request.answer
        /\ request'.config = request.config /\ request'.anchors = request.anchors
        /\ request'.services = request.services
        /\ request'.overtaken = request.overtaken
    BY <2>1, <2>2 DEF HasFields
  <2>4. request.pc = "candidates" /\ request.answer = "none" /\ PastAnchors /\ PastStart
    BY DEF ReadCandidates, FreezeInv, CreationInv, PastStart, PastAnchors
  <2>5. ~PastChains' /\ ~PastServices'
    BY <2>3, <2>4 DEF PastChains, PastServices, Judged
  <2>6. CreationInv'
    BY <2>3, <2>4 DEF FreezeInv, CreationInv, IsClosed
  <2>7. PageInv' /\ VerdictInv'
    BY <1>2, <2>1, <2>3, <2>4, <2>5 DEF PageInv, VerdictInv, CandidatesExist
  <2>8. QuietInv'
    BY <2>1, <2>3, <2>4, <2>5 DEF FreezeInv, QuietInv
  <2> QED BY <2>1, <2>6, <2>7, <2>8 DEF FreezeInv
<1> QED BY <1>1, <1>2 DEF ReadCandidates

\* The chains read are the first page, all of them if they fit it.
LEMMA ReadChainsKeepsFreezeInv == FreezeInv /\ ReadChains => FreezeInv'
<1> SUFFICES ASSUME FreezeInv, ReadChains PROVE FreezeInv'
  OBVIOUS
<1> DEFINE rows == [id \in FirstPage |-> chains[id]]
           next == [request EXCEPT !.pc = "services", !.seen = DOMAIN chains,
                                   !.chains = rows]
<1>1. CASE Refuse("failed")
  BY <1>1, RefusalKeepsFreezeInv DEF Answers
<1>2. CASE Become(next)
  <2>1. /\ TablesAreSound' /\ request' = next
        /\ anchors' = anchors /\ chains' = chains /\ services' = services
    BY <1>2, TablesStay DEF FreezeInv
  <2>2. /\ DOMAIN rows = FirstPage
        /\ \A id \in DOMAIN rows : id \in DOMAIN chains /\ rows[id] = chains[id]
    BY DEF FirstPage
  <2>3. ASSUME Cardinality(DOMAIN chains) <= PageSize PROVE rows = chains
    <3>1. FirstPage = DOMAIN chains
      BY <2>3, SmallTableFitsPage DEF FreezeInv, TablesAreSound
    <3>2. chains = [id \in DOMAIN chains |-> chains[id]]
      BY DEF FreezeInv, TablesAreSound, ChainsAreRows, IsTable
    <3> QED BY <3>1, <3>2
  <2> HIDE DEF rows
  <2>4. \A id \in DOMAIN chains \ DOMAIN rows :
           /\ Cardinality(DOMAIN rows) = PageSize
           /\ \A other \in DOMAIN rows : chains[other].ValidTo <= chains[id].ValidTo
    BY <2>2, PageIsFull DEF FreezeInv, TablesAreSound
  <2>5. DOMAIN request = {"pc", "config", "anchors", "chains", "services", "answer",
                          "seen", "overtaken"}
    BY DEF FreezeInv, CreationInv, HasFields
  <2>6. /\ HasFields'
        /\ request'.pc = "services" /\ request'.answer = request.answer
        /\ request'.config = request.config /\ request'.anchors = request.anchors
        /\ request'.chains = rows /\ request'.seen = DOMAIN chains
        /\ request'.services = request.services
        /\ request'.overtaken = request.overtaken
    BY <2>1, <2>5 DEF HasFields
  <2>7. /\ request.pc = "chains" /\ request.answer = "none"
        /\ PastCandidates /\ PastAnchors /\ PastStart
    BY DEF ReadChains, FreezeInv, CreationInv, PastStart, PastAnchors, PastCandidates
  <2>8. ~PastServices'
    BY <2>6, <2>7 DEF PastServices, Judged
  <2>9. CreationInv'
    BY <2>6, <2>7 DEF FreezeInv, CreationInv, IsClosed
  <2>10. PageInv'
    BY <2>1, <2>2, <2>4, <2>6, <2>7 DEF FreezeInv, PageInv
  <2>11. VerdictInv'
    BY <2>6, <2>7 DEF VerdictInv
  <2>12. QuietInv'
    BY <2>1, <2>2, <2>3, <2>6, <2>7, <2>8 DEF FreezeInv, QuietInv
  <2> QED BY <2>1, <2>9, <2>10, <2>11, <2>12 DEF FreezeInv
<1> QED BY <1>1, <1>2 DEF ReadChains

\* The services read are all of the table, so they are closed.
LEMMA ReadServicesKeepsFreezeInv == FreezeInv /\ ReadServices => FreezeInv'
<1> SUFFICES ASSUME FreezeInv, ReadServices PROVE FreezeInv'
  OBVIOUS
<1> DEFINE next == [request EXCEPT !.pc = "build", !.services = services]
<1>1. CASE Refuse("failed")
  BY <1>1, RefusalKeepsFreezeInv DEF Answers
<1>2. CASE Become(next)
  <2>1. /\ TablesAreSound' /\ request' = next
        /\ anchors' = anchors /\ chains' = chains /\ services' = services
    BY <1>2, TablesStay DEF FreezeInv
  <2>2. DOMAIN request = {"pc", "config", "anchors", "chains", "services", "answer",
                          "seen", "overtaken"}
    BY DEF FreezeInv, CreationInv, HasFields
  <2>3. /\ HasFields'
        /\ request'.pc = "build" /\ request'.answer = request.answer
        /\ request'.config = request.config /\ request'.anchors = request.anchors
        /\ request'.chains = request.chains /\ request'.seen = request.seen
        /\ request'.services = services
        /\ request'.overtaken = request.overtaken
    BY <2>1, <2>2 DEF HasFields
  <2>4. /\ request.pc = "services" /\ request.answer = "none"
        /\ PastChains /\ PastCandidates /\ PastAnchors /\ PastStart
    BY DEF ReadServices, FreezeInv, CreationInv, PastStart, PastAnchors,
           PastCandidates, PastChains
  <2>5. IsClosed(request.services)'
    BY <2>3 DEF FreezeInv, TablesAreSound, IsClosed
  <2>6. CreationInv'
    BY <2>3, <2>4, <2>5 DEF FreezeInv, CreationInv
  <2>7. PageInv'
    BY <2>1, <2>3, <2>4 DEF FreezeInv, PageInv
  <2>8. VerdictInv'
    BY <2>3, <2>4 DEF VerdictInv
  <2>9. QuietInv'
    BY <2>1, <2>3, <2>4 DEF FreezeInv, QuietInv
  <2> QED BY <2>1, <2>6, <2>7, <2>8, <2>9 DEF FreezeInv
<1> QED BY <1>1, <1>2 DEF ReadServices, Frozen

\* A verdict is about what was frozen, which it leaves as it is.
LEMMA VerdictKeepsFreezeInv ==
  ASSUME FreezeInv, request.pc \in {"build", "commit"},
         NEW word \in {"created", "candidateMissing", "cyclic"}, Refuse(word),
         word = "created" => Snapshot!Valid /\ ~Snapshot!Cyclic(Snapshot!Graph),
         word = "cyclic" => Snapshot!Valid /\ Snapshot!Cyclic(Snapshot!Graph),
         word = "candidateMissing" =>
            ~(request.config.CandidateChainIDs \subseteq DOMAIN request.chains)
  PROVE  FreezeInv'
<1>1. /\ TablesAreSound'
      /\ anchors' = anchors /\ chains' = chains /\ services' = services
  BY TablesStay DEF FreezeInv, Refuse
<1>2. /\ HasFields'
      /\ request'.pc = "answered" /\ request'.answer = word
      /\ request'.config = request.config
      /\ request'.anchors = request.anchors /\ request'.chains = request.chains
      /\ request'.services = request.services /\ request'.seen = request.seen
      /\ request'.overtaken = request.overtaken
  BY RefuseEffect DEF FreezeInv, CreationInv
<1>3. PastStart /\ PastAnchors /\ PastCandidates /\ PastChains /\ PastServices
  BY DEF PastStart, PastAnchors, PastCandidates, PastChains, PastServices
<1>4. CreationInv'
  BY <1>2, <1>3 DEF FreezeInv, CreationInv, IsClosed, Answers
<1>5. PageInv'
  BY <1>1, <1>2, <1>3 DEF FreezeInv, PageInv
<1>6. QuietInv'
  BY <1>1, <1>2, <1>3 DEF FreezeInv, QuietInv
<1>7. VerdictInv'
  BY <1>2 DEF VerdictInv, Snapshot!Valid, Snapshot!Graph
<1> QED BY <1>1, <1>4, <1>5, <1>6, <1>7 DEF FreezeInv

\* The verdict is Simulator's; with distinct anchors and a window in order, only a
\* candidate can be wrong.
LEMMA BuildSnapshotKeepsFreezeInv == FreezeInv /\ BuildSnapshot => FreezeInv'
<1> SUFFICES ASSUME FreezeInv, BuildSnapshot PROVE FreezeInv'
  OBVIOUS
<1>1. /\ request.pc = "build" /\ request.answer = "none"
      /\ PastStart /\ PastAnchors /\ PastCandidates /\ PastChains /\ PastServices
  BY DEF BuildSnapshot, FreezeInv, CreationInv, PastStart, PastAnchors, PastCandidates,
         PastChains, PastServices
<1> DEFINE next == [request EXCEPT !.pc = "commit"]
           inOrder == request.config.OverlapStart < request.config.OverlapEnd
<1>2. CASE Snapshot!Valid /\ ~Snapshot!Cyclic(Snapshot!Graph) /\ Become(next)
  <2>1. /\ TablesAreSound' /\ request' = next
        /\ anchors' = anchors /\ chains' = chains /\ services' = services
    BY <1>2, TablesStay DEF FreezeInv
  <2>2. DOMAIN request = {"pc", "config", "anchors", "chains", "services", "answer",
                          "seen", "overtaken"}
    BY DEF FreezeInv, CreationInv, HasFields
  <2>3. /\ HasFields'
        /\ request'.pc = "commit" /\ request'.answer = request.answer
        /\ request'.config = request.config /\ request'.anchors = request.anchors
        /\ request'.chains = request.chains /\ request'.seen = request.seen
        /\ request'.services = request.services
        /\ request'.overtaken = request.overtaken
    BY <2>1, <2>2 DEF HasFields
  <2>4. CreationInv'
    BY <1>1, <2>3 DEF FreezeInv, CreationInv, IsClosed
  <2>5. PageInv'
    BY <1>1, <2>1, <2>3 DEF FreezeInv, PageInv
  <2>6. QuietInv'
    BY <1>1, <2>1, <2>3 DEF FreezeInv, QuietInv
  <2>7. VerdictInv'
    BY <1>1, <1>2, <2>3 DEF VerdictInv, Snapshot!Valid, Snapshot!Graph
  <2> QED BY <2>1, <2>4, <2>5, <2>6, <2>7 DEF FreezeInv
<1>3. CASE Snapshot!Valid /\ Snapshot!Cyclic(Snapshot!Graph) /\ Refuse("cyclic")
  BY <1>1, <1>3, VerdictKeepsFreezeInv
<1>4. CASE ~Snapshot!Valid /\ Refuse(IF inOrder THEN "candidateMissing" ELSE "invalid")
  <2>1. CASE inOrder
    <3>1. 0 \notin {request.config.OldAnchorID, request.config.NewAnchorID}
      BY RequestsAssumption DEF FreezeInv, CreationInv
    <3>2. request.config.OldAnchorID # request.config.NewAnchorID
      BY <1>1 DEF FreezeInv, CreationInv
    <3>3. ~(request.config.CandidateChainIDs \subseteq DOMAIN request.chains)
      BY <1>4, <2>1, <3>1, <3>2 DEF Snapshot!Valid
    <3> QED BY <1>1, <1>4, <2>1, <3>3, VerdictKeepsFreezeInv
  <2>2. CASE ~inOrder
    BY <1>4, <2>2, RefusalKeepsFreezeInv DEF Answers
  <2> QED BY <2>1, <2>2
<1> QED BY <1>2, <1>3, <1>4 DEF BuildSnapshot

\* What is stored was found valid and acyclic.
LEMMA CommitKeepsFreezeInv == FreezeInv /\ Commit => FreezeInv'
<1> SUFFICES ASSUME FreezeInv, Commit PROVE FreezeInv'
  OBVIOUS
<1>1. request.pc = "commit" /\ Snapshot!Valid /\ ~Snapshot!Cyclic(Snapshot!Graph)
  BY DEF Commit, FreezeInv, VerdictInv
<1>2. CASE Refuse("created")
  BY <1>1, <1>2, VerdictKeepsFreezeInv
<1>3. CASE Refuse("failed")
  BY <1>3, RefusalKeepsFreezeInv DEF Answers
<1> QED BY <1>2, <1>3 DEF Commit

\* Nothing changes while nothing happens.
LEMMA NothingKeepsFreezeInv == FreezeInv /\ UNCHANGED vars => FreezeInv'
<1> SUFFICES ASSUME FreezeInv, UNCHANGED vars PROVE FreezeInv'
  OBVIOUS
<1>1. /\ anchors' = anchors /\ chains' = chains /\ services' = services
      /\ request' = request /\ commits' = commits
  BY DEF vars
<1>2. TablesAreSound'
  BY <1>1 DEF FreezeInv, TablesAreSound, ChainsAreRows
<1>3. /\ PastStart' = PastStart /\ PastAnchors' = PastAnchors
      /\ PastCandidates' = PastCandidates /\ PastChains' = PastChains
      /\ PastServices' = PastServices
  BY <1>1 DEF PastStart, PastAnchors, PastCandidates, PastChains, PastServices, Judged
<1>4. CreationInv'
  BY <1>1, <1>3 DEF FreezeInv, CreationInv, HasFields, IsClosed
<1>5. PageInv' /\ QuietInv'
  BY <1>1, <1>3 DEF FreezeInv, PageInv, QuietInv
<1>6. VerdictInv'
  BY <1>1 DEF FreezeInv, VerdictInv, Snapshot!Valid, Snapshot!Graph
<1> QED BY <1>2, <1>4, <1>5, <1>6 DEF FreezeInv

\* What is known of a creation at each stage is true in every behaviour.
THEOREM FreezeIsSound == Spec => []FreezeInv
<1>1. FreezeInv /\ [Next]_vars => FreezeInv'
  BY StartKeepsFreezeInv, ReadAnchorsKeepsFreezeInv, ReadCandidatesKeepsFreezeInv,
     ReadChainsKeepsFreezeInv, ReadServicesKeepsFreezeInv,
     BuildSnapshotKeepsFreezeInv, CommitKeepsFreezeInv, RespondKeepsFreezeInv,
     OthersKeepFreezeInv, NothingKeepsFreezeInv DEF Next, Create
<1> QED BY FreezeInvInit, <1>1, PTL DEF Spec

-----------------------------------------------------------------------------
(* The properties.                                                         *)

\* The variables keep their types, and a stored scenario meets what Simulator
\* assumes of the services it is given.
THEOREM TypeCorrect == Spec => []TypeOK
<1>1. FreezeInv => TypeOK
  BY DEF FreezeInv, TablesAreSound, ChainsAreRows, CreationInv, TypeOK
<1> QED BY FreezeIsSound, <1>1, PTL

\* A chain that a stored scenario lacks was imported after the chains were
\* read, or there were more than the page holds and it expires last.
THEOREM MissingChainsExpireLastHolds == Spec => []MissingChainsExpireLast
<1>1. ASSUME FreezeInv, Judged PROVE MissingChainsExpireLast
  <2>1. PastChains
    BY <1>1 DEF PastChains, PastServices
  <2> QED BY <1>1, <2>1 DEF FreezeInv, PageInv, MissingChainsExpireLast
<1>2. FreezeInv => MissingChainsExpireLast
  BY <1>1 DEF MissingChainsExpireLast
<1> QED BY FreezeIsSound, <1>2, PTL

\* What is stored without another handler committing is the model as it is,
\* and only a cycle of it is refused as one.
THEOREM QuietSnapshotIsTheModelHolds == Spec => []QuietSnapshotIsTheModel
<1>1. ASSUME FreezeInv, Judged, ~request.overtaken PROVE QuietSnapshotIsTheModel
  <2>1. PastServices /\ PastChains /\ PastAnchors
    BY <1>1 DEF PastServices, PastChains, PastCandidates, PastAnchors
  <2>2. request.services = services
    BY <1>1, <2>1 DEF FreezeInv, QuietInv
  <2> DEFINE graph == [id \in DOMAIN services |-> services[id].DependencyIDs]
  <2>3. Snapshot!Graph = graph
    BY <2>2 DEF Snapshot!Graph
  <2>4. Snapshot!Valid => request.config.CandidateChainIDs \subseteq DOMAIN request.chains
    BY DEF Snapshot!Valid
  <2> HIDE DEF graph
  <2>5. request.answer = "cyclic" <=>
          /\ request.config.CandidateChainIDs \subseteq DOMAIN request.chains
          /\ Snapshot!Cyclic(graph)
    <3>1. CASE request.answer = "created"
      <4>1. ~Snapshot!Cyclic(graph)
        BY <1>1, <2>3, <3>1, Zenon DEF FreezeInv, VerdictInv
      <4> QED BY <3>1, <4>1
    <3>2. CASE request.answer = "cyclic"
      <4>1. Snapshot!Valid /\ Snapshot!Cyclic(graph)
        BY <1>1, <2>3, <3>2, Zenon DEF FreezeInv, VerdictInv
      <4> QED BY <2>4, <3>2, <4>1
    <3>3. CASE request.answer = "candidateMissing"
      <4>1. ~(request.config.CandidateChainIDs \subseteq DOMAIN request.chains)
        BY <1>1, <3>3, Zenon DEF FreezeInv, VerdictInv
      <4> QED BY <3>3, <4>1
    <3> QED BY <1>1, <3>1, <3>2, <3>3 DEF Judged
  <2> QED BY <1>1, <2>1, <2>2, <2>5 DEF FreezeInv, QuietInv, QuietSnapshotIsTheModel, graph
<1>2. FreezeInv => QuietSnapshotIsTheModel
  BY <1>1 DEF QuietSnapshotIsTheModel
<1> QED BY FreezeIsSound, <1>2, PTL

=============================================================================
