--------------------------- MODULE Simulator_proofs ---------------------------
(***************************************************************************)
(* Proofs about the simulation: for every snapshot, the search decides     *)
(* whether its dependencies form a cycle, and the evidence and the broken  *)
(* paths are what reachability by definition says.                         *)
(*                                                                         *)
(* The search is an invariant of its stack (SearchInv).  The evaluation is *)
(* recursive; without a cycle, every set of services has one that depends  *)
(* on no other of the set (Foremost), which takes the place of induction:  *)
(* a claim holds of all services if no such counterexample to it exists.   *)
(***************************************************************************)
EXTENDS Simulator, WellFoundedInduction, TLAPS

-----------------------------------------------------------------------------
(* The snapshot.                                                           *)

Services == DOMAIN services

SnapshotIsInput ==
    config \in Configs /\ chains \in ChainTables /\ services \in ServiceTables

\* A dependency leads to another service of the snapshot.
LEMMA GraphType ==
  ASSUME SnapshotIsInput
  PROVE  /\ Services \subseteq Nat
         /\ \A id \in Services : Graph[id] \subseteq Services \ {id}
         /\ DOMAIN Graph = Services
<1>1. /\ Services \subseteq ServiceIds
      /\ \A id \in Services : services[id].DependencyIDs \subseteq Services \ {id}
  BY InputAssumption DEF SnapshotIsInput, Services
<1> QED BY <1>1, IdsAssumption DEF Graph, Services

\* A set of natural numbers has a least member.
LEMMA LeastNatural ==
  ASSUME NEW set, set \subseteq Nat, set # {}
  PROVE  Min(set) \in set /\ \A m \in set : Min(set) <= m
<1>1. PICK n \in set : \A m \in set : ~ (<<m, n>> \in OpToRel(<, Nat))
  BY WFMin, NatLessThanWellFounded, Zenon
<1>2. ASSUME NEW m \in set, m < n PROVE <<m, n>> \in OpToRel(<, Nat)
  BY <1>2, Zenon DEF OpToRel
<1>3. ASSUME NEW m \in set PROVE ~(m < n)
  BY <1>1, <1>2, Zenon
<1>4. \A m \in set : n <= m
  BY <1>3
<1> QED BY <1>4, Zenon DEF Min

-----------------------------------------------------------------------------
(* The search for a cycle.                                                 *)

Frame == [id : Services, left : SUBSET Services]

SearchTypes ==
    /\ SnapshotIsInput
    /\ pc \in {"validate", "visit", Refused, "cyclic", "simulated"}
    /\ state \in [Services -> 0..2]
    /\ stack \in Seq(Frame)

\* The calls of visit are a path through the graph that meets no service twice,
\* and the services marked 1 are those on it.
StackIsPath ==
    /\ \A i \in DOMAIN stack :
          state[stack[i].id] = 1 /\ stack[i].left \subseteq Graph[stack[i].id]
    /\ \A id \in Services : state[id] = 1 => \E i \in DOMAIN stack : stack[i].id = id
    /\ \A i, j \in DOMAIN stack : stack[i].id = stack[j].id => i = j
    /\ \A i \in DOMAIN stack : i + 1 \in DOMAIN stack =>
          stack[i + 1].id \in Graph[stack[i].id]

\* A dependency that a call has taken is finished, unless it is the one that
\* is being visited.
VisitedAreFinished ==
    \A i \in DOMAIN stack : \A next \in Graph[stack[i].id] \ stack[i].left :
        state[next] = 2 \/ (i + 1 \in DOMAIN stack /\ stack[i + 1].id = next)

\* Services each of which depends on another one of them.
Knot(set) == set \subseteq Services /\ \A id \in set : Graph[id] \cap set # {}

\* No cycle leads through a service that is finished.
FinishedAreSafe ==
    \A set : Knot(set) => \A id \in set : state[id] # 2

SearchInv ==
    /\ SearchTypes /\ StackIsPath /\ VisitedAreFinished /\ FinishedAreSafe
    /\ SearchDecidesCycles

\* A graph has a cycle exactly if it has a knot.
LEMMA CyclicByKnot ==
  ASSUME SnapshotIsInput
  PROVE  Cyclic(Graph) <=> \E set : Knot(set) /\ set # {}
  BY GraphType DEF Cyclic, Knot

\* The search starts with an empty stack and nothing marked.
LEMMA SearchStarts == Init => SearchInv
<1> SUFFICES ASSUME Init PROVE SearchInv
  OBVIOUS
<1> USE DEF Init
<1>1. SearchTypes
  BY DEF SearchTypes, SnapshotIsInput, Services
<1>2. DOMAIN stack = {}
  OBVIOUS
<1>3. StackIsPath /\ VisitedAreFinished
  BY <1>2 DEF StackIsPath, VisitedAreFinished, Services
<1>4. FinishedAreSafe
  BY DEF FinishedAreSafe, Knot, Services
<1>5. SearchDecidesCycles
  BY DEF SearchDecidesCycles
<1> QED BY <1>1, <1>3, <1>4, <1>5 DEF SearchInv

\* A step that keeps the snapshot keeps what is defined by it.
LEMMA SnapshotStays ==
  ASSUME UNCHANGED snapshot
  PROVE  /\ Services' = Services /\ Graph' = Graph
         /\ SnapshotIsInput' <=> SnapshotIsInput
         /\ Cyclic(Graph)' <=> Cyclic(Graph)
         /\ \A set : Knot(set)' <=> Knot(set)
<1>1. config' = config /\ chains' = chains /\ services' = services
  BY DEF snapshot
<1>2. Services' = Services /\ Graph' = Graph
  BY <1>1 DEF Services, Graph
<1>3. SnapshotIsInput' <=> SnapshotIsInput
  BY <1>1 DEF SnapshotIsInput
<1>4. Cyclic(Graph)' <=> Cyclic(Graph)
  BY <1>2 DEF Cyclic
<1>5. \A set : Knot(set)' <=> Knot(set)
  BY <1>2 DEF Knot
<1> QED BY <1>2, <1>3, <1>4, <1>5

\* A frame on the stack.
LEMMA FrameTypes ==
  ASSUME SearchTypes
  PROVE  /\ Len(stack) \in Nat /\ DOMAIN stack = 1 .. Len(stack)
         /\ \A i \in DOMAIN stack :
               /\ stack[i] \in Frame
               /\ stack[i].id \in Services /\ stack[i].left \subseteq Services
         /\ stack # << >> => Len(stack) \in DOMAIN stack
<1>1. stack \in Seq(Frame)
  BY DEF SearchTypes
<1>2. /\ Len(stack) \in Nat /\ DOMAIN stack = 1 .. Len(stack)
      /\ stack # << >> => Len(stack) \in DOMAIN stack
      /\ \A i \in DOMAIN stack : stack[i] \in Frame
  BY <1>1
<1> QED BY <1>2 DEF Frame

\* The search begins at a service it has not seen.
LEMMA RootKeepsSearchInv ==
  ASSUME SearchInv, Root
  PROVE  SearchInv'
<1> USE DEF SearchInv
<1>1. PICK x \in Services :
         /\ state[x] = 0 /\ state' = [state EXCEPT ![x] = 1]
         /\ stack' = <<[id |-> x, left |-> Graph[x]]>>
  BY DEF Root, Opened, Services
<1>2. /\ stack = << >> /\ pc = "visit" /\ pc' = "visit"
      /\ UNCHANGED snapshot
  BY DEF Root
<1>3. /\ Services' = Services /\ Graph' = Graph
      /\ SnapshotIsInput'
      /\ \A set : Knot(set)' <=> Knot(set)
  BY <1>2, SnapshotStays DEF SearchTypes
<1>4. Graph[x] \subseteq Services
  BY GraphType DEF SearchTypes
<1>5. /\ DOMAIN stack' = {1} /\ stack'[1].id = x /\ stack'[1].left = Graph[x]
  BY <1>1
<1>6. /\ state' \in [Services -> 0..2] /\ state'[x] = 1
      /\ \A id \in Services : id # x => state'[id] = state[id]
  BY <1>1 DEF SearchTypes
<1>7. SearchTypes'
  <2>1. stack' \in Seq(Frame)
    BY <1>1, <1>4 DEF Frame
  <2> QED BY <2>1, <1>2, <1>3, <1>6 DEF SearchTypes, Frame
<1>8. \A id \in Services : state[id] # 1
  BY <1>2 DEF StackIsPath
<1>9. StackIsPath'
  <2>1. \A i \in DOMAIN stack' : i = 1
    BY <1>5
  <2>2. \A i \in DOMAIN stack' : i + 1 \notin DOMAIN stack'
    BY <1>5
  <2> QED BY <1>3, <1>5, <1>6, <1>8, <2>1, <2>2 DEF StackIsPath
<1>10. VisitedAreFinished'
  BY <1>3, <1>5 DEF VisitedAreFinished
<1>11. FinishedAreSafe'
  <2> SUFFICES ASSUME NEW set, Knot(set), NEW id \in set
               PROVE  state'[id] # 2
    BY <1>3 DEF FinishedAreSafe
  <2>1. id \in Services /\ state[id] # 2
    BY DEF FinishedAreSafe, Knot
  <2> QED BY <2>1, <1>6
<1>12. SearchDecidesCycles'
  BY <1>2 DEF SearchDecidesCycles
<1> QED BY <1>7, <1>9, <1>10, <1>11, <1>12

\* A call returns: all its service depends on is finished, so no cycle leads
\* through it.
LEMMA LeaveKeepsSearchInv ==
  ASSUME SearchInv, Leave
  PROVE  SearchInv'
<1> USE DEF SearchInv
<1> DEFINE n == Len(stack)
           x == stack[n].id
<1>1. /\ stack # << >> /\ pc = "visit" /\ pc' = "visit" /\ stack[n].left = {}
      /\ state' = [state EXCEPT ![x] = 2] /\ stack' = SubSeq(stack, 1, n - 1)
      /\ UNCHANGED snapshot
  BY DEF Leave, Last, Front, Finished
<1>2. /\ n \in Nat /\ DOMAIN stack = 1 .. n /\ n \in DOMAIN stack
      /\ \A i \in DOMAIN stack : stack[i].id \in Services
  BY <1>1, FrameTypes
<1>3. /\ Services' = Services /\ Graph' = Graph
      /\ SnapshotIsInput'
      /\ \A set : Knot(set)' <=> Knot(set)
  BY <1>1, SnapshotStays DEF SearchTypes
<1>4. stack' \in Seq(Frame) /\ DOMAIN stack' = 1 .. n - 1
  BY <1>1, <1>2 DEF SearchTypes
<1>5. \A i \in DOMAIN stack' : stack'[i] = stack[i] /\ i \in DOMAIN stack /\ i # n
  BY <1>1, <1>2, <1>4 DEF SearchTypes
<1>6. /\ state' \in [Services -> 0..2] /\ state'[x] = 2
      /\ \A id \in Services : id # x => state'[id] = state[id]
  BY <1>1, <1>2 DEF SearchTypes
<1>7. \A i \in DOMAIN stack' : stack'[i].id # x /\ stack'[i].id \in Services
  BY <1>2, <1>5 DEF StackIsPath
<1>8. SearchTypes'
  BY <1>1, <1>3, <1>4, <1>6 DEF SearchTypes, Frame
<1> HIDE DEF n, x
<1>9. StackIsPath'
  <2>1. ASSUME NEW id \in Services, state'[id] = 1
        PROVE  \E i \in DOMAIN stack' : stack'[i].id = id
    <3>1. id # x /\ state[id] = 1
      BY <1>6, <2>1
    <3>2. PICK i \in DOMAIN stack : stack[i].id = id
      BY <3>1 DEF StackIsPath
    <3>3. i \in 1 .. n /\ i # n
      BY <1>2, <3>1, <3>2 DEF x
    <3>4. i \in DOMAIN stack'
      BY <1>2, <1>4, <3>3
    <3> QED BY <1>5, <3>2, <3>4
  <2>2. \A i \in DOMAIN stack' :
           /\ state'[stack'[i].id] = 1 /\ stack'[i].left \subseteq Graph[stack'[i].id]
           /\ i + 1 \in DOMAIN stack' => stack'[i + 1].id \in Graph[stack'[i].id]
    BY <1>5, <1>6, <1>7 DEF StackIsPath
  <2>3. \A i, j \in DOMAIN stack' : stack'[i].id = stack'[j].id => i = j
    BY <1>5 DEF StackIsPath
  <2> QED BY <1>3, <2>1, <2>2, <2>3 DEF StackIsPath
<1>10. ASSUME NEW next \in Graph[x] PROVE state[next] = 2
  <2>1. next \in Graph[stack[n].id] \ stack[n].left
    BY <1>1, <1>10 DEF x
  <2>2. n + 1 \notin DOMAIN stack
    BY <1>2
  <2> QED BY <1>2, <2>1, <2>2 DEF VisitedAreFinished
<1>11. VisitedAreFinished'
  <2> SUFFICES ASSUME NEW i \in DOMAIN stack', NEW next \in Graph[stack'[i].id] \ stack'[i].left
               PROVE  state'[next] = 2 \/ (i + 1 \in DOMAIN stack' /\ stack'[i + 1].id = next)
    BY <1>3 DEF VisitedAreFinished
  <2>1. next \in Services
    BY <1>7, GraphType DEF SearchTypes
  <2>2. state[next] = 2 \/ (i + 1 \in DOMAIN stack /\ stack[i + 1].id = next)
    BY <1>5 DEF VisitedAreFinished
  <2>3. CASE state[next] = 2
    BY <1>6, <2>1, <2>3
  <2>4. CASE i + 1 \in DOMAIN stack /\ stack[i + 1].id = next
    <3>1. CASE i + 1 = n
      BY <1>6, <2>4, <3>1 DEF x
    <3>2. CASE i + 1 # n
      <4>1. i + 1 \in DOMAIN stack'
        BY <1>2, <1>4, <2>4, <3>2
      <4> QED BY <1>5, <2>4, <4>1
    <3> QED BY <3>1, <3>2
  <2> QED BY <2>2, <2>3, <2>4
<1>12. FinishedAreSafe'
  <2> SUFFICES ASSUME NEW set, Knot(set), NEW id \in set
               PROVE  state'[id] # 2
    BY <1>3 DEF FinishedAreSafe
  <2>1. id \in Services /\ \A other \in set : state[other] # 2
    BY DEF FinishedAreSafe, Knot
  <2>2. ASSUME id = x PROVE FALSE
    <3>1. PICK next \in Graph[x] : next \in set
      BY <2>2 DEF Knot
    <3> QED BY <1>10, <2>1, <3>1
  <2> QED BY <2>1, <2>2, <1>6
<1>13. SearchDecidesCycles'
  BY <1>1 DEF SearchDecidesCycles
<1> QED BY <1>8, <1>9, <1>11, <1>12, <1>13

\* The dependency that is visited next.
LEMMA NextIsLeft ==
  ASSUME SearchInv, stack # << >>, Last(stack).left # {}
  PROVE  /\ Min(Last(stack).left) \in stack[Len(stack)].left
         /\ Min(Last(stack).left) \in Graph[stack[Len(stack)].id]
         /\ Min(Last(stack).left) \in Services
<1>1. Len(stack) \in DOMAIN stack /\ stack[Len(stack)].left \subseteq Services
  BY FrameTypes DEF SearchInv
<1>2. stack[Len(stack)].left \subseteq Graph[stack[Len(stack)].id]
  BY <1>1 DEF SearchInv, StackIsPath
<1>3. stack[Len(stack)].left \subseteq Nat
  BY <1>1, GraphType DEF SearchInv, SearchTypes
<1> QED BY <1>1, <1>2, <1>3, LeastNatural DEF Last

\* A dependency that is on the stack closes a cycle: the path from it to the
\* end of the stack.
LEMMA StackClosesCycle ==
  ASSUME SearchInv, NEW next \in Services, state[next] = 1, stack # << >>,
         next \in Graph[stack[Len(stack)].id]
  PROVE  Cyclic(Graph)
<1> USE DEF SearchInv
<1> DEFINE n == Len(stack)
<1>1. /\ n \in Nat /\ DOMAIN stack = 1 .. n /\ n \in DOMAIN stack
      /\ \A i \in DOMAIN stack : stack[i].id \in Services
  BY FrameTypes
<1>2. PICK j \in DOMAIN stack : stack[j].id = next
  BY DEF StackIsPath
<1> DEFINE knot == {stack[i].id : i \in j .. n}
<1> HIDE DEF n
<1>3. knot \subseteq Services /\ next \in knot
  BY <1>1, <1>2
<1>4. ASSUME NEW i \in j .. n PROVE Graph[stack[i].id] \cap knot # {}
  <2>1. i \in DOMAIN stack
    BY <1>1, <1>2
  <2>2. CASE i = n
    BY <1>3, <2>2 DEF n
  <2>3. CASE i # n
    <3>1. i + 1 \in j .. n /\ i + 1 \in DOMAIN stack
      BY <1>1, <1>2, <2>3
    <3> QED BY <2>1, <3>1 DEF StackIsPath
  <2> QED BY <2>2, <2>3
<1>5. Knot(knot)
  BY <1>3, <1>4 DEF Knot
<1> QED BY <1>3, <1>5, CyclicByKnot DEF SearchTypes

\* A call takes a dependency that is finished.
LEMMA SkipKeepsSearchInv ==
  ASSUME SearchInv, NEW next, pc = "visit", stack # << >>,
         next \in stack[Len(stack)].left, state[next] = 2,
         stack' = [stack EXCEPT ![Len(stack)].left = @ \ {next}],
         UNCHANGED <<state, pc, snapshot>>
  PROVE  SearchInv'
<1> USE DEF SearchInv
<1> DEFINE n == Len(stack)
<1>1. /\ n \in Nat /\ DOMAIN stack = 1 .. n /\ n \in DOMAIN stack
      /\ \A i \in DOMAIN stack : stack[i] \in Frame /\ stack[i].id \in Services
  BY FrameTypes
<1>2. /\ Services' = Services /\ Graph' = Graph
      /\ SnapshotIsInput'
      /\ \A set : Knot(set)' <=> Knot(set)
      /\ state' = state /\ pc' = pc
  BY SnapshotStays DEF SearchTypes
<1>3. stack' = [stack EXCEPT ![n] = [stack[n] EXCEPT !.left = @ \ {next}]]
  OBVIOUS
<1>4. [stack[n] EXCEPT !.left = @ \ {next}] \in Frame
  BY <1>1 DEF Frame
<1>5. stack' \in Seq(Frame) /\ DOMAIN stack' = DOMAIN stack
  BY <1>1, <1>3, <1>4 DEF SearchTypes
<1>6. \A i \in DOMAIN stack : stack'[i].id = stack[i].id
  BY <1>1, <1>3 DEF Frame
<1>7. \A i \in DOMAIN stack : i # n => stack'[i].left = stack[i].left
  BY <1>1, <1>3
<1>8. stack'[n].left = stack[n].left \ {next}
  BY <1>1, <1>3 DEF Frame
<1> HIDE DEF n
<1>9. SearchTypes'
  BY <1>2, <1>5 DEF SearchTypes, Frame
<1>10. StackIsPath'
  <2>1. \A i \in DOMAIN stack : stack'[i].left \subseteq stack[i].left
    BY <1>7, <1>8
  <2>2. \A i \in DOMAIN stack :
           state[stack[i].id] = 1 /\ stack'[i].left \subseteq Graph[stack[i].id]
    BY <2>1 DEF StackIsPath
  <2> QED BY <1>2, <1>5, <1>6, <2>2 DEF StackIsPath
<1>11. VisitedAreFinished'
  <2> SUFFICES ASSUME NEW i \in DOMAIN stack, NEW one \in Graph[stack[i].id],
                      one \notin stack'[i].left
               PROVE  state[one] = 2 \/ (i + 1 \in DOMAIN stack /\ stack[i + 1].id = one)
    BY <1>2, <1>5, <1>6 DEF VisitedAreFinished
  <2>1. CASE one \in stack[i].left
    <3>1. i = n /\ one = next
      BY <1>7, <1>8, <2>1
    <3> QED BY <3>1
  <2>2. CASE one \notin stack[i].left
    BY <2>2 DEF VisitedAreFinished
  <2> QED BY <2>1, <2>2
<1>12. FinishedAreSafe'
  BY <1>2 DEF FinishedAreSafe
<1>13. SearchDecidesCycles'
  BY <1>2 DEF SearchDecidesCycles
<1> QED BY <1>9, <1>10, <1>11, <1>12, <1>13

\* A call visits a dependency that was not seen before.
LEMMA VisitKeepsSearchInv ==
  ASSUME SearchInv, NEW next \in Services, pc = "visit", stack # << >>,
         next \in stack[Len(stack)].left, next \in Graph[stack[Len(stack)].id],
         state[next] = 0, state' = Opened(next),
         stack' = Append([stack EXCEPT ![Len(stack)].left = @ \ {next}],
                         [id |-> next, left |-> Graph[next]]),
         UNCHANGED <<pc, snapshot>>
  PROVE  SearchInv'
<1> USE DEF SearchInv
<1> DEFINE n == Len(stack)
           rest == [stack EXCEPT ![n].left = @ \ {next}]
<1>1. /\ n \in Nat /\ DOMAIN stack = 1 .. n /\ n \in DOMAIN stack
      /\ \A i \in DOMAIN stack : stack[i] \in Frame /\ stack[i].id \in Services
  BY FrameTypes
<1>2. /\ Services' = Services /\ Graph' = Graph
      /\ SnapshotIsInput'
      /\ \A set : Knot(set)' <=> Knot(set)
      /\ pc' = pc
  BY SnapshotStays DEF SearchTypes
<1>3. [stack[n] EXCEPT !.left = @ \ {next}] \in Frame
  BY <1>1 DEF Frame
<1>4. rest \in Seq(Frame) /\ Len(rest) = n
  BY <1>1, <1>3 DEF SearchTypes
<1>5. \A i \in DOMAIN stack : rest[i].id = stack[i].id
  BY <1>1 DEF Frame
<1>6. \A i \in DOMAIN stack : i # n => rest[i].left = stack[i].left
  BY <1>1
<1>7. rest[n].left = stack[n].left \ {next}
  BY <1>1 DEF Frame
<1> DEFINE frame == [id |-> next, left |-> Graph[next]]
<1>8. stack' = Append(rest, frame)
  OBVIOUS
<1> HIDE DEF n, rest
<1>9. frame \in Frame /\ frame.id = next /\ frame.left = Graph[next]
  BY GraphType DEF Frame, SearchTypes
<1> HIDE DEF frame
<1>10. /\ stack' \in Seq(Frame) /\ DOMAIN stack' = 1 .. n + 1
       /\ \A i \in DOMAIN stack : stack'[i] = rest[i]
       /\ stack'[n + 1] = frame
  <2> SUFFICES ASSUME NEW longer, longer = Append(rest, frame)
               PROVE  /\ longer \in Seq(Frame) /\ DOMAIN longer = 1 .. n + 1
                      /\ \A i \in 1 .. n : longer[i] = rest[i]
                      /\ longer[n + 1] = frame
    BY <1>1, <1>8
  <2> QED BY <1>1, <1>4, <1>9
<1>11. stack'[n + 1].id = next /\ stack'[n + 1].left = Graph[next]
  BY <1>9, <1>10
<1>12. \A i \in DOMAIN stack :
          stack'[i].id = stack[i].id /\ stack'[i].left \subseteq stack[i].left
  BY <1>5, <1>6, <1>7, <1>10
<1>13. \A i \in DOMAIN stack' : i = n + 1 \/ i \in DOMAIN stack
  BY <1>1, <1>10
<1>14. /\ state' \in [Services -> 0..2] /\ state'[next] = 1
       /\ \A id \in Services : id # next => state'[id] = state[id]
  BY DEF SearchTypes, Opened
<1>15. \A i \in DOMAIN stack : stack[i].id # next /\ state'[stack[i].id] = 1
  BY <1>1, <1>14 DEF StackIsPath
<1>16. SearchTypes'
  BY <1>2, <1>10, <1>14 DEF SearchTypes, Frame
<1>17. StackIsPath'
  <2>1. ASSUME NEW i \in DOMAIN stack'
        PROVE  state'[stack'[i].id] = 1 /\ stack'[i].left \subseteq Graph[stack'[i].id]
    <3>1. CASE i = n + 1
      BY <1>11, <1>14, <3>1
    <3>2. CASE i \in DOMAIN stack
      BY <1>12, <1>15, <3>2 DEF StackIsPath
    <3> QED BY <1>13, <3>1, <3>2
  <2>2. ASSUME NEW id \in Services, state'[id] = 1
        PROVE  \E i \in DOMAIN stack' : stack'[i].id = id
    <3>1. CASE id = next
      BY <1>1, <1>10, <1>11, <3>1
    <3>2. CASE id # next
      <4>1. PICK i \in DOMAIN stack : stack[i].id = id
        BY <1>14, <2>2, <3>2 DEF StackIsPath
      <4>2. i \in DOMAIN stack'
        BY <1>1, <1>10
      <4> QED BY <1>12, <4>1, <4>2
    <3> QED BY <3>1, <3>2
  <2>3. ASSUME NEW i \in DOMAIN stack', NEW j \in DOMAIN stack',
               stack'[i].id = stack'[j].id
        PROVE  i = j
    BY <1>11, <1>12, <1>13, <1>15, <2>3 DEF StackIsPath
  <2>4. ASSUME NEW i \in DOMAIN stack', i + 1 \in DOMAIN stack'
        PROVE  stack'[i + 1].id \in Graph[stack'[i].id]
    <3>1. i \in DOMAIN stack
      BY <1>1, <1>10, <2>4
    <3>2. CASE i = n
      BY <1>11, <1>12, <3>1, <3>2 DEF n
    <3>3. CASE i # n
      <4>1. i + 1 \in DOMAIN stack
        BY <1>1, <3>1, <3>3
      <4> QED BY <1>12, <3>1, <4>1 DEF StackIsPath
    <3> QED BY <3>2, <3>3
  <2> QED BY <1>2, <2>1, <2>2, <2>3, <2>4 DEF StackIsPath
<1>18. VisitedAreFinished'
  <2> SUFFICES ASSUME NEW i \in DOMAIN stack', NEW one \in Graph[stack'[i].id],
                      one \notin stack'[i].left
               PROVE  state'[one] = 2 \/ (i + 1 \in DOMAIN stack' /\ stack'[i + 1].id = one)
    <3>1. \A i \in DOMAIN stack' : \A one \in Graph[stack'[i].id] \ stack'[i].left :
             state'[one] = 2 \/ (i + 1 \in DOMAIN stack' /\ stack'[i + 1].id = one)
      OBVIOUS
    <3> QED BY <1>2, <3>1 DEF VisitedAreFinished
  <2>1. i \in DOMAIN stack /\ one \in Graph[stack[i].id]
    BY <1>11, <1>12, <1>13
  <2>2. one \in Services
    BY <1>1, <2>1, GraphType DEF SearchTypes
  <2>3. CASE one \in stack[i].left
    <3>1. i = n /\ one = next
      BY <1>6, <1>7, <1>10, <2>1, <2>3
    <3>2. n + 1 \in DOMAIN stack'
      BY <1>1, <1>10
    <3> QED BY <1>11, <3>1, <3>2
  <2>4. CASE one \notin stack[i].left
    <3>1. state[one] = 2 \/ (i + 1 \in DOMAIN stack /\ stack[i + 1].id = one)
      BY <2>1, <2>4 DEF VisitedAreFinished
    <3>2. CASE state[one] = 2
      BY <1>14, <2>2, <3>2
    <3>3. CASE i + 1 \in DOMAIN stack /\ stack[i + 1].id = one
      <4>1. i + 1 \in DOMAIN stack'
        BY <1>1, <1>10, <3>3
      <4> QED BY <1>12, <3>3, <4>1
    <3> QED BY <3>1, <3>2, <3>3
  <2> QED BY <2>3, <2>4
<1>19. FinishedAreSafe'
  <2> SUFFICES ASSUME NEW set, Knot(set), NEW id \in set
               PROVE  state'[id] # 2
    BY <1>2 DEF FinishedAreSafe
  <2>1. id \in Services /\ state[id] # 2
    BY DEF FinishedAreSafe, Knot
  <2> QED BY <1>14, <2>1
<1>20. SearchDecidesCycles'
  BY <1>2 DEF SearchDecidesCycles
<1> QED BY <1>16, <1>17, <1>18, <1>19, <1>20

\* The innermost call goes on, in one of three ways.
LEMMA DescendKeepsSearchInv ==
  ASSUME SearchInv, Descend
  PROVE  SearchInv'
<1> DEFINE next == Min(Last(stack).left)
           rest == [stack EXCEPT ![Len(stack)].left = @ \ {next}]
<1>1. pc = "visit" /\ stack # << >> /\ Last(stack).left # {} /\ UNCHANGED snapshot
  BY DEF Descend
<1>2. /\ next \in Services /\ next \in stack[Len(stack)].left
      /\ next \in Graph[stack[Len(stack)].id]
  BY <1>1, NextIsLeft
<1>3. \/ state[next] = 1 /\ pc' = "cyclic" /\ UNCHANGED <<state, stack>>
      \/ state[next] = 2 /\ stack' = rest /\ UNCHANGED <<state, pc>>
      \/ /\ state[next] = 0 /\ state' = Opened(next)
         /\ stack' = Append(rest, [id |-> next, left |-> Graph[next]])
         /\ UNCHANGED pc
  BY DEF Descend
<1> HIDE DEF next
<1>4. CASE state[next] = 1 /\ pc' = "cyclic" /\ UNCHANGED <<state, stack>>
  <2>1. Cyclic(Graph)
    BY <1>1, <1>2, <1>4, StackClosesCycle
  <2>2. /\ Services' = Services /\ Graph' = Graph /\ SnapshotIsInput'
        /\ Cyclic(Graph)'
        /\ \A set : Knot(set)' <=> Knot(set)
        /\ state' = state /\ stack' = stack
    BY <1>1, <1>4, <2>1, SnapshotStays DEF SearchInv, SearchTypes
  <2>3. SearchTypes'
    BY <1>4, <2>2 DEF SearchInv, SearchTypes, Frame
  <2>4. StackIsPath' /\ VisitedAreFinished'
    BY <2>2 DEF SearchInv, StackIsPath, VisitedAreFinished
  <2>5. FinishedAreSafe'
    BY <2>2 DEF SearchInv, FinishedAreSafe
  <2>6. SearchDecidesCycles'
    BY <1>4, <2>2 DEF SearchDecidesCycles
  <2> QED BY <2>3, <2>4, <2>5, <2>6 DEF SearchInv
<1>5. CASE state[next] = 2 /\ stack' = rest /\ UNCHANGED <<state, pc>>
  BY <1>1, <1>2, <1>5, SkipKeepsSearchInv
<1>6. CASE /\ state[next] = 0 /\ state' = Opened(next)
           /\ stack' = Append(rest, [id |-> next, left |-> Graph[next]])
           /\ UNCHANGED pc
  BY <1>1, <1>2, <1>6, VisitKeepsSearchInv
<1> QED BY <1>3, <1>4, <1>5, <1>6

\* Validation touches nothing of the search.
LEMMA ValidateKeepsSearchInv ==
  ASSUME SearchInv, Validate
  PROVE  SearchInv'
<1>1. /\ pc = "validate" /\ pc' \in {"visit", Refused}
      /\ UNCHANGED <<snapshot, state, stack>>
  BY DEF Validate
<1>2. /\ Services' = Services /\ Graph' = Graph /\ SnapshotIsInput'
      /\ \A set : Knot(set)' <=> Knot(set)
      /\ state' = state /\ stack' = stack
  BY <1>1, SnapshotStays DEF SearchInv, SearchTypes
<1>3. SearchTypes'
  BY <1>1, <1>2 DEF SearchInv, SearchTypes, Frame
<1>4. StackIsPath' /\ VisitedAreFinished'
  BY <1>2 DEF SearchInv, StackIsPath, VisitedAreFinished
<1>5. FinishedAreSafe'
  BY <1>2 DEF SearchInv, FinishedAreSafe
<1>6. SearchDecidesCycles'
  BY <1>1 DEF SearchDecidesCycles, Refused
<1> QED BY <1>3, <1>4, <1>5, <1>6 DEF SearchInv

\* When every service is finished, there is no cycle.
LEMMA SimulateKeepsSearchInv ==
  ASSUME SearchInv, Simulate
  PROVE  SearchInv' /\ ~Cyclic(Graph)'
<1>1. /\ pc' = "simulated" /\ UNCHANGED <<snapshot, state, stack>>
      /\ \A id \in Services : state[id] = 2
  BY DEF Simulate, Services
<1>2. ~Cyclic(Graph)
  <2> SUFFICES ASSUME NEW set, Knot(set), set # {} PROVE FALSE
    BY CyclicByKnot DEF SearchInv, SearchTypes
  <2>1. \A id \in set : state[id] = 2
    BY <1>1 DEF Knot
  <2> QED BY <2>1 DEF SearchInv, FinishedAreSafe
<1>3. /\ Services' = Services /\ Graph' = Graph /\ SnapshotIsInput'
      /\ \A set : Knot(set)' <=> Knot(set)
      /\ ~Cyclic(Graph)'
      /\ state' = state /\ stack' = stack
  BY <1>1, <1>2, SnapshotStays DEF SearchInv, SearchTypes
<1>4. SearchTypes'
  BY <1>1, <1>3 DEF SearchInv, SearchTypes, Frame
<1>5. StackIsPath' /\ VisitedAreFinished'
  BY <1>3 DEF SearchInv, StackIsPath, VisitedAreFinished
<1>6. FinishedAreSafe'
  BY <1>3 DEF SearchInv, FinishedAreSafe
<1>7. SearchDecidesCycles'
  BY <1>1, <1>3 DEF SearchDecidesCycles
<1> QED BY <1>3, <1>4, <1>5, <1>6, <1>7 DEF SearchInv

\* There is a result only of a snapshot without cycles, and it is that of the
\* snapshot.
ResultIsOfSnapshot ==
    /\ pc # "simulated" => result = NoResult
    /\ pc = "simulated" => result = Result

\* Every step keeps the invariant of the search.
LEMMA SimulatorStep == SearchInv /\ [Next]_vars => SearchInv'
<1> SUFFICES ASSUME SearchInv, [Next]_vars PROVE SearchInv'
  OBVIOUS
<1>1. CASE UNCHANGED vars
  <2>1. UNCHANGED snapshot /\ pc' = pc /\ state' = state /\ stack' = stack
    BY <1>1 DEF vars, snapshot
  <2>2. /\ Services' = Services /\ Graph' = Graph /\ SnapshotIsInput'
        /\ Cyclic(Graph)' <=> Cyclic(Graph)
        /\ \A set : Knot(set)' <=> Knot(set)
    BY <2>1, SnapshotStays DEF SearchInv, SearchTypes
  <2>3. SearchTypes'
    BY <2>1, <2>2 DEF SearchInv, SearchTypes, Frame
  <2>4. StackIsPath' /\ VisitedAreFinished'
    BY <2>1, <2>2 DEF SearchInv, StackIsPath, VisitedAreFinished
  <2>5. FinishedAreSafe' /\ SearchDecidesCycles'
    BY <2>1, <2>2 DEF SearchInv, FinishedAreSafe, SearchDecidesCycles
  <2> QED BY <2>3, <2>4, <2>5 DEF SearchInv
<1>2. CASE Next
  BY <1>2, RootKeepsSearchInv, DescendKeepsSearchInv, LeaveKeepsSearchInv,
     ValidateKeepsSearchInv, SimulateKeepsSearchInv DEF Next
<1> QED BY <1>1, <1>2

\* The stack and the marks of the search tell how far it has come.
THEOREM SearchIsSound == Spec => []SearchInv
<1>1. SearchInv /\ [Next]_vars => SearchInv'
  BY SimulatorStep
<1> QED BY <1>1, SearchStarts, PTL DEF Spec

\* In whatever order the map is iterated, the search refuses a snapshot if its
\* dependencies form a cycle and accepts it if they do not.
THEOREM SearchDecidesCyclesHolds == Spec => []SearchDecidesCycles
<1>1. SearchInv => SearchDecidesCycles
  BY DEF SearchInv
<1> QED BY <1>1, SearchIsSound, PTL

-----------------------------------------------------------------------------
(* resolveService.  It is defined by recursion along the dependencies; that *)
(* there is such a function follows from there being no cycle.             *)

\* Without a cycle, every set of services has one that depends on no other of
\* the set: a claim holds of all services if there is no such counterexample.
LEMMA Foremost ==
  ASSUME SnapshotIsInput, ~Cyclic(Graph),
         NEW set, set \subseteq Services, set # {}
  PROVE  \E id \in set : Graph[id] \cap set = {}
  BY CyclicByKnot DEF Knot

\* One call: what it returns for each path that leads to its service, given
\* what calls for other services return.
Resolved(resolve, failing, id) ==
    [path \in Seq(Services) |->
        LET here == Append(path, id)
            broken == {next \in Graph[id] : resolve[next][here] # << >>}
        IN  IF id \in failing \/ Contains(path, id) THEN here
            ELSE IF broken # {} THEN resolve[Min(broken)][here]
            ELSE << >>]

Resolution(failing) ==
    CHOOSE resolve : resolve = [id \in Services |-> Resolved(resolve, failing, id)]

\* The services a call has found to lead to a failing one.
Broken(resolve, id, path) ==
    {next \in Graph[id] : resolve[next][Append(path, id)] # << >>}

\* resolveService asks Resolution for a path that begins with its service.
LEMMA ResolveServiceIsResolution ==
  ASSUME NEW failing, NEW id
  PROVE  resolveService(failing, id) = Resolution(failing)[id][<< >>]
  BY Zenon DEF resolveService, Resolution, Resolved, Services

\* The broken dependency that is followed is one of them.
LEMMA LeastBroken ==
  ASSUME SnapshotIsInput, NEW id \in Services, NEW set, set \subseteq Graph[id], set # {}
  PROVE  Min(set) \in set
<1>1. set \subseteq Nat
  BY GraphType
<1> QED BY <1>1, LeastNatural

\* The result of a call depends on the calls it makes only.
LEMMA ResolvedDependsOn ==
  ASSUME SnapshotIsInput, NEW failing, NEW id \in Services, NEW one, NEW other,
         \A next \in Graph[id] : one[next] = other[next]
  PROVE  Resolved(one, failing, id) = Resolved(other, failing, id)
<1>1. ASSUME NEW path \in Seq(Services)
      PROVE  Resolved(one, failing, id)[path] = Resolved(other, failing, id)[path]
  <2>1. Broken(one, id, path) = Broken(other, id, path)
    BY DEF Broken
  <2>2. /\ Broken(one, id, path) \subseteq Graph[id]
        /\ Broken(one, id, path) # {} =>
              Min(Broken(one, id, path)) \in Broken(one, id, path)
    BY LeastBroken DEF Broken
  <2>3. ASSUME NEW resolve
        PROVE  Resolved(resolve, failing, id)[path] =
                 IF id \in failing \/ Contains(path, id) THEN Append(path, id)
                 ELSE IF Broken(resolve, id, path) # {}
                 THEN resolve[Min(Broken(resolve, id, path))][Append(path, id)]
                 ELSE << >>
    BY DEF Resolved, Broken
  <2>4. Broken(one, id, path) # {} =>
           one[Min(Broken(one, id, path))] = other[Min(Broken(other, id, path))]
    BY <2>1, <2>2
  <2> QED BY <2>1, <2>3, <2>4
<1>2. \A resolve : Resolved(resolve, failing, id) =
                     [path \in Seq(Services) |-> Resolved(resolve, failing, id)[path]]
  BY DEF Resolved
<1> QED BY <1>1, <1>2

\* A function that is a solution for a set of services and all they need.
Solves(resolve, set, failing) ==
    /\ set \subseteq Services
    /\ \A id \in set :
          Graph[id] \subseteq set /\ resolve[id] = Resolved(resolve, failing, id)

\* Where two partial solutions of the recursion both give a value, it is the same.
LEMMA SolutionsAgree ==
  ASSUME SnapshotIsInput, ~Cyclic(Graph), NEW failing,
         NEW one, NEW set, Solves(one, set, failing),
         NEW other, NEW otherSet, Solves(other, otherSet, failing),
         NEW x \in set \cap otherSet
  PROVE  one[x] = other[x]
<1> DEFINE differ == {id \in set \cap otherSet : one[id] # other[id]}
<1>1. SUFFICES ASSUME differ # {} PROVE FALSE
  OBVIOUS
<1>2. differ \subseteq Services
  BY DEF Solves
<1>3. PICK id \in differ : Graph[id] \cap differ = {}
  <2> HIDE DEF differ
  <2> QED BY <1>1, <1>2, Foremost
<1>4. id \in Services /\ Graph[id] \subseteq set \cap otherSet
  BY <1>2, <1>3 DEF Solves
<1>5. \A next \in Graph[id] : one[next] = other[next]
  BY <1>3, <1>4
<1>6. Resolved(one, failing, id) = Resolved(other, failing, id)
  BY <1>4, <1>5, ResolvedDependsOn
<1> QED BY <1>3, <1>6 DEF Solves

\* Without a cycle the recursion has a solution: the calls of resolveService end.
LEMMA SolutionExists ==
  ASSUME SnapshotIsInput, ~Cyclic(Graph), NEW failing
  PROVE  \E resolve : resolve = [id \in Services |-> Resolved(resolve, failing, id)]
<1> DEFINE solved == {id \in Services : \E f, set : id \in set /\ Solves(f, set, failing)}
           Value(id) == CHOOSE value : \E f, set : /\ id \in set /\ Solves(f, set, failing)
                                                   /\ value = f[id]
           all == [id \in solved |-> Value(id)]
<1>1. ASSUME NEW f, NEW set, Solves(f, set, failing), NEW id \in set
      PROVE  id \in solved /\ all[id] = f[id]
  <2>1. id \in solved
    BY <1>1 DEF Solves
  <2>2. \E value : \E g, other : /\ id \in other /\ Solves(g, other, failing)
                                 /\ value = g[id]
    BY <1>1
  <2>3. PICK g, other : id \in other /\ Solves(g, other, failing) /\ Value(id) = g[id]
    BY <2>2
  <2>4. g[id] = f[id]
    BY <1>1, <2>3, SolutionsAgree
  <2> QED BY <2>1, <2>3, <2>4
<1>2. Solves(all, solved, failing)
  <2>1. ASSUME NEW id \in solved
        PROVE  Graph[id] \subseteq solved /\ all[id] = Resolved(all, failing, id)
    <3>1. PICK f, set : id \in set /\ Solves(f, set, failing)
      OBVIOUS
    <3>2. Graph[id] \subseteq set /\ f[id] = Resolved(f, failing, id) /\ id \in Services
      BY <3>1 DEF Solves
    <3> HIDE DEF all, solved
    <3>3. \A next \in Graph[id] : next \in solved /\ all[next] = f[next]
      BY <1>1, <3>1, <3>2
    <3>4. all[id] = f[id]
      BY <1>1, <3>1
    <3>5. Resolved(f, failing, id) = Resolved(all, failing, id)
      BY <3>2, <3>3, ResolvedDependsOn
    <3> QED BY <3>2, <3>3, <3>4, <3>5
  <2>2. solved \subseteq Services
    OBVIOUS
  <2> HIDE DEF all, solved
  <2> QED BY <2>1, <2>2 DEF Solves
<1>3. solved \subseteq Services /\ DOMAIN all = solved
      /\ all = [id \in solved |-> all[id]]
  OBVIOUS
<1> HIDE DEF all, solved
<1>4. Services \subseteq solved
  <2> DEFINE missing == Services \ solved
  <2>1. SUFFICES ASSUME missing # {} PROVE FALSE
    OBVIOUS
  <2>2. PICK id \in missing : Graph[id] \cap missing = {}
    <3>1. missing \subseteq Services
      OBVIOUS
    <3> HIDE DEF missing
    <3> QED BY <2>1, <3>1, Foremost
  <2>3. Graph[id] \subseteq solved /\ id \in Services /\ id \notin solved
    BY <2>2, GraphType
  <2> DEFINE more == [x \in solved \cup {id} |->
                        IF x = id THEN Resolved(all, failing, id) ELSE all[x]]
  <2>4. more[id] = Resolved(all, failing, id) /\ \A x \in solved : more[x] = all[x]
    BY <2>3
  <2> HIDE DEF more
  <2>5. ASSUME NEW x \in solved \cup {id}
        PROVE  Graph[x] \subseteq solved /\ more[x] = Resolved(all, failing, x)
               /\ x \in Services
    BY <1>2, <2>3, <2>4 DEF Solves
  <2>6. ASSUME NEW x \in solved \cup {id}
        PROVE  Resolved(more, failing, x) = Resolved(all, failing, x)
    BY <2>4, <2>5, <2>6, ResolvedDependsOn
  <2>7. Solves(more, solved \cup {id}, failing)
    BY <2>5, <2>6 DEF Solves
  <2> QED BY <1>1, <2>3, <2>7
<1>5. solved = Services
  BY <1>3, <1>4
<1>6. all = [id \in Services |-> Resolved(all, failing, id)]
  <2>1. \A id \in Services : all[id] = Resolved(all, failing, id)
    BY <1>2, <1>5 DEF Solves
  <2> QED BY <1>3, <1>5, <2>1
<1> QED BY <1>6

\* What one call returns.
LEMMA ResolutionUnfolds ==
  ASSUME SnapshotIsInput, ~Cyclic(Graph), NEW failing,
         NEW id \in Services, NEW path \in Seq(Services)
  PROVE  LET resolve == Resolution(failing)
             here == Append(path, id)
             broken == Broken(resolve, id, path)
         IN  /\ id \in failing \/ Contains(path, id) => resolve[id][path] = here
             /\ id \notin failing /\ ~Contains(path, id) =>
                   /\ broken = {} => resolve[id][path] = << >>
                   /\ broken # {} => /\ Min(broken) \in broken
                                     /\ resolve[id][path] = resolve[Min(broken)][here]
<1> DEFINE resolve == Resolution(failing)
<1>1. resolve = [x \in Services |-> Resolved(resolve, failing, x)]
  BY SolutionExists, Zenon DEF Resolution
<1> HIDE DEF resolve
<1>2. resolve[id] = Resolved(resolve, failing, id)
  <2>1. \A f : f = [x \in Services |-> Resolved(resolve, failing, x)] =>
                  f[id] = Resolved(resolve, failing, id)
    OBVIOUS
  <2> QED BY <1>1, <2>1
<1>3. Resolved(resolve, failing, id)[path] =
        IF id \in failing \/ Contains(path, id) THEN Append(path, id)
        ELSE IF Broken(resolve, id, path) # {}
        THEN resolve[Min(Broken(resolve, id, path))][Append(path, id)]
        ELSE << >>
  BY DEF Resolved, Broken
<1>4. Broken(resolve, id, path) # {} =>
        Min(Broken(resolve, id, path)) \in Broken(resolve, id, path)
  BY LeastBroken DEF Broken
<1> QED BY <1>2, <1>3, <1>4 DEF resolve

-----------------------------------------------------------------------------
(* What resolveService finds.                                              *)

\* A path along the dependencies whose next service is this one.
WalkTo(path, id) ==
    /\ path \in Seq(Services) /\ id \in Services
    /\ \A k \in 1 .. Len(path) :
          (IF k = Len(path) THEN id ELSE path[k + 1]) \in Graph[path[k]]

\* A path with one more service.
LEMMA AppendFacts ==
  ASSUME NEW path \in Seq(Services), NEW id \in Services
  PROVE  /\ Append(path, id) \in Seq(Services)
         /\ Append(path, id) # << >>
         /\ Len(path) \in Nat
         /\ Len(Append(path, id)) = Len(path) + 1
         /\ \A k \in 1 .. Len(path) : Append(path, id)[k] = path[k] /\ path[k] \in Services
         /\ Append(path, id)[Len(path) + 1] = id
<1>1. /\ Append(path, id) \in Seq(Services)
      /\ Len(path) \in Nat
      /\ Len(Append(path, id)) = Len(path) + 1
  OBVIOUS
<1>2. Append(path, id) # << >>
  BY <1>1
<1>3. \A k \in 1 .. Len(path) : Append(path, id)[k] = path[k] /\ path[k] \in Services
  OBVIOUS
<1>4. Append(path, id)[Len(path) + 1] = id
  OBVIOUS
<1> QED BY <1>1, <1>2, <1>3, <1>4

\* A walk can be continued along any dependency.
LEMMA WalkGoesOn ==
  ASSUME SnapshotIsInput, NEW path, NEW id, WalkTo(path, id), NEW next \in Graph[id]
  PROVE  WalkTo(Append(path, id), next)
<1>1. next \in Services
  BY GraphType DEF WalkTo
<1> DEFINE longer == Append(path, id)
<1>2. /\ longer \in Seq(Services) /\ Len(path) \in Nat /\ Len(longer) = Len(path) + 1
      /\ \A k \in 1 .. Len(path) : longer[k] = path[k]
      /\ longer[Len(path) + 1] = id
  BY AppendFacts DEF WalkTo
<1> HIDE DEF longer
<1>3. ASSUME NEW k \in 1 .. Len(longer)
      PROVE  (IF k = Len(longer) THEN next ELSE longer[k + 1]) \in Graph[longer[k]]
  <2>1. CASE k = Len(longer)
    BY <1>2, <2>1
  <2>2. CASE k = Len(path)
    BY <1>2, <2>2 DEF WalkTo
  <2>3. CASE k # Len(longer) /\ k # Len(path)
    <3>1. k \in 1 .. Len(path) /\ k + 1 \in 1 .. Len(path)
      BY <1>2, <2>3
    <3> QED BY <1>2, <2>3, <3>1 DEF WalkTo
  <2> QED BY <2>1, <2>2, <2>3
<1>4. WalkTo(longer, next)
  BY <1>1, <1>2, <1>3 DEF WalkTo
<1> QED BY <1>4 DEF longer

\* Without a cycle, no walk comes back.
LEMMA WalkDoesNotReturn ==
  ASSUME SnapshotIsInput, ~Cyclic(Graph), NEW path, NEW id, WalkTo(path, id)
  PROVE  ~Contains(path, id)
<1>1. SUFFICES ASSUME NEW i \in 1 .. Len(path), path[i] = id PROVE FALSE
  BY DEF Contains
<1>2. Len(path) \in Nat /\ \A k \in 1 .. Len(path) : path[k] \in Services
  BY AppendFacts DEF WalkTo
<1> DEFINE knot == {path[k] : k \in i .. Len(path)}
<1>3. knot \subseteq Services /\ id \in knot
  BY <1>1, <1>2
<1>4. ASSUME NEW k \in i .. Len(path) PROVE Graph[path[k]] \cap knot # {}
  <2>1. CASE k = Len(path)
    BY <1>2, <1>3, <2>1 DEF WalkTo
  <2>2. CASE k # Len(path)
    <3>1. k + 1 \in i .. Len(path) /\ k \in 1 .. Len(path)
      BY <1>2, <2>2
    <3>2. path[k + 1] \in knot
      BY <3>1
    <3> QED BY <2>2, <3>1, <3>2 DEF WalkTo
  <2> QED BY <2>1, <2>2
<1>5. Knot(knot)
  BY <1>3, <1>4 DEF Knot
<1> QED BY <1>3, <1>5, CyclicByKnot

\* A failing service is one that is not sound.
LEMMA FailingIsUnsound ==
  ASSUME NEW at, NEW id \in Services
  PROVE  id \in Failing(at) <=> ~Sound(id, at)
  BY DEF Failing, Sound, Services

\* Where nothing is found, all that the service needs is sound.
LEMMA EmptyIsReachable ==
  ASSUME SnapshotIsInput, ~Cyclic(Graph), NEW at, NEW from \in Services,
         Resolution(Failing(at))[from][<< >>] = << >>
  PROVE  ReachableAt(from, at)
<1> DEFINE resolve == Resolution(Failing(at))
           closed == {id \in Services : \E path : WalkTo(path, id) /\ resolve[id][path] = << >>}
<1>1. WalkTo(<< >>, from)
  BY DEF WalkTo
<1>2. ASSUME NEW id \in closed
      PROVE  Sound(id, at) /\ Graph[id] \subseteq closed
  <2>1. PICK path : WalkTo(path, id) /\ resolve[id][path] = << >>
    OBVIOUS
  <2>2. path \in Seq(Services) /\ id \in Services
    BY <2>1 DEF WalkTo
  <2> HIDE DEF resolve
  <2>3. Append(path, id) # << >>
    BY <2>2, AppendFacts
  <2>4. id \notin Failing(at) /\ ~Contains(path, id)
    BY <2>1, <2>2, <2>3, ResolutionUnfolds DEF resolve
  <2>5. Broken(resolve, id, path) = {}
    <3> SUFFICES ASSUME Broken(resolve, id, path) # {} PROVE FALSE
      OBVIOUS
    <3>1. /\ Min(Broken(resolve, id, path)) \in Broken(resolve, id, path)
          /\ resolve[id][path] = resolve[Min(Broken(resolve, id, path))][Append(path, id)]
      BY <2>2, <2>4, ResolutionUnfolds DEF resolve
    <3> QED BY <2>1, <3>1 DEF Broken
  <2>6. ASSUME NEW next \in Graph[id] PROVE next \in closed
    <3>1. WalkTo(Append(path, id), next) /\ next \in Services
      BY <2>1, WalkGoesOn DEF WalkTo
    <3>2. resolve[next][Append(path, id)] = << >>
      BY <2>5 DEF Broken
    <3> QED BY <3>1, <3>2
  <2> QED BY <2>2, <2>4, <2>6, FailingIsUnsound
<1>3. from \in closed
  BY <1>1
<1>4. closed \subseteq Services
  OBVIOUS
<1> HIDE DEF closed
<1>5. closed \in SUBSET Active
  BY <1>2 DEF Sound
<1> QED BY <1>2, <1>3, <1>5 DEF ReachableAt

\* Where all that the service needs is sound, nothing is found.
LEMMA ReachableIsEmpty ==
  ASSUME SnapshotIsInput, ~Cyclic(Graph), NEW at, NEW from \in Services,
         ReachableAt(from, at)
  PROVE  Resolution(Failing(at))[from][<< >>] = << >>
<1> DEFINE resolve == Resolution(Failing(at))
<1>1. PICK closed \in SUBSET Active :
         /\ from \in closed
         /\ \A member \in closed : Sound(member, at) /\ Graph[member] \subseteq closed
  BY DEF ReachableAt
<1> DEFINE found == {id \in closed : \E path : WalkTo(path, id) /\ resolve[id][path] # << >>}
<1>2. WalkTo(<< >>, from)
  BY DEF WalkTo
<1>3. SUFFICES ASSUME found # {} PROVE FALSE
  BY <1>1, <1>2
<1>4. found \subseteq Services
  BY DEF Active, Services
<1>5. PICK id \in found : Graph[id] \cap found = {}
  <2> HIDE DEF found
  <2> QED BY <1>3, <1>4, Foremost
<1>6. PICK path : WalkTo(path, id) /\ resolve[id][path] # << >>
  OBVIOUS
<1>7. path \in Seq(Services) /\ id \in Services /\ id \in closed
  BY <1>6 DEF WalkTo
<1> HIDE DEF resolve
<1>8. id \notin Failing(at) /\ ~Contains(path, id)
  BY <1>1, <1>6, <1>7, FailingIsUnsound, WalkDoesNotReturn
<1>9. ASSUME NEW next \in Graph[id] PROVE resolve[next][Append(path, id)] = << >>
  <2>1. next \in closed /\ next \notin found
    BY <1>1, <1>5, <1>7
  <2>2. WalkTo(Append(path, id), next)
    BY <1>6, WalkGoesOn
  <2> QED BY <2>1, <2>2
<1>10. Broken(resolve, id, path) = {}
  BY <1>9 DEF Broken
<1> QED BY <1>6, <1>7, <1>8, <1>10, ResolutionUnfolds DEF resolve

\* A path that leads along dependencies, through sound services, to one that
\* is not.
Leads(path, at) ==
    /\ path \in Seq(Services) /\ path # << >>
    /\ \A i \in 1 .. (Len(path) - 1) :
          Sound(path[i], at) /\ path[i + 1] \in Graph[path[i]]
    /\ ~Sound(Last(path), at)

\* A path that is found begins where it was asked for and leads to a failure.
LEMMA FoundLeads ==
  ASSUME SnapshotIsInput, ~Cyclic(Graph), NEW at, NEW from \in Services,
         Resolution(Failing(at))[from][<< >>] # << >>
  PROVE  /\ Leads(Resolution(Failing(at))[from][<< >>], at)
         /\ Head(Resolution(Failing(at))[from][<< >>]) = from
<1> DEFINE resolve == Resolution(Failing(at))
           SoundWalk(path, id) ==
               WalkTo(path, id) /\ \A k \in 1 .. Len(path) : Sound(path[k], at)
           wrong == {id \in Services : \E path :
                       /\ SoundWalk(path, id) /\ resolve[id][path] # << >>
                       /\ ~ (/\ Leads(resolve[id][path], at)
                             /\ resolve[id][path][1] = Append(path, id)[1])}
<1>1. wrong = {}
  <2>1. SUFFICES ASSUME wrong # {} PROVE FALSE
    OBVIOUS
  <2>2. PICK id \in wrong : Graph[id] \cap wrong = {}
    <3>1. wrong \subseteq Services
      OBVIOUS
    <3> HIDE DEF wrong
    <3> QED BY <2>1, <3>1, Foremost
  <2>3. PICK path :
           /\ SoundWalk(path, id) /\ resolve[id][path] # << >>
           /\ ~ (/\ Leads(resolve[id][path], at)
                 /\ resolve[id][path][1] = Append(path, id)[1])
    BY <2>2
  <2>4. /\ path \in Seq(Services) /\ id \in Services /\ WalkTo(path, id)
        /\ \A k \in 1 .. Len(path) : Sound(path[k], at)
    BY <2>3 DEF WalkTo
  <2> DEFINE here == Append(path, id)
  <2>5. /\ here \in Seq(Services) /\ here # << >> /\ Len(path) \in Nat
        /\ Len(here) = Len(path) + 1 /\ here[Len(path) + 1] = id
        /\ \A k \in 1 .. Len(path) : here[k] = path[k]
    BY <2>4, AppendFacts
  <2>6. ~Contains(path, id)
    BY <2>4, WalkDoesNotReturn
  <2> HIDE DEF resolve, here
  <2>7. id \notin Failing(at)
    <3> SUFFICES ASSUME id \in Failing(at) PROVE FALSE
      OBVIOUS
    <3>1. resolve[id][path] = here
      BY <2>4, ResolutionUnfolds DEF resolve, here
    <3>2. ASSUME NEW i \in 1 .. (Len(here) - 1)
          PROVE  Sound(here[i], at) /\ here[i + 1] \in Graph[here[i]]
      <4>1. i \in 1 .. Len(path) /\ here[i] = path[i] /\ Sound(here[i], at)
        BY <2>4, <2>5
      <4>2. here[i + 1] = IF i = Len(path) THEN id ELSE path[i + 1]
        BY <2>5, <4>1
      <4> QED BY <2>4, <4>1, <4>2 DEF WalkTo
    <3>3. ~Sound(Last(here), at)
      BY <2>4, <2>5, FailingIsUnsound DEF Last
    <3>4. Leads(here, at)
      BY <2>5, <3>2, <3>3 DEF Leads
    <3> QED BY <2>3, <3>1, <3>4 DEF here
  <2>8. Broken(resolve, id, path) # {}
    BY <2>3, <2>4, <2>6, <2>7, ResolutionUnfolds DEF resolve
  <2> DEFINE next == Min(Broken(resolve, id, path))
  <2>9. /\ next \in Broken(resolve, id, path)
        /\ resolve[id][path] = resolve[next][here]
    BY <2>4, <2>6, <2>7, <2>8, ResolutionUnfolds DEF resolve, here
  <2> HIDE DEF next
  <2>10. next \in Graph[id] /\ resolve[next][here] # << >>
    BY <2>9 DEF Broken, here
  <2>11. WalkTo(here, next) /\ next \in Services
    BY <2>4, <2>10, WalkGoesOn DEF WalkTo, here
  <2>12. \A k \in 1 .. Len(here) : Sound(here[k], at)
    <3>1. Sound(id, at)
      BY <2>4, <2>7, FailingIsUnsound
    <3> QED BY <2>4, <2>5, <3>1
  <2>13. SoundWalk(here, next)
    BY <2>11, <2>12
  <2>14. next \notin wrong
    BY <2>2, <2>10
  <2>15. Leads(resolve[next][here], at) /\ resolve[next][here][1] = Append(here, next)[1]
    BY <2>10, <2>11, <2>13, <2>14
  <2>16. Append(here, next)[1] = here[1]
    BY <2>5, <2>11, AppendFacts
  <2> QED BY <2>3, <2>9, <2>15, <2>16 DEF here
<1>2. SoundWalk(<< >>, from) /\ Append(<< >>, from)[1] = from
  BY DEF WalkTo
<1>3. Leads(resolve[from][<< >>], at) /\ resolve[from][<< >>][1] = Append(<< >>, from)[1]
  BY <1>1, <1>2
<1> QED BY <1>2, <1>3 DEF Leads

-----------------------------------------------------------------------------
(* A result is that of its snapshot, before and after a step.              *)

\* resolveService with the graph it goes through as a parameter.
ResolvedIn(graph, set, failing, from) ==
    LET resolve[id \in set] == [path \in Seq(set) |->
            LET here == Append(path, id)
                broken == {next \in graph[id] : resolve[next][here] # << >>}
            IN  IF id \in failing \/ Contains(path, id) THEN here
                ELSE IF broken # {} THEN resolve[Min(broken)][here]
                ELSE << >>]
    IN  resolve[from][<< >>]

\* The result is a function of the snapshot, which no step changes.
LEMMA ResultStays ==
  ASSUME UNCHANGED snapshot
  PROVE  Result' = Result
<1>1. config' = config /\ chains' = chains /\ services' = services
  BY DEF snapshot
<1>2. Graph' = Graph /\ Active' = Active /\ criticalTimes' = criticalTimes
  BY <1>1 DEF Graph, Active, criticalTimes
<1>3. ASSUME NEW at PROVE activeAnchors(at)' = activeAnchors(at)
  BY <1>1 DEF activeAnchors
<1>4. ASSUME NEW service, NEW at, NEW id
      PROVE  Usable(service, chains[id], at)' <=> Usable(service, chains[id], at)
  BY <1>1, <1>3 DEF Usable
<1>5. ASSUME NEW service PROVE Candidates(service)' = Candidates(service)
  BY <1>1 DEF Candidates
<1>6. ASSUME NEW service, NEW at
      PROVE  evaluateDirect(service, at)' = evaluateDirect(service, at)
  <2> DEFINE usable == {id \in Candidates(service) : Usable(service, chains[id], at)}
  <2>1. usable' = usable
    BY <1>4, <1>5
  <2>2. evaluateDirect(service, at) =
          IF service.ChainID \notin DOMAIN chains \/ usable = {} THEN 0 ELSE Min(usable)
    BY DEF evaluateDirect
  <2>3. evaluateDirect(service, at)' =
          IF service.ChainID \notin DOMAIN chains' \/ usable' = {} THEN 0 ELSE Min(usable')
    BY DEF evaluateDirect
  <2> HIDE DEF usable
  <2> QED BY <1>1, <2>1, <2>2, <2>3
<1>7. ASSUME NEW at PROVE Failing(at)' = Failing(at)
  BY <1>1, <1>2, <1>6 DEF Failing
<1>8. ASSUME NEW failing, NEW id
      PROVE  resolveService(failing, id)' = resolveService(failing, id)
  <2>1. resolveService(failing, id) = ResolvedIn(Graph, DOMAIN services, failing, id)
    BY Zenon DEF resolveService, ResolvedIn
  <2>2. resolveService(failing, id)' = ResolvedIn(Graph', DOMAIN services', failing, id)
    BY Zenon DEF resolveService, ResolvedIn
  <2> QED BY <1>1, <1>2, <2>1, <2>2
<1>9. ASSUME NEW at PROVE Outcomes(at)' = Outcomes(at)
  <2> SUFFICES ASSUME NEW failing, failing = Failing(at), failing = Failing(at)'
               PROVE  Outcomes(at)' = Outcomes(at)
    BY <1>7
  <2>1. Outcomes(at) =
          {[At |-> at, ServiceID |-> id,
            SelectedChainID |-> evaluateDirect(services[id], at),
            BrokenPath |-> resolveService(failing, id)] : id \in Active}
    BY DEF Outcomes
  <2>2. Outcomes(at)' =
          {[At |-> at, ServiceID |-> id,
            SelectedChainID |-> evaluateDirect(services[id], at)',
            BrokenPath |-> resolveService(failing, id)'] : id \in Active'}
    BY DEF Outcomes
  <2>3. \A id : /\ evaluateDirect(services[id], at)' = evaluateDirect(services[id], at)
               /\ resolveService(failing, id)' = resolveService(failing, id)
    BY <1>1, <1>6, <1>8
  <2> QED BY <1>2, <2>1, <2>2, <2>3
<1>10. ASSUME NEW failures PROVE explain(failures)' = explain(failures)
  BY <1>1 DEF explain
<1> QED BY <1>2, <1>9, <1>10 DEF Result

\* The result is stored by the last step only, and stays that of the snapshot.
LEMMA ResultIsOfSnapshotStep ==
  ResultIsOfSnapshot /\ [Next]_vars => ResultIsOfSnapshot'
<1> SUFFICES ASSUME ResultIsOfSnapshot, [Next]_vars PROVE ResultIsOfSnapshot'
  OBVIOUS
<1>1. CASE UNCHANGED vars
  <2>1. UNCHANGED snapshot /\ pc' = pc /\ result' = result
    BY <1>1 DEF vars, snapshot
  <2> QED BY <2>1, ResultStays DEF ResultIsOfSnapshot
<1>2. CASE Simulate
  <2>1. UNCHANGED snapshot /\ pc' = "simulated" /\ result' = Result
    BY <1>2 DEF Simulate
  <2> QED BY <2>1, ResultStays DEF ResultIsOfSnapshot
<1>3. CASE Validate \/ Root \/ Descend \/ Leave
  <2>1. result' = result /\ pc # "simulated" /\ pc' # "simulated"
    BY <1>3 DEF Validate, Root, Descend, Leave, Refused
  <2> QED BY <2>1 DEF ResultIsOfSnapshot
<1> QED BY <1>1, <1>2, <1>3 DEF Next

\* There is no result before the search has ended, and then it is that of the
\* snapshot.
THEOREM ResultIsOfSnapshotHolds == Spec => []ResultIsOfSnapshot
<1>1. Init => ResultIsOfSnapshot
  BY DEF Init, ResultIsOfSnapshot
<1> QED BY <1>1, ResultIsOfSnapshotStep, PTL DEF Spec

\* What a result says of an active service at a time, and that it says
\* something of each of them.
LEMMA EvidenceShape ==
  ASSUME SearchInv, ResultIsOfSnapshot, NEW found \in result.Evidence
  PROVE  /\ pc = "simulated" /\ ~Cyclic(Graph) /\ SnapshotIsInput
         /\ found.ServiceID \in Active /\ found.ServiceID \in Services
         /\ found.At \in criticalTimes
         /\ found.BrokenPath = Resolution(Failing(found.At))[found.ServiceID][<< >>]
         /\ \A at \in criticalTimes : \E other \in result.Evidence :
               other.At = at /\ other.ServiceID = found.ServiceID
<1>1. pc = "simulated" /\ result = Result
  BY DEF ResultIsOfSnapshot, NoResult
<1>2. ~Cyclic(Graph) /\ SnapshotIsInput
  BY <1>1 DEF SearchInv, SearchDecidesCycles, SearchTypes
<1>3. result.Evidence = UNION {Outcomes(at) : at \in criticalTimes}
  BY <1>1 DEF Result
<1>4. PICK at \in criticalTimes : found \in Outcomes(at)
  BY <1>3
<1>5. PICK id \in Active :
         found = [At |-> at, ServiceID |-> id,
                  SelectedChainID |-> evaluateDirect(services[id], at),
                  BrokenPath |-> resolveService(Failing(at), id)]
  BY <1>4 DEF Outcomes
<1>6. /\ found.At = at /\ found.ServiceID = id
      /\ found.BrokenPath = resolveService(Failing(at), id)
  BY <1>5
<1>7. ASSUME NEW time \in criticalTimes
      PROVE  \E other \in result.Evidence : other.At = time /\ other.ServiceID = id
  <2> DEFINE other == [At |-> time, ServiceID |-> id,
                       SelectedChainID |-> evaluateDirect(services[id], time),
                       BrokenPath |-> resolveService(Failing(time), id)]
  <2>1. other \in Outcomes(time)
    BY DEF Outcomes
  <2>2. other.At = time /\ other.ServiceID = id
    OBVIOUS
  <2> HIDE DEF other
  <2> QED BY <1>3, <2>1, <2>2
<1>8. id \in Services
  BY DEF Active, Services
<1> QED BY <1>1, <1>2, <1>4, <1>5, <1>6, <1>7, <1>8, ResolveServiceIsResolution

\* Nothing is found of exactly the services that are reachable.
LEMMA ResultIsExact ==
  ASSUME SearchInv, ResultIsOfSnapshot
  PROVE  EvidenceIsExact
<1> SUFFICES ASSUME NEW found \in result.Evidence
             PROVE  found.BrokenPath = << >> <=> ReachableAt(found.ServiceID, found.At)
  BY DEF EvidenceIsExact
<1>1. PICK id, at : id = found.ServiceID /\ at = found.At
  OBVIOUS
<1>2. /\ ~Cyclic(Graph) /\ SnapshotIsInput /\ id \in Services
      /\ found.BrokenPath = Resolution(Failing(at))[id][<< >>]
  BY <1>1, EvidenceShape
<1>3. found.BrokenPath = << >> <=> ReachableAt(id, at)
  BY <1>2, EmptyIsReachable, ReachableIsEmpty
<1> QED BY <1>1, <1>3

\* What is found leads from its service to a failure.
LEMMA ResultHasWitnesses ==
  ASSUME SearchInv, ResultIsOfSnapshot
  PROVE  BrokenPathsAreWitnesses
<1> SUFFICES ASSUME NEW found \in result.Evidence, found.BrokenPath # << >>
             PROVE  /\ Head(found.BrokenPath) = found.ServiceID
                    /\ Leads(found.BrokenPath, found.At)
  BY DEF BrokenPathsAreWitnesses, Leads
<1>1. PICK id, at : id = found.ServiceID /\ at = found.At
  OBVIOUS
<1>2. /\ ~Cyclic(Graph) /\ SnapshotIsInput /\ id \in Services
      /\ found.BrokenPath = Resolution(Failing(at))[id][<< >>]
  BY <1>1, EvidenceShape
<1> QED BY <1>1, <1>2, FoundLeads

-----------------------------------------------------------------------------
(* The overlap.                                                            *)

\* What is sound just before the window is sound at every time within it until
\* a chain expires.
LEMMA OverlapKeepsSound ==
  ASSUME SnapshotIsInput, NEW at \in Int, NEW id \in Services,
         config.OverlapStart <= at, at <= config.OverlapEnd,
         \A chain \in DOMAIN chains :
            chains[chain].ValidTo \notin config.OverlapStart .. at,
         Sound(id, config.OverlapStart - 1)
  PROVE  Sound(id, at)
<1> DEFINE before == config.OverlapStart - 1
           usable(time) == {chain \in Candidates(services[id]) :
                              Usable(services[id], chains[chain], time)}
<1>1. config.OverlapStart \in Int /\ config.OverlapEnd \in Int
  BY InputAssumption DEF SnapshotIsInput, ScenarioConfig
<1>2. /\ DOMAIN chains \subseteq Nat \ {0}
      /\ \A chain \in DOMAIN chains :
            chains[chain].ValidFrom \in Int /\ chains[chain].ValidTo \in Int
  <2>1. DOMAIN chains \subseteq ChainIds /\ chains \in [DOMAIN chains -> ChainSnapshot]
    BY InputAssumption DEF SnapshotIsInput
  <2> QED BY <2>1, IdsAssumption DEF ChainSnapshot
<1>3. activeAnchors(before) \subseteq activeAnchors(at)
  BY <1>1 DEF activeAnchors
<1>4. ASSUME NEW time
      PROVE  /\ usable(time) \subseteq Nat \ {0}
             /\ evaluateDirect(services[id], time) # 0 <=>
                   services[id].ChainID \in DOMAIN chains /\ usable(time) # {}
  <2>1. usable(time) \subseteq Nat \ {0}
    BY <1>2 DEF Candidates
  <2>2. evaluateDirect(services[id], time) =
          IF services[id].ChainID \notin DOMAIN chains \/ usable(time) = {}
          THEN 0 ELSE Min(usable(time))
    BY DEF evaluateDirect
  <2> HIDE DEF usable
  <2>3. usable(time) # {} => Min(usable(time)) \in usable(time)
    BY <2>1, LeastNatural
  <2> QED BY <2>1, <2>2, <2>3
<1>5. usable(before) \subseteq usable(at)
  <2> SUFFICES ASSUME NEW chain \in usable(before) PROVE chain \in usable(at)
    OBVIOUS
  <2>1. /\ chain \in DOMAIN chains /\ chain \in Candidates(services[id])
        /\ Usable(services[id], chains[chain], before)
    BY DEF Candidates
  <2>2. /\ chains[chain].ValidFrom \in Int /\ chains[chain].ValidTo \in Int
        /\ chains[chain].ValidTo \notin config.OverlapStart .. at
    BY <1>2, <2>1
  <2>3. chains[chain].ValidFrom <= before /\ before < chains[chain].ValidTo
    BY <2>1 DEF Usable
  <2>4. chains[chain].ValidFrom <= at /\ at < chains[chain].ValidTo
    BY <1>1, <2>2, <2>3
  <2>5. Usable(services[id], chains[chain], at)
    BY <1>3, <2>1, <2>4 DEF Usable
  <2> QED BY <2>1, <2>5
<1>6. id \in Active /\ evaluateDirect(services[id], before) # 0
  BY DEF Sound
<1> HIDE DEF usable
<1>7. evaluateDirect(services[id], at) # 0
  BY <1>4, <1>5, <1>6
<1> QED BY <1>6, <1>7 DEF Sound

\* What is usable before the window stays usable within it, so what is reachable
\* stays reachable.
LEMMA ResultSurvivesOverlap ==
  ASSUME SearchInv, ResultIsOfSnapshot
  PROVE  OverlapBreaksNothing
<1> DEFINE before == config.OverlapStart - 1
<1> SUFFICES ASSUME NEW found \in result.Evidence,
                    config.OverlapStart <= found.At, found.At <= config.OverlapEnd,
                    found.BrokenPath # << >>,
                    \A chain \in DOMAIN chains :
                       chains[chain].ValidTo \notin (before + 1) .. found.At
             PROVE  \E earlier \in result.Evidence :
                       /\ earlier.At = before /\ earlier.ServiceID = found.ServiceID
                       /\ earlier.BrokenPath # << >>
  BY DEF OverlapBreaksNothing
<1>1. /\ SnapshotIsInput /\ found.At \in criticalTimes
      /\ before \in criticalTimes
  BY EvidenceShape DEF criticalTimes
<1>2. config \in ScenarioConfig
  BY <1>1, InputAssumption DEF SnapshotIsInput
<1>3. /\ config.OverlapStart \in Int /\ config.OverlapEnd \in Int
      /\ config.SimulationTime \in Int
  BY <1>2 DEF ScenarioConfig
<1>4. found.At \in Int /\ before + 1 = config.OverlapStart
  BY <1>1, <1>3 DEF criticalTimes
<1>5. PICK earlier \in result.Evidence :
         earlier.At = before /\ earlier.ServiceID = found.ServiceID
  BY <1>1, EvidenceShape
<1>6. SUFFICES ASSUME earlier.BrokenPath = << >> PROVE FALSE
  BY <1>5
<1>7. ReachableAt(found.ServiceID, before)
  BY <1>5, <1>6, ResultIsExact DEF EvidenceIsExact
<1>8. PICK closed \in SUBSET Active :
         /\ found.ServiceID \in closed
         /\ \A member \in closed : Sound(member, before) /\ Graph[member] \subseteq closed
  BY <1>7 DEF ReachableAt
<1>9. ASSUME NEW member \in closed PROVE Sound(member, found.At)
  <2>1. member \in Services
    BY DEF Active, Services
  <2> QED BY <1>1, <1>4, <1>8, <2>1, OverlapKeepsSound
<1>10. ReachableAt(found.ServiceID, found.At)
  BY <1>8, <1>9 DEF ReachableAt
<1> QED BY <1>10, ResultIsExact DEF EvidenceIsExact

\* For every snapshot and however deep its dependencies, the evidence calls
\* exactly those services reachable that need nothing that fails.
THEOREM EvidenceIsExactHolds == Spec => []EvidenceIsExact
<1>1. SearchInv /\ ResultIsOfSnapshot => EvidenceIsExact
  BY ResultIsExact
<1> QED BY <1>1, SearchIsSound, ResultIsOfSnapshotHolds, PTL

\* Every broken path that is reported leads along dependencies, through services
\* that are sound, from its service to one that is not.
THEOREM BrokenPathsAreWitnessesHolds == Spec => []BrokenPathsAreWitnesses
<1>1. SearchInv /\ ResultIsOfSnapshot => BrokenPathsAreWitnesses
  BY ResultHasWitnesses
<1> QED BY <1>1, SearchIsSound, ResultIsOfSnapshotHolds, PTL

\* The overlap of the anchors makes no service unreachable at any time that is
\* evaluated within it, unless a chain expires.
THEOREM OverlapBreaksNothingHolds == Spec => []OverlapBreaksNothing
<1>1. SearchInv /\ ResultIsOfSnapshot => OverlapBreaksNothing
  BY ResultSurvivesOverlap
<1> QED BY <1>1, SearchIsSound, ResultIsOfSnapshotHolds, PTL
=============================================================================
