----------------------- MODULE DependencyGraph_proofs -----------------------
(***************************************************************************)
(* Proofs about the dependent services, for every number of services,      *)
(* users and concurrent requests: the graph stays closed, owners do not    *)
(* transfer, a service is deactivated once, and only an update whose check *)
(* saw another graph can close a cycle.                                    *)
(***************************************************************************)
EXTENDS DependencyGraph, TLAPS

-----------------------------------------------------------------------------
(* The inductive invariant.                                                *)

\* A code that is not registered has no dependencies.
AbsentRowsAreEmpty ==
    \A id \in Ids \ Known : services[id] = AbsentRow

\* The graph an update means to leave behind, given the stored one.
Intended(request) ==
    [id \in Known |-> IF id = request.id THEN request.edges
                      ELSE services[id].dependencyEdges]

\* What a request has been checked for still holds, or it is marked overtaken.
Checked(w) ==
    LET request == requests[w]
    IN  /\ request.pc \in {"validate", "check", "commit"} =>
              /\ request.user \in Users
              /\ request.op # "deactivate" =>
                    /\ request.team \in Teams
                    /\ KeepsTeam(request.user, request.team)
              /\ request.op # "create" => request.id \in Known
        /\ request.pc \in {"check", "commit"} /\ request.op # "deactivate" =>
              /\ request.edges \subseteq Known
              /\ request.op = "update" => request.id \notin request.edges
        /\ request.pc = "commit" /\ request.op = "update" /\ ~request.overtaken =>
              ~Cyclic(Intended(request))

RequestsChecked == \A w \in Workers : Checked(w)

GraphInv == TypeOK /\ AbsentRowsAreEmpty /\ GraphIsClosed /\ RequestsChecked

-----------------------------------------------------------------------------
(* Facts about the operators.                                              *)

\* A service that no other depends on, nor itself, is on no cycle.
LEMMA SourceIsOnNoCycle ==
    ASSUME NEW old, NEW new, NEW id, id \notin DOMAIN old,
           DOMAIN new = DOMAIN old \cup {id}, id \notin new[id],
           \A other \in DOMAIN old : new[other] = old[other] /\ id \notin old[other],
           Cyclic(new)
    PROVE  Cyclic(old)
<1>1. PICK knot \in SUBSET DOMAIN new :
         knot # {} /\ \A other \in knot : new[other] \cap knot # {}
  BY DEF Cyclic
<1> DEFINE rest == knot \ {id}
<1>2. rest \in SUBSET DOMAIN old
  BY <1>1
<1>3. ASSUME NEW other \in rest PROVE old[other] \cap rest # {}
  <2>1. new[other] \cap knot # {} /\ new[other] = old[other] /\ id \notin old[other]
    BY <1>1, <1>2
  <2> QED BY <2>1
<1>4. rest # {}
  BY <1>1
<1> QED BY <1>2, <1>3, <1>4 DEF Cyclic

\* An absent service and an idle goroutine have their types.
LEMMA InitialTypes ==
    /\ AbsentRow \in Row
    /\ Idle \in Request /\ Idle.pc = "idle" /\ Idle.overtaken = FALSE
<1>1. AbsentRow \in Row
  BY GraphAssumption DEF AbsentRow, Row
<1>2. (CHOOSE id \in Ids : TRUE) \in Ids
  BY GraphAssumption
<1> QED
  BY <1>1, <1>2, GraphAssumption DEF Idle, Request, Operations, Answers

\* The outcome of a request is a request that is checked for nothing.
LEMMA OutcomeType ==
    ASSUME NEW answer \in Answers
    PROVE  Outcome(answer) \in Request /\ Outcome(answer).pc = "answered"
BY InitialTypes DEF Outcome, Idle, Request

\* The rows that handlers write are rows.
LEMMA RowTypes ==
    ASSUME NEW row \in Row, NEW team \in Teams, NEW edges \in EdgeSets
    PROVE  /\ Active(team, edges) \in Row
           /\ Deactivated(row) \in Row
           /\ \A request \in Request : request.team = team =>
                 Updated(row, request) \in Row
BY DEF Active, Deactivated, Updated, Row, Request

-----------------------------------------------------------------------------
(* Steps that only change the request of one goroutine.                    *)

\* A goroutine may go on with a request that has been checked for what it claims.
LEMMA BecomeStep ==
    ASSUME GraphInv, NEW w \in Workers, NEW request \in Request,
           Become(w, request),
           request.pc \in {"validate", "check", "commit"} =>
              /\ request.user \in Users
              /\ request.op # "deactivate" =>
                    /\ request.team \in Teams
                    /\ KeepsTeam(request.user, request.team)
              /\ request.op # "create" => request.id \in Known,
           request.pc \in {"check", "commit"} /\ request.op # "deactivate" =>
              /\ request.edges \subseteq Known
              /\ request.op = "update" => request.id \notin request.edges,
           request.pc = "commit" /\ request.op = "update" /\ ~request.overtaken =>
              ~Cyclic(Intended(request))
    PROVE  GraphInv'
<1>1. /\ services' = services /\ trail' = trail /\ writes' = writes
      /\ requests' = [requests EXCEPT ![w] = request]
  BY DEF Become
<1>2. TypeOK'
  BY <1>1 DEF GraphInv, TypeOK
<1>3. Known' = Known /\ \A r : Intended(r)' = Intended(r')
  BY <1>1 DEF Known, Intended
<1>4. AbsentRowsAreEmpty' /\ GraphIsClosed'
  BY <1>1, <1>3 DEF GraphInv, AbsentRowsAreEmpty, GraphIsClosed
<1>5. ASSUME NEW v \in Workers PROVE Checked(v)'
  <2>1. CASE v = w
    BY <1>1, <1>3, <2>1 DEF Checked, GraphInv, TypeOK, Intended
  <2>2. CASE v # w
    <3>1. requests'[v] = requests[v] /\ Checked(v)
      BY <1>1, <2>2 DEF GraphInv, TypeOK, RequestsChecked
    <3> QED BY <1>1, <1>3, <3>1 DEF Checked, Intended
  <2> QED BY <2>1, <2>2
<1> QED BY <1>2, <1>4, <1>5 DEF GraphInv, RequestsChecked

\* A refusal preserves the invariant.
LEMMA RefuseStep ==
    ASSUME GraphInv, NEW w \in Workers, NEW answer \in Answers, Refuse(w, answer)
    PROVE  GraphInv'
BY OutcomeType, BecomeStep DEF Refuse

\* So does the start of a registration.
LEMMA StartCreateStep ==
    ASSUME GraphInv, NEW w \in Workers, StartCreate(w) PROVE GraphInv'
<1>1. PICK user \in Users, id \in Ids, team \in Teams, edges \in EdgeSets :
         \/ Refuse(w, "forbidden")
         \/ /\ OwnsService(user, team)
            /\ Become(w, [Idle EXCEPT !.pc = "validate", !.user = user,
                             !.id = id, !.team = team, !.edges = edges])
  BY DEF StartCreate
<1>2. CASE Refuse(w, "forbidden")
  BY <1>2, RefuseStep DEF Answers
<1>3. CASE /\ OwnsService(user, team)
           /\ Become(w, [Idle EXCEPT !.pc = "validate", !.user = user,
                            !.id = id, !.team = team, !.edges = edges])
  <2> DEFINE request == [Idle EXCEPT !.pc = "validate", !.user = user,
                            !.id = id, !.team = team, !.edges = edges]
  <2>1. /\ request \in Request /\ request.pc = "validate" /\ request.op = "create"
        /\ request.user = user /\ request.team = team
    BY InitialTypes DEF Idle, Request
  <2>2. KeepsTeam(user, team)
    BY <1>3 DEF OwnsService, KeepsTeam, PKIAdministrators
  <2>3. Become(w, request)
    BY <1>3
  <2> HIDE DEF request
  <2> QED BY <2>1, <2>2, <2>3, BecomeStep
<1> QED BY <1>1, <1>2, <1>3

\* And of an update.
LEMMA LoadForUpdateStep ==
    ASSUME GraphInv, NEW w \in Workers, LoadForUpdate(w) PROVE GraphInv'
<1> DEFINE request(user, id, team, edges) ==
        [Idle EXCEPT !.pc = "validate", !.op = "update", !.user = user,
                     !.id = id, !.team = team, !.edges = edges, !.row = services[id]]
<1>1. PICK user \in Users, id \in Ids, team \in Teams, edges \in EdgeSets :
         \/ \E answer \in {"notFound", "forbidden", "cannotTransfer"} : Refuse(w, answer)
         \/ /\ id \in Known /\ KeepsTeam(user, team)
            /\ Become(w, request(user, id, team, edges))
  BY DEF LoadForUpdate
<1>2. CASE \E answer \in {"notFound", "forbidden", "cannotTransfer"} : Refuse(w, answer)
  BY <1>2, RefuseStep DEF Answers
<1>3. CASE /\ id \in Known /\ KeepsTeam(user, team)
           /\ Become(w, request(user, id, team, edges))
  <2> DEFINE r == request(user, id, team, edges)
  <2>1. /\ r \in Request /\ r.pc = "validate" /\ r.op = "update"
        /\ r.user = user /\ r.team = team /\ r.id = id
    BY InitialTypes DEF Idle, Request, Operations, GraphInv, TypeOK
  <2>2. Become(w, r)
    BY <1>3
  <2> HIDE DEF r
  <2> QED BY <1>3, <2>1, <2>2, BecomeStep
<1> QED BY <1>1, <1>2, <1>3

\* And of a deactivation.
LEMMA LoadForDeactivateStep ==
    ASSUME GraphInv, NEW w \in Workers, LoadForDeactivate(w) PROVE GraphInv'
<1> DEFINE request(user, id) ==
        [Idle EXCEPT !.pc = "commit", !.op = "deactivate", !.user = user,
                     !.id = id, !.row = services[id]]
<1>1. PICK user \in Users, id \in Ids :
         \/ \E answer \in {"notFound", "forbidden", "alreadyInactive"} : Refuse(w, answer)
         \/ id \in Known /\ Become(w, request(user, id))
  BY DEF LoadForDeactivate
<1>2. CASE \E answer \in {"notFound", "forbidden", "alreadyInactive"} : Refuse(w, answer)
  BY <1>2, RefuseStep DEF Answers
<1>3. CASE id \in Known /\ Become(w, request(user, id))
  <2> DEFINE r == request(user, id)
  <2>1. /\ r \in Request /\ r.pc = "commit" /\ r.op = "deactivate"
        /\ r.user = user /\ r.id = id
    BY InitialTypes DEF Idle, Request, Operations, GraphInv, TypeOK
  <2>2. Become(w, r)
    BY <1>3
  <2> HIDE DEF r
  <2> QED BY <1>3, <2>1, <2>2, BecomeStep
<1> QED BY <1>1, <1>2, <1>3

\* The dependencies of a validated request are known, and stay so.
LEMMA ValidateReferencesStep ==
    ASSUME GraphInv, NEW w \in Workers, ValidateReferences(w) PROVE GraphInv'
<1> DEFINE r == [requests[w] EXCEPT !.pc = "check"]
<1>1. \/ \E answer \in {"invalidReference", "dependsOnItself"} : Refuse(w, answer)
      \/ /\ ~DependsOnItself(requests[w]) /\ Referable(requests[w].edges)
         /\ Become(w, r)
  BY DEF ValidateReferences
<1>2. CASE \E answer \in {"invalidReference", "dependsOnItself"} : Refuse(w, answer)
  BY <1>2, RefuseStep DEF Answers
<1>3. CASE /\ ~DependsOnItself(requests[w]) /\ Referable(requests[w].edges)
           /\ Become(w, r)
  <2>1. requests[w] \in Request /\ requests[w].pc = "validate" /\ Checked(w)
    BY DEF ValidateReferences, GraphInv, TypeOK, RequestsChecked
  <2>2. /\ r \in Request /\ r.pc = "check" /\ r.op = requests[w].op
        /\ r.user = requests[w].user /\ r.team = requests[w].team
        /\ r.id = requests[w].id /\ r.edges = requests[w].edges
    BY <2>1 DEF Request
  <2>3. Become(w, r)
    BY <1>3
  <2> HIDE DEF r
  <2> QED
    BY <1>3, <2>1, <2>2, <2>3, BecomeStep DEF Checked, Referable, DependsOnItself
<1> QED BY <1>1, <1>2, <1>3

\* An update that has passed the check on what is stored closes no cycle; one
\* whose read failed is overtaken from the start.
LEMMA CheckForCycleStep ==
    ASSUME GraphInv, NEW w \in Workers, CheckForCycle(w) PROVE GraphInv'
<1> DEFINE r(read) == [requests[w] EXCEPT !.pc = "commit", !.overtaken = read # Known]
<1>1. PICK read \in {Known} \cup {{}} :
         \/ Refuse(w, "cyclic")
         \/ ~Rejected(requests[w], read) /\ Become(w, r(read))
  BY DEF CheckForCycle
<1>2. CASE Refuse(w, "cyclic")
  BY <1>2, RefuseStep DEF Answers
<1>3. CASE ~Rejected(requests[w], read) /\ Become(w, r(read))
  <2> DEFINE s == r(read)
  <2>1. requests[w] \in Request /\ requests[w].pc = "check" /\ Checked(w)
    BY DEF CheckForCycle, GraphInv, TypeOK, RequestsChecked
  <2>2. /\ s \in Request /\ s.pc = "commit" /\ s.op = requests[w].op
        /\ s.user = requests[w].user /\ s.team = requests[w].team
        /\ s.id = requests[w].id /\ s.edges = requests[w].edges
        /\ s.overtaken = (read # Known)
    BY <2>1 DEF Request
  <2>3. Become(w, s)
    BY <1>3
  <2>4. ASSUME s.op = "update", ~s.overtaken PROVE ~Cyclic(Intended(s))
    <3>1. read = Known
      BY <2>2, <2>4
    <3>2. Candidate(requests[w], Known) = Intended(s)
      BY <2>2, <2>4 DEF Candidate, Intended
    <3> QED BY <1>3, <3>1, <3>2 DEF Rejected
  <2> HIDE DEF s
  <2> QED BY <2>1, <2>2, <2>3, <2>4, BecomeStep DEF Checked
<1> QED BY <1>1, <1>2, <1>3

-----------------------------------------------------------------------------
(* Commits.                                                                *)

\* Another request is at most marked overtaken, and it is if it waits to commit
\* while the dependencies of a service change.
OnlyOvertaken(v, id) ==
    /\ requests'[v] = [requests[v] EXCEPT !.overtaken = requests'[v].overtaken]
    /\ requests[v].overtaken => requests'[v].overtaken
    /\ requests[v].pc = "commit" /\ ~requests'[v].overtaken =>
          services'[id].dependencyEdges = services[id].dependencyEdges

\* What a commit changes, seen from one service and one request at a time.
LEMMA CommitFacts ==
    ASSUME TypeOK, NEW w \in Workers, requests[w].user \in Users,
           NEW row \in Row, NEW before \in Row, NEW after \in Row,
           Commit(w, row, before, after)
    PROVE  LET id == requests[w].id
           IN  /\ TypeOK'
               /\ id \in Ids /\ services'[id] = row
               /\ \A other \in Ids \ {id} : services'[other] = services[other]
               /\ \A other \in Ids \ {id} : trail'[other] = trail[other]
               /\ trail'[id] = Append(trail[id],
                     [action |-> requests[w].op, actor |-> requests[w].user,
                      before |-> before, after |-> after])
               /\ requests'[w].pc = "respond"
               /\ \A v \in Workers \ {w} : OnlyOvertaken(v, id)
<1> DEFINE id == requests[w].id
           entry == [action |-> requests[w].op, actor |-> requests[w].user,
                     before |-> before, after |-> after]
           late(v) == \/ requests[v].overtaken
                      \/ /\ requests[v].pc = "commit"
                         /\ services'[id].dependencyEdges # services[id].dependencyEdges
<1>1. requests[w] \in Request /\ id \in Ids /\ requests[w].op \in Operations
  BY DEF TypeOK, Request
<1>2. /\ services' = [services EXCEPT ![id] = row]
      /\ trail' = [trail EXCEPT ![id] = Append(trail[id], entry)]
      /\ writes' = writes + 1
      /\ requests' = [v \in Workers |-> IF v = w THEN [Idle EXCEPT !.pc = "respond"]
                                        ELSE [requests[v] EXCEPT !.overtaken = late(v)]]
  BY DEF Commit
<1>3. entry \in Entry
  BY <1>1 DEF Entry
<1>4. services' \in [Ids -> Row] /\ services'[id] = row
      /\ \A other \in Ids \ {id} : services'[other] = services[other]
  BY <1>1, <1>2 DEF TypeOK
<1> HIDE DEF entry
<1>5. trail' \in [Ids -> Seq(Entry)] /\ trail'[id] = Append(trail[id], entry)
      /\ \A other \in Ids \ {id} : trail'[other] = trail[other]
  BY <1>1, <1>2, <1>3 DEF TypeOK
<1>6. [Idle EXCEPT !.pc = "respond"] \in Request /\ [Idle EXCEPT !.pc = "respond"].pc = "respond"
  BY InitialTypes DEF Request
<1>7. \A v \in Workers : late(v) \in BOOLEAN
  BY DEF TypeOK, Request
<1>8. ASSUME NEW v \in Workers \ {w}
      PROVE  /\ requests'[v] = [requests[v] EXCEPT !.overtaken = late(v)]
             /\ requests'[v].overtaken = late(v)
             /\ requests'[v] \in Request
  <2>1. requests[v] \in Request /\ requests'[v] = [requests[v] EXCEPT !.overtaken = late(v)]
    BY <1>2 DEF TypeOK
  <2> HIDE DEF late
  <2>2. [requests[v] EXCEPT !.overtaken = late(v)].overtaken = late(v)
        /\ [requests[v] EXCEPT !.overtaken = late(v)] \in Request
    BY <1>7, <2>1 DEF Request
  <2> QED BY <2>1, <2>2
<1>9. requests'[w].pc = "respond" /\ requests' \in [Workers -> Request]
  BY <1>2, <1>6, <1>8
<1>10. writes' \in Nat
  BY <1>2 DEF TypeOK
<1>11. TypeOK'
  BY <1>4, <1>5, <1>9, <1>10 DEF TypeOK
<1> QED BY <1>1, <1>4, <1>5, <1>8, <1>9, <1>11 DEF entry, OnlyOvertaken

\* The dependencies a commit leaves behind are known, absent rows stay empty,
\* and no service is ever removed.
LEMMA CommitKeepsTable ==
    ASSUME GraphInv, NEW w \in Workers, requests[w].user \in Users,
           NEW row \in Row, NEW before \in Row, NEW after \in Row,
           Commit(w, row, before, after), row.serviceState # "absent",
           row.dependencyEdges \subseteq Known \ {requests[w].id}
    PROVE  /\ TypeOK' /\ AbsentRowsAreEmpty' /\ GraphIsClosed'
           /\ Known' = Known \cup {requests[w].id}
<1> DEFINE id == requests[w].id
<1>1. /\ TypeOK' /\ id \in Ids /\ services'[id] = row
      /\ \A other \in Ids \ {id} : services'[other] = services[other]
  BY CommitFacts DEF GraphInv
<1>2. Known' = Known \cup {id}
  BY <1>1 DEF Known
<1>3. AbsentRowsAreEmpty'
  BY <1>1, <1>2 DEF GraphInv, AbsentRowsAreEmpty
<1>4. ASSUME NEW other \in Known'
      PROVE  services'[other].dependencyEdges \subseteq Known' \ {other}
  <2>1. CASE other = id
    BY <1>1, <1>2, <2>1
  <2>2. CASE other # id
    BY <1>1, <1>2, <1>4, <2>2 DEF GraphInv, GraphIsClosed, Known
  <2> QED BY <2>1, <2>2
<1> QED BY <1>1, <1>2, <1>3, <1>4 DEF GraphIsClosed

\* What another request has been checked for survives a commit: either the
\* commit leaves all dependencies as they were, and at most registers a service
\* nobody depends on, or it marks the request overtaken.
LEMMA CommitKeepsChecks ==
    ASSUME GraphInv, NEW w \in Workers, requests[w].user \in Users,
           NEW row \in Row, NEW before \in Row, NEW after \in Row,
           Commit(w, row, before, after), row.serviceState # "absent",
           row.dependencyEdges \subseteq Known \ {requests[w].id},
           NEW v \in Workers \ {w}
    PROVE  Checked(v)'
<1> DEFINE id == requests[w].id
           r == requests[v]
           s == requests'[v]
<1>1. /\ id \in Ids /\ services'[id] = row
      /\ \A other \in Ids \ {id} : services'[other] = services[other]
      /\ OnlyOvertaken(v, id)
  BY CommitFacts DEF GraphInv
<1>2. Known' = Known \cup {id}
  BY CommitKeepsTable
<1>3. Checked(v) /\ r \in Request
  BY DEF GraphInv, TypeOK, RequestsChecked
<1>4. /\ s.pc = r.pc /\ s.op = r.op /\ s.user = r.user /\ s.team = r.team
      /\ s.id = r.id /\ s.edges = r.edges
  BY <1>1, <1>3 DEF Request, OnlyOvertaken
<1> HIDE DEF s
<1>5. ASSUME s.pc = "commit", s.op = "update", ~s.overtaken
      PROVE  ~Cyclic(Intended(requests[v])')
  <2> DEFINE old == Intended(r)
             new == [other \in Known' |-> IF other = r.id THEN r.edges
                                          ELSE services'[other].dependencyEdges]
  <2>0. /\ r.pc = "commit" /\ r.op = "update" /\ ~r.overtaken
        /\ row.dependencyEdges = services[id].dependencyEdges
    BY <1>1, <1>4, <1>5 DEF OnlyOvertaken, s
  <2>1. ~Cyclic(old) /\ r.id \in Known /\ r.edges \subseteq Known
    BY <1>3, <2>0 DEF Checked
  <2>2. row.dependencyEdges = services[id].dependencyEdges
    BY <2>0
  <2>3. Intended(requests[v])' = new
    BY <1>4 DEF Intended, s
  <2>4. \A other \in Known : new[other] = old[other]
    BY <1>1, <1>2, <2>2 DEF Intended, Known
  <2>5. DOMAIN old = Known /\ DOMAIN new = Known \cup {id}
    BY <1>2 DEF Intended
  <2>6. CASE id \in Known
    <3>1. new = old
      BY <1>2, <2>4, <2>6 DEF Intended
    <3> QED BY <2>1, <2>3, <3>1
  <2>7. CASE id \notin Known
    <3>1. new[id] = row.dependencyEdges
      BY <1>1, <1>2, <2>1, <2>7
    <3>2. \A other \in Known : id \notin old[other]
      BY <2>1, <2>7 DEF Intended, GraphInv, GraphIsClosed
    <3> HIDE DEF old, new
    <3>3. Cyclic(new) => Cyclic(old)
      BY <2>4, <2>5, <2>7, <3>1, <3>2, SourceIsOnNoCycle
    <3> QED BY <2>1, <2>3, <3>3
  <2> QED BY <2>6, <2>7
<1>6. /\ s.pc \in {"validate", "check", "commit"} =>
           /\ s.user \in Users
           /\ s.op # "deactivate" => s.team \in Teams /\ KeepsTeam(s.user, s.team)
           /\ s.op # "create" => s.id \in Known'
      /\ s.pc \in {"check", "commit"} /\ s.op # "deactivate" =>
           /\ s.edges \subseteq Known'
           /\ s.op = "update" => s.id \notin s.edges
  BY <1>2, <1>3, <1>4 DEF Checked
<1> QED BY <1>5, <1>6 DEF Checked, s

\* So a commit preserves the invariant.
LEMMA CommitStep ==
    ASSUME GraphInv, NEW w \in Workers, requests[w].user \in Users,
           NEW row \in Row, NEW before \in Row, NEW after \in Row,
           Commit(w, row, before, after), row.serviceState # "absent",
           row.dependencyEdges \subseteq Known \ {requests[w].id}
    PROVE  GraphInv'
<1>1. TypeOK' /\ AbsentRowsAreEmpty' /\ GraphIsClosed'
  BY CommitKeepsTable
<1>2. requests'[w].pc = "respond"
  BY CommitFacts DEF GraphInv
<1>3. Checked(w)'
  BY <1>2 DEF Checked
<1>4. \A v \in Workers \ {w} : Checked(v)'
  BY CommitKeepsChecks
<1> QED BY <1>1, <1>3, <1>4 DEF GraphInv, RequestsChecked

\* A registration that is not refused fills an absent row.
LEMMA CommitCreateStep ==
    ASSUME GraphInv, NEW w \in Workers, CommitCreate(w) PROVE GraphInv'
<1> DEFINE r == requests[w]
           row == Active(r.team, r.edges)
<1>1. Checked(w) /\ r \in Request /\ r.pc = "commit" /\ r.op = "create"
  BY DEF GraphInv, RequestsChecked, TypeOK, CommitCreate, Pending
<1>2. /\ r.user \in Users /\ r.team \in Teams /\ r.edges \in EdgeSets
      /\ r.edges \subseteq Known
  BY <1>1 DEF Checked, Request
<1>3. \/ Refuse(w, "codeExists")
      \/ r.id \notin Known /\ Commit(w, row, AbsentRow, row)
  BY DEF CommitCreate
<1>4. CASE Refuse(w, "codeExists")
  BY <1>4, RefuseStep DEF Answers
<1>5. CASE r.id \notin Known /\ Commit(w, row, AbsentRow, row)
  <2>1. row \in Row /\ row.serviceState # "absent" /\ row.dependencyEdges = r.edges
    BY <1>2 DEF Active, Row
  <2> QED
    BY <1>2, <1>5, <2>1, InitialTypes, CommitStep
<1> QED BY <1>3, <1>4, <1>5

\* The rows an update writes and records.
LEMMA UpdateRows ==
    ASSUME GraphInv, NEW w \in Workers, Pending(w, "update")
    PROVE  LET r == requests[w]
               row == Updated(services[r.id], r)
           IN  /\ r.user \in Users /\ r.row \in Row /\ r.id \in Known
               /\ KeepsTeam(r.user, r.team)
               /\ row \in Row /\ Updated(r.row, r) \in Row
               /\ row.serviceState = services[r.id].serviceState
               /\ row.serviceState # "absent"
               /\ row.ownerTeam = r.team
               /\ row.dependencyEdges = r.edges
               /\ r.edges \subseteq Known \ {r.id}
<1> DEFINE r == requests[w]
           row == Updated(services[r.id], r)
<1>1. Checked(w) /\ r \in Request /\ r.pc = "commit" /\ r.op = "update"
  BY DEF GraphInv, RequestsChecked, TypeOK, Pending
<1>2. /\ r.user \in Users /\ r.row \in Row /\ r.id \in Known /\ r.team \in Teams
      /\ KeepsTeam(r.user, r.team) /\ r.edges \subseteq Known \ {r.id}
      /\ r.edges \in EdgeSets /\ services[r.id] \in Row
      /\ services[r.id].serviceState # "absent"
  BY <1>1 DEF Checked, Request, GraphInv, TypeOK, Known
<1>3. row \in Row /\ Updated(r.row, r) \in Row
  BY <1>1, <1>2, RowTypes
<1>4. /\ row.serviceState = services[r.id].serviceState
      /\ row.ownerTeam = r.team /\ row.dependencyEdges = r.edges
  BY <1>2 DEF Updated, Row
<1> HIDE DEF r, row
<1>5. row.serviceState # "absent"
  BY <1>2, <1>4
<1> QED BY <1>2, <1>3, <1>4, <1>5 DEF r, row

\* An update writes dependencies that were looked up, on a service that is there.
LEMMA CommitUpdateStep ==
    ASSUME GraphInv, NEW w \in Workers, CommitUpdate(w) PROVE GraphInv'
<1> DEFINE r == requests[w]
           row == Updated(services[r.id], r)
<1>1. Pending(w, "update") /\ Commit(w, row, r.row, Updated(r.row, r))
  BY DEF CommitUpdate
<1>2. /\ r.user \in Users /\ r.row \in Row
      /\ row \in Row /\ Updated(r.row, r) \in Row
      /\ row.serviceState # "absent"
      /\ row.dependencyEdges \subseteq Known \ {r.id}
  BY <1>1, UpdateRows
<1> HIDE DEF row
<1> QED BY <1>1, <1>2, CommitStep

\* The rows a deactivation writes and records.
LEMMA DeactivateRows ==
    ASSUME GraphInv, NEW w \in Workers, Pending(w, "deactivate"),
           StillActive(requests[w].id)
    PROVE  LET r == requests[w]
               row == Deactivated(services[r.id])
           IN  /\ r.user \in Users /\ r.row \in Row /\ r.id \in Known
               /\ row \in Row /\ Deactivated(r.row) \in Row
               /\ row.serviceState = "inactive"
               /\ row.ownerTeam = services[r.id].ownerTeam
               /\ row.dependencyEdges = services[r.id].dependencyEdges
               /\ row.dependencyEdges \subseteq Known \ {r.id}
<1> DEFINE r == requests[w]
           row == Deactivated(services[r.id])
<1>1. Checked(w) /\ r \in Request /\ r.pc = "commit" /\ r.op = "deactivate"
  BY DEF GraphInv, RequestsChecked, TypeOK, Pending
<1>2. /\ r.user \in Users /\ r.row \in Row /\ r.id \in Known
      /\ services[r.id] \in Row
      /\ services[r.id].dependencyEdges \subseteq Known \ {r.id}
  BY <1>1 DEF Checked, Request, GraphInv, TypeOK, Known, GraphIsClosed
<1>3. row \in Row /\ Deactivated(r.row) \in Row
  BY <1>2 DEF Deactivated, Row
<1>4. /\ row.serviceState = "inactive" /\ row.ownerTeam = services[r.id].ownerTeam
      /\ row.dependencyEdges = services[r.id].dependencyEdges
  BY <1>2 DEF Deactivated, Row
<1> QED BY <1>2, <1>3, <1>4

\* A deactivation changes no dependency.
LEMMA CommitDeactivateStep ==
    ASSUME GraphInv, NEW w \in Workers, CommitDeactivate(w) PROVE GraphInv'
<1> DEFINE r == requests[w]
           row == Deactivated(services[r.id])
<1>1. Pending(w, "deactivate")
  BY DEF CommitDeactivate
<1>2. CASE Refuse(w, "changedConcurrently")
  BY <1>2, RefuseStep DEF Answers
<1>3. CASE StillActive(r.id) /\ Commit(w, row, r.row, Deactivated(r.row))
  <2>1. /\ r.user \in Users /\ r.row \in Row
        /\ row \in Row /\ Deactivated(r.row) \in Row
        /\ row.serviceState = "inactive"
        /\ row.dependencyEdges \subseteq Known \ {r.id}
    BY <1>1, <1>3, DeactivateRows
  <2> HIDE DEF row
  <2> QED BY <1>3, <2>1, CommitStep
<1> QED BY <1>2, <1>3 DEF CommitDeactivate

-----------------------------------------------------------------------------
(* The invariant.                                                          *)

\* Nothing is at stake when a transaction fails or a response is sent.
LEMMA OtherSteps ==
    ASSUME GraphInv, NEW w \in Workers, Abort(w) \/ Respond(w) \/ Finish(w)
    PROVE  GraphInv'
<1>1. CASE Abort(w) \/ Respond(w)
  BY <1>1, RefuseStep DEF Abort, Respond, Answers
<1>2. CASE Finish(w)
  BY <1>2, InitialTypes, BecomeStep DEF Finish
<1> QED BY <1>1, <1>2

\* A restart loses the requests in flight and with them what they were
\* checked for.
LEMMA RestartStep == GraphInv /\ Restart => GraphInv'
<1> SUFFICES ASSUME GraphInv, Restart PROVE GraphInv'
  OBVIOUS
<1>1. TypeOK' /\ \A w \in Workers : requests'[w].pc = "idle"
  BY InitialTypes DEF Restart, GraphInv, TypeOK
<1>2. RequestsChecked'
  BY <1>1 DEF RequestsChecked, Checked
<1>3. AbsentRowsAreEmpty' /\ GraphIsClosed'
  BY DEF Restart, GraphInv, AbsentRowsAreEmpty, GraphIsClosed, Known
<1> QED BY <1>1, <1>2, <1>3 DEF GraphInv

\* The seeded services are a closed graph and no request is pending.
LEMMA GraphInvInit == Init => GraphInv
<1> SUFFICES ASSUME Init PROVE GraphInv
  OBVIOUS
<1> DEFINE first(id) == Active(InitialTeam[id], InitialEdges[id])
<1>1. \A id \in Ids : services[id] = IF id \in DOMAIN InitialTeam THEN first(id)
                                                                  ELSE AbsentRow
  BY DEF Init
<1>2. ASSUME NEW id \in DOMAIN InitialTeam
      PROVE  /\ first(id) \in Row /\ first(id).serviceState = "active"
             /\ first(id).dependencyEdges = InitialEdges[id]
  BY <1>2, InitialAssumption DEF Active, Row
<1> HIDE DEF first
<1>3. TypeOK
  <2>1. services \in [Ids -> Row]
    BY <1>1, <1>2, InitialTypes DEF Init
  <2>2. trail \in [Ids -> Seq(Entry)]
    BY DEF Init
  <2>3. requests \in [Workers -> Request] /\ writes \in Nat
    BY InitialTypes DEF Init
  <2> QED BY <2>1, <2>2, <2>3 DEF TypeOK
<1>4. Known = DOMAIN InitialTeam
  <2>1. \A id \in DOMAIN InitialTeam : id \in Ids /\ services[id].serviceState = "active"
    BY <1>1, <1>2, InitialAssumption
  <2>2. \A id \in Ids \ DOMAIN InitialTeam : services[id].serviceState = "absent"
    BY <1>1 DEF AbsentRow
  <2> QED BY <2>1, <2>2 DEF Known
<1>5. AbsentRowsAreEmpty /\ GraphIsClosed
  BY <1>1, <1>2, <1>4, InitialAssumption DEF AbsentRowsAreEmpty, GraphIsClosed
<1>6. RequestsChecked
  BY InitialTypes DEF Init, RequestsChecked, Checked
<1> QED BY <1>3, <1>5, <1>6 DEF GraphInv

\* Every step preserves the invariant.
LEMMA GraphInvNext == GraphInv /\ [Next]_vars => GraphInv'
<1> SUFFICES ASSUME GraphInv, [Next]_vars PROVE GraphInv'
  OBVIOUS
<1>1. CASE UNCHANGED vars
  BY <1>1 DEF vars, GraphInv, TypeOK, AbsentRowsAreEmpty, GraphIsClosed, Known,
              RequestsChecked, Checked, Intended
<1>2. CASE Restart
  BY <1>2, RestartStep
<1>3. ASSUME NEW w \in Workers, Step(w) PROVE GraphInv'
  BY <1>3, StartCreateStep, LoadForUpdateStep, LoadForDeactivateStep,
     ValidateReferencesStep, CheckForCycleStep, CommitCreateStep,
     CommitUpdateStep, CommitDeactivateStep, OtherSteps DEF Step
<1> QED BY <1>1, <1>2, <1>3 DEF Next

\* The graph is closed and pending requests are checked or marked overtaken, in
\* every interleaving.
THEOREM GraphSafety == Spec => []GraphInv
BY GraphInvInit, GraphInvNext, PTL DEF Spec

\* Every variable keeps its type, in every interleaving of the handlers.
THEOREM GraphTypeCorrect == Spec => []TypeOK
<1>1. GraphInv => TypeOK
  BY DEF GraphInv
<1> QED BY <1>1, GraphSafety, PTL

\* A service depends on registered services only and never on itself.
THEOREM GraphIsClosedHolds == Spec => []GraphIsClosed
<1>1. GraphInv => GraphIsClosed
  BY DEF GraphInv
<1> QED BY <1>1, GraphSafety, PTL

-----------------------------------------------------------------------------
(* What a step does to the table.  Every property below follows from it.   *)

\* The request of w commits in this step.
Commits(w) == requests[w].pc = "commit" /\ requests'[w].pc = "respond"

\* The request of w writes a row to the table, as its operation says.
Writes(w, row) ==
    LET r == requests[w]
    IN  /\ r \in Request /\ r.pc = "commit"
        /\ r.op # "deactivate" =>
              /\ r.edges \subseteq Known \ {r.id}
              /\ KeepsTeam(r.user, r.team)
              /\ row.ownerTeam = r.team /\ row.dependencyEdges = r.edges
        /\ \/ /\ r.op = "create" /\ r.id \notin Known
              /\ row.serviceState = "active"
           \/ /\ r.op = "update" /\ r.id \in Known
              /\ row.serviceState = services[r.id].serviceState
              /\ r.overtaken \/ ~Cyclic(Intended(r))
           \/ /\ r.op = "deactivate" /\ r.id \in Known
              /\ services[r.id].serviceState = "active"
              /\ row.serviceState = "inactive"
              /\ row.dependencyEdges = services[r.id].dependencyEdges
        /\ services'[r.id] = row
        /\ \A id \in Ids \ {r.id} : services'[id] = services[id]
        /\ \A id \in Ids \ {r.id} : trail'[id] = trail[id]
        /\ \E entry \in Entry : /\ entry.action = r.op
                                /\ trail'[r.id] = Append(trail[r.id], entry)
        /\ Commits(w)
        /\ \A v \in Workers \ {w} : ~Commits(v)

TableStays ==
    services' = services /\ trail' = trail /\ \A w \in Workers : ~Commits(w)

\* A goroutine that goes on without committing.
LEMMA BecomeStays ==
    ASSUME GraphInv, NEW w \in Workers, NEW request,
           Become(w, request), request.pc # "respond"
    PROVE  TableStays
<1>1. requests' = [requests EXCEPT ![w] = request]
  BY DEF Become
<1>2. ASSUME NEW v \in Workers PROVE ~Commits(v)
  <2>1. requests'[v] = IF v = w THEN request ELSE requests[v]
    BY <1>1 DEF GraphInv, TypeOK
  <2> QED BY <2>1 DEF Commits
<1> QED BY <1>2 DEF TableStays, Become

\* A refusal leaves the table alone.
LEMMA RefuseStays ==
    ASSUME GraphInv, NEW w \in Workers, NEW answer \in Answers, Refuse(w, answer)
    PROVE  TableStays
BY OutcomeType, BecomeStays DEF Refuse

\* A commit writes one row and its record, for one request.
LEMMA CommitWrites ==
    ASSUME GraphInv, NEW w \in Workers, requests[w].user \in Users,
           NEW row \in Row, NEW before \in Row, NEW after \in Row,
           Commit(w, row, before, after), requests[w].pc = "commit"
    PROVE  LET r == requests[w]
           IN  /\ services'[r.id] = row
               /\ \A id \in Ids \ {r.id} : services'[id] = services[id]
               /\ \A id \in Ids \ {r.id} : trail'[id] = trail[id]
               /\ \E entry \in Entry : /\ entry.action = r.op
                                       /\ trail'[r.id] = Append(trail[r.id], entry)
               /\ Commits(w)
               /\ \A v \in Workers \ {w} : ~Commits(v)
<1> DEFINE r == requests[w]
           entry == [action |-> r.op, actor |-> r.user,
                     before |-> before, after |-> after]
<1>0. TypeOK
  BY DEF GraphInv
<1>1. /\ services'[r.id] = row
      /\ \A id \in Ids \ {r.id} : services'[id] = services[id]
      /\ \A id \in Ids \ {r.id} : trail'[id] = trail[id]
      /\ trail'[r.id] = Append(trail[r.id], entry)
      /\ requests'[w].pc = "respond"
      /\ \A v \in Workers \ {w} : OnlyOvertaken(v, r.id)
  BY <1>0, CommitFacts
<1>2. entry \in Entry /\ entry.action = r.op
  BY <1>0 DEF TypeOK, Request, Entry
<1>3. \E e \in Entry : e.action = r.op /\ trail'[r.id] = Append(trail[r.id], e)
  BY <1>1, <1>2
<1>4. ASSUME NEW v \in Workers \ {w} PROVE ~Commits(v)
  <2>0. OnlyOvertaken(v, r.id) /\ requests[v] \in Request
    BY <1>0, <1>1 DEF TypeOK
  <2>1. requests'[v].pc = requests[v].pc
    BY <2>0 DEF OnlyOvertaken, Request
  <2> QED BY <2>1 DEF Commits
<1> QED BY <1>1, <1>3, <1>4 DEF Commits

\* A registration is refused or adds a service nobody depends on.
LEMMA CreateWrites ==
    ASSUME GraphInv, NEW w \in Workers, CommitCreate(w)
    PROVE  TableStays \/ \E row \in Row : Writes(w, row)
<1> DEFINE r == requests[w]
           row == Active(r.team, r.edges)
<1>1. Checked(w) /\ r \in Request /\ r.pc = "commit" /\ r.op = "create"
  BY DEF GraphInv, RequestsChecked, TypeOK, CommitCreate, Pending
<1>2. CASE Refuse(w, "codeExists")
  BY <1>2, RefuseStays DEF Answers
<1>3. CASE r.id \notin Known /\ Commit(w, row, AbsentRow, row)
  <2>1. /\ r.user \in Users /\ r.team \in Teams /\ r.edges \in EdgeSets
        /\ r.edges \subseteq Known \ {r.id} /\ KeepsTeam(r.user, r.team)
    BY <1>1, <1>3 DEF Checked, Request
  <2>2. /\ row \in Row /\ row.serviceState = "active"
        /\ row.dependencyEdges = r.edges /\ row.ownerTeam = r.team
    BY <2>1 DEF Active, Row
  <2> HIDE DEF row
  <2>3. /\ services'[r.id] = row
        /\ \A id \in Ids \ {r.id} : services'[id] = services[id]
        /\ \A id \in Ids \ {r.id} : trail'[id] = trail[id]
        /\ \E entry \in Entry : /\ entry.action = r.op
                                /\ trail'[r.id] = Append(trail[r.id], entry)
        /\ Commits(w) /\ \A v \in Workers \ {w} : ~Commits(v)
    BY <1>1, <1>3, <2>1, <2>2, InitialTypes, CommitWrites
  <2>4. Writes(w, row)
    BY <1>1, <1>3, <2>1, <2>2, <2>3 DEF Writes
  <2> QED BY <2>2, <2>4
<1> QED BY <1>2, <1>3 DEF CommitCreate

\* An update writes what its request was checked for.
LEMMA UpdateWrites ==
    ASSUME GraphInv, NEW w \in Workers, CommitUpdate(w)
    PROVE  \E row \in Row : Writes(w, row)
<1> DEFINE r == requests[w]
           row == Updated(services[r.id], r)
<1>1. Checked(w) /\ r \in Request /\ r.pc = "commit" /\ r.op = "update"
  BY DEF GraphInv, RequestsChecked, TypeOK, CommitUpdate, Pending
<1>2. Pending(w, "update") /\ Commit(w, row, r.row, Updated(r.row, r))
  BY DEF CommitUpdate
<1>3. /\ r.user \in Users /\ r.row \in Row /\ r.id \in Known
      /\ KeepsTeam(r.user, r.team)
      /\ row \in Row /\ Updated(r.row, r) \in Row
      /\ row.serviceState = services[r.id].serviceState
      /\ row.ownerTeam = r.team /\ row.dependencyEdges = r.edges
      /\ r.edges \subseteq Known \ {r.id}
  BY <1>2, UpdateRows
<1>4. r.overtaken \/ ~Cyclic(Intended(r))
  BY <1>1 DEF Checked
<1> HIDE DEF row
<1>5. /\ services'[r.id] = row
      /\ \A id \in Ids \ {r.id} : services'[id] = services[id]
      /\ \A id \in Ids \ {r.id} : trail'[id] = trail[id]
      /\ \E entry \in Entry : /\ entry.action = r.op
                              /\ trail'[r.id] = Append(trail[r.id], entry)
      /\ Commits(w) /\ \A v \in Workers \ {w} : ~Commits(v)
  BY <1>1, <1>2, <1>3, CommitWrites
<1>6. Writes(w, row)
  BY <1>1, <1>3, <1>4, <1>5 DEF Writes
<1> QED BY <1>3, <1>6

\* A deactivation is refused or turns an active service inactive.
LEMMA DeactivateWrites ==
    ASSUME GraphInv, NEW w \in Workers, CommitDeactivate(w)
    PROVE  TableStays \/ \E row \in Row : Writes(w, row)
<1> DEFINE r == requests[w]
           row == Deactivated(services[r.id])
<1>1. /\ Pending(w, "deactivate") /\ r \in Request
      /\ r.pc = "commit" /\ r.op = "deactivate"
  BY DEF CommitDeactivate, Pending, GraphInv, TypeOK
<1>2. CASE Refuse(w, "changedConcurrently")
  BY <1>2, RefuseStays DEF Answers
<1>3. CASE StillActive(r.id) /\ Commit(w, row, r.row, Deactivated(r.row))
  <2>1. /\ r.user \in Users /\ r.row \in Row /\ r.id \in Known
        /\ row \in Row /\ Deactivated(r.row) \in Row
        /\ row.serviceState = "inactive"
        /\ row.dependencyEdges = services[r.id].dependencyEdges
    BY <1>1, <1>3, DeactivateRows
  <2> HIDE DEF row
  <2>2. /\ services'[r.id] = row
        /\ \A id \in Ids \ {r.id} : services'[id] = services[id]
        /\ \A id \in Ids \ {r.id} : trail'[id] = trail[id]
        /\ \E entry \in Entry : /\ entry.action = r.op
                                /\ trail'[r.id] = Append(trail[r.id], entry)
        /\ Commits(w) /\ \A v \in Workers \ {w} : ~Commits(v)
    BY <1>1, <1>3, <2>1, CommitWrites
  <2>3. Writes(w, row)
    BY <1>1, <1>3, <2>1, <2>2 DEF Writes, StillActive
  <2> QED BY <2>1, <2>3
<1> QED BY <1>2, <1>3 DEF CommitDeactivate

\* The reads and checks of a handler leave the table alone.
LEMMA ReadStays ==
    ASSUME GraphInv, NEW w \in Workers,
           \/ StartCreate(w) \/ LoadForUpdate(w) \/ LoadForDeactivate(w)
           \/ ValidateReferences(w) \/ CheckForCycle(w)
           \/ Abort(w) \/ Respond(w) \/ Finish(w)
    PROVE  TableStays
<1>1. \/ \E answer \in Answers : Refuse(w, answer)
      \/ \E request : Become(w, request) /\ request.pc # "respond"
  <2>1. requests[w] \in Request
    BY DEF GraphInv, TypeOK
  <2>2. CASE StartCreate(w)
    <3>1. PICK user, id, team, edges :
             \/ Refuse(w, "forbidden")
             \/ Become(w, [Idle EXCEPT !.pc = "validate", !.user = user,
                              !.id = id, !.team = team, !.edges = edges])
      BY <2>2 DEF StartCreate
    <3>2. [Idle EXCEPT !.pc = "validate", !.user = user,
                       !.id = id, !.team = team, !.edges = edges].pc # "respond"
      BY DEF Idle
    <3> QED BY <3>1, <3>2 DEF Answers
  <2>3. CASE LoadForUpdate(w)
    <3>1. PICK user, id, team, edges :
             \/ \E answer \in {"notFound", "forbidden", "cannotTransfer"} : Refuse(w, answer)
             \/ Become(w, [Idle EXCEPT !.pc = "validate", !.op = "update",
                              !.user = user, !.id = id, !.team = team,
                              !.edges = edges, !.row = services[id]])
      BY <2>3 DEF LoadForUpdate
    <3>2. [Idle EXCEPT !.pc = "validate", !.op = "update",
                       !.user = user, !.id = id, !.team = team,
                       !.edges = edges, !.row = services[id]].pc # "respond"
      BY DEF Idle
    <3> QED BY <3>1, <3>2 DEF Answers
  <2>4. CASE LoadForDeactivate(w)
    <3>1. PICK user, id :
             \/ \E answer \in {"notFound", "forbidden", "alreadyInactive"} : Refuse(w, answer)
             \/ Become(w, [Idle EXCEPT !.pc = "commit", !.op = "deactivate",
                              !.user = user, !.id = id, !.row = services[id]])
      BY <2>4 DEF LoadForDeactivate
    <3>2. [Idle EXCEPT !.pc = "commit", !.op = "deactivate",
                       !.user = user, !.id = id, !.row = services[id]].pc # "respond"
      BY DEF Idle
    <3> QED BY <3>1, <3>2 DEF Answers
  <2>5. CASE ValidateReferences(w)
    BY <2>1, <2>5 DEF ValidateReferences, Request, Answers
  <2>6. CASE CheckForCycle(w)
    <3>1. PICK read :
             \/ Refuse(w, "cyclic")
             \/ Become(w, [requests[w] EXCEPT !.pc = "commit", !.overtaken = read # Known])
      BY <2>6 DEF CheckForCycle
    <3>2. [requests[w] EXCEPT !.pc = "commit", !.overtaken = read # Known].pc # "respond"
      BY <2>1 DEF Request
    <3> QED BY <3>1, <3>2 DEF Answers
  <2>7. CASE Abort(w) \/ Respond(w) \/ Finish(w)
    BY <2>7 DEF Abort, Respond, Finish, Idle, Answers
  <2> QED BY <2>2, <2>3, <2>4, <2>5, <2>6, <2>7
<1> QED BY <1>1, BecomeStays, RefuseStays

\* A step leaves the table alone or writes one row for one request.
LEMMA StepWrites ==
    ASSUME GraphInv, [Next]_vars
    PROVE  TableStays \/ \E w \in Workers, row \in Row : Writes(w, row)
<1>1. CASE UNCHANGED vars
  BY <1>1 DEF vars, TableStays, Commits
<1>2. CASE Restart
  BY <1>2, InitialTypes DEF Restart, TableStays, Commits
<1>3. ASSUME NEW w \in Workers, Step(w)
      PROVE  TableStays \/ \E row \in Row : Writes(w, row)
  BY <1>3, ReadStays, CreateWrites, UpdateWrites, DeactivateWrites DEF Step
<1> QED BY <1>1, <1>2, <1>3 DEF Next

-----------------------------------------------------------------------------
(* The properties.                                                         *)

\* After a service owner's registration or change the service belongs to the
\* owner's team.
THEOREM OwnersDoNotTransferHolds == Spec => OwnersDoNotTransfer
<1> DEFINE kept == \A w \in Workers :
               LET request == requests[w]
               IN  request.op # "deactivate" /\ CommitsForOwner(w) =>
                      services'[request.id].ownerTeam = TeamOf[request.user]
<1>1. ASSUME GraphInv, [Next]_vars PROVE kept
  <2>1. CASE TableStays
    BY <2>1 DEF TableStays, Commits, CommitsForOwner
  <2>2. ASSUME NEW w \in Workers, NEW row \in Row, Writes(w, row) PROVE kept
    BY <2>2 DEF Writes, Commits, CommitsForOwner, KeepsTeam
  <2> QED BY <1>1, <2>1, <2>2, StepWrites
<1> QED
  BY <1>1, GraphSafety, PTL DEF Spec, OwnersDoNotTransfer

\* Appending to a log adds one record to it.
LEMMA AppendFacts ==
    ASSUME NEW log \in Seq(Entry), NEW entry \in Entry
    PROVE  LET longer == Append(log, entry)
           IN  /\ DOMAIN longer = DOMAIN log \cup {Len(log) + 1}
               /\ Len(log) + 1 \notin DOMAIN log
               /\ longer[Len(log) + 1] = entry
               /\ \A i \in DOMAIN log : longer[i] = log[i]
OBVIOUS

\* A deactivated service stays inactive, with one deactivation on record.
LEMMA DeactivatedOnceStep ==
    ASSUME GraphInv, DeactivatedOnce, [Next]_vars PROVE DeactivatedOnce'
<1> DEFINE deactivations(log) == {i \in DOMAIN log : log[i].action = "deactivate"}
           once(row, log) == /\ row.serviceState = "inactive" <=> deactivations(log) # {}
                             /\ \A i, j \in deactivations(log) : i = j
<1>1. CASE TableStays
  BY <1>1 DEF TableStays, DeactivatedOnce
<1>2. ASSUME NEW w \in Workers, NEW row \in Row, Writes(w, row), NEW id \in Ids
      PROVE  once(services'[id], trail'[id])
  <2>1. once(services[id], trail[id])
    BY DEF DeactivatedOnce
  <2>2. CASE id # requests[w].id
    BY <1>2, <2>1, <2>2 DEF Writes
  <2>3. CASE id = requests[w].id
    <3>1. PICK entry \in Entry : /\ entry.action = requests[w].op
                                 /\ trail'[id] = Append(trail[id], entry)
      BY <1>2, <2>3 DEF Writes
    <3>2. services'[id] = row /\ trail[id] \in Seq(Entry)
      BY <1>2, <2>3 DEF Writes, GraphInv, TypeOK
    <3> DEFINE n == Len(trail[id]) + 1
    <3>3. /\ DOMAIN trail'[id] = DOMAIN trail[id] \cup {n} /\ n \notin DOMAIN trail[id]
          /\ trail'[id][n].action = requests[w].op
          /\ \A i \in DOMAIN trail[id] : trail'[id][i] = trail[id][i]
      BY <3>1, <3>2, AppendFacts
    <3> HIDE DEF n
    <3>4. CASE requests[w].op = "deactivate"
      <4>1. services[id].serviceState = "active" /\ row.serviceState = "inactive"
        BY <1>2, <2>3, <3>4 DEF Writes
      <4>2. deactivations(trail[id]) = {}
        BY <2>1, <4>1
      <4>3. deactivations(trail'[id]) = {n}
        BY <3>3, <3>4, <4>2
      <4> QED BY <3>2, <4>1, <4>3
    <3>5. CASE requests[w].op # "deactivate"
      <4>1. row.serviceState = "inactive" <=> services[id].serviceState = "inactive"
        BY <1>2, <2>3, <3>5 DEF Writes, Known
      <4>2. deactivations(trail'[id]) = deactivations(trail[id])
        BY <3>3, <3>5
      <4> QED BY <2>1, <3>2, <4>1, <4>2
    <3> QED BY <3>4, <3>5
  <2> QED BY <2>2, <2>3
<1>3. ASSUME NEW w \in Workers, NEW row \in Row, Writes(w, row)
      PROVE  DeactivatedOnce'
  BY <1>2, <1>3 DEF DeactivatedOnce
<1> QED BY <1>1, <1>3, StepWrites

\* An inactive service was deactivated exactly once, whatever raced with it.
THEOREM DeactivatedOnceHolds == Spec => []DeactivatedOnce
<1>1. Init => DeactivatedOnce
  BY InitialAssumption DEF Init, DeactivatedOnce, Active, AbsentRow
<1>2. GraphInv /\ DeactivatedOnce /\ [Next]_vars => DeactivatedOnce'
  BY DeactivatedOnceStep
<1> QED
  BY <1>1, <1>2, GraphSafety, PTL DEF Spec

\* Only an update whose check saw another graph than the stored one can close
\* a cycle.
LEMMA CycleStep ==
    ASSUME GraphInv, [Next]_vars, ~Cyclic(Stored), Cyclic(Stored)'
    PROVE  \E w \in Workers : /\ Pending(w, "update")
                              /\ requests[w].overtaken
                              /\ requests'[w].pc = "respond"
<1> DEFINE new == [id \in Known' |-> services'[id].dependencyEdges]
<1>1. Cyclic(new)
  BY DEF Stored
<1>2. CASE TableStays
  <2>1. new = Stored
    BY <1>2 DEF TableStays, Stored, Known
  <2> QED BY <1>1, <2>1
<1>3. ASSUME NEW w \in Workers, NEW row \in Row, Writes(w, row)
      PROVE  /\ Pending(w, "update") /\ requests[w].overtaken
             /\ requests'[w].pc = "respond"
  <2> DEFINE r == requests[w]
  <2>1. /\ services'[r.id] = row /\ r.id \in Ids
        /\ \A id \in Ids \ {r.id} : services'[id] = services[id]
        /\ row.serviceState # "absent"
    BY <1>3 DEF Writes, Request, Known
  <2>2. Known' = Known \cup {r.id}
    BY <2>1 DEF Known
  <2>3. \A id \in Known \ {r.id} : new[id] = services[id].dependencyEdges
    BY <2>1, <2>2 DEF Known
  <2>4. new[r.id] = row.dependencyEdges
    BY <2>1, <2>2
  <2>5. CASE r.op = "create"
    <3>1. /\ r.id \notin Known /\ r.id \notin row.dependencyEdges
      BY <1>3, <2>5 DEF Writes
    <3>2. \A id \in Known : Stored[id] = new[id] /\ r.id \notin Stored[id]
      BY <2>3, <3>1 DEF Stored, GraphInv, GraphIsClosed
    <3>3. DOMAIN Stored = Known /\ DOMAIN new = Known \cup {r.id}
      BY <2>2 DEF Stored
    <3> HIDE DEF new
    <3> QED BY <1>1, <2>4, <3>1, <3>2, <3>3, SourceIsOnNoCycle
  <2>6. CASE r.op = "deactivate"
    <3>1. r.id \in Known /\ row.dependencyEdges = services[r.id].dependencyEdges
      BY <1>3, <2>6 DEF Writes
    <3>2. new = Stored
      BY <2>2, <2>3, <2>4, <3>1 DEF Stored
    <3> QED BY <1>1, <3>2
  <2>7. CASE r.op = "update"
    <3>1. /\ r.id \in Known /\ row.dependencyEdges = r.edges
          /\ r.overtaken \/ ~Cyclic(Intended(r))
          /\ Pending(w, "update") /\ requests'[w].pc = "respond"
      BY <1>3, <2>7 DEF Writes, Pending, Commits
    <3>2. new = Intended(r)
      BY <2>2, <2>3, <2>4, <3>1 DEF Intended
    <3> QED BY <1>1, <3>1, <3>2
  <2> QED BY <1>3, <2>5, <2>6, <2>7 DEF Writes
<1> QED BY <1>2, <1>3, StepWrites

\* The stored graph becomes cyclic only through an update that was overtaken,
\* for any number of services and concurrent handlers.
THEOREM CyclesNeedAnOvertakenCheckHolds == Spec => CyclesNeedAnOvertakenCheck
<1> DEFINE closes == ~Cyclic(Stored) /\ Cyclic(Stored)' =>
               \E w \in Workers : /\ Pending(w, "update")
                                  /\ requests[w].overtaken
                                  /\ requests'[w].pc = "respond"
<1>1. ASSUME GraphInv, [Next]_vars PROVE closes
  BY <1>1, CycleStep
<1> QED
  BY <1>1, GraphSafety, PTL DEF Spec, CyclesNeedAnOvertakenCheck

=============================================================================
