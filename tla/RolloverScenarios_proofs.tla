----------------------- MODULE RolloverScenarios_proofs -----------------------
(***************************************************************************)
(* Proofs about RolloverScenarios: types, the separation of the reviewer,  *)
(* evidence before approval, the frozen result, that the concurrent        *)
(* handlers implement ScenarioLifecycle, and what the audit log accounts   *)
(* for.                                                                    *)
(***************************************************************************)
EXTENDS RolloverScenarios, TLAPS

-----------------------------------------------------------------------------
(* Type correctness.                                                       *)

\* An idle goroutine holds a well-typed request.
LEMMA IdleType == Idle \in Request
  BY SeedAssumption
     DEF Idle, Request, Operations, RequestableStates, ScenarioStateValues,
         Answers, AbsentRow, Row

\* The row of a code that is not used is a row.
LEMMA AbsentRowType == AbsentRow \in Row
  BY DEF AbsentRow, Row

\* The outcome of a request is well typed.
LEMMA OutcomeType ==
  ASSUME NEW answer \in Answers
  PROVE  Outcome(answer) \in Request /\ Outcome(answer).pc = "answered"
  BY IdleType, AbsentRowType
     DEF Outcome, Answered, Request, RequestableStates, ScenarioStateValues

\* So is an answer that shows a row.
LEMMA AnsweredType ==
  ASSUME NEW request \in Request, NEW answer \in Answers
  PROVE  /\ Answered(request, answer) \in Request
         /\ Answered(request, answer).pc = "answered"
  BY AbsentRowType
     DEF Answered, Request, RequestableStates, ScenarioStateValues

\* A draft is a row.
LEMMA DraftType ==
  ASSUME NEW user \in Users, NEW input \in Inputs, build \in Builds
  PROVE  Draft(user, input) \in Row
  BY DEF Draft, AbsentRow, Row, ScenarioStateValues

\* A simulated scenario is a row.
LEMMA CompleteType ==
  ASSUME NEW row \in Row, NEW key \in Keys, build \in Builds
  PROVE  Complete(row, key) \in Row
  BY DEF Complete, Row, ScenarioStateValues

\* A scenario that has moved is a row.
LEMMA MovedType ==
  ASSUME NEW row \in Row, NEW to \in RequestableStates, NEW user \in Users
  PROVE  Moved(row, to, user) \in Row
<1>1. to \in ScenarioStateValues
  BY DEF RequestableStates
<1>2. (IF to = "verified" THEN user ELSE row.verifiedBy) \in Users \cup {NoUser}
  BY DEF Row
<1> QED
  BY <1>1, <1>2 DEF Moved, Row

\* The table and the audit log after a commit of well-typed rows.
LEMMA CommitType ==
  ASSUME TypeOK, NEW w \in Workers, NEW id \in Ids,
         NEW row \in Row, NEW before \in Row, NEW after \in Row,
         requests[w].user \in Users,
         Commit(w, id, row, before, after)
  PROVE  /\ scenarios' \in [Ids -> Row]
         /\ trail' \in [Ids -> Seq(Entry)]
         /\ build' \in Builds
         /\ writes' \in Nat
<1> DEFINE entry == [action |-> requests[w].op, actor |-> requests[w].user,
                     before |-> before, after |-> after]
<1>1. entry \in Entry
  BY DEF TypeOK, Request, Entry
<1>2. Append(trail[id], entry) \in Seq(Entry)
  BY <1>1 DEF TypeOK
<1>3. trail' = [trail EXCEPT ![id] = Append(trail[id], entry)]
  BY DEF Commit
<1> HIDE DEF entry
<1>4. trail' \in [Ids -> Seq(Entry)]
  BY <1>2, <1>3 DEF TypeOK
<1> QED
  BY <1>4 DEF Commit, TypeOK

\* A step that only replaces the request of w.
LEMMA RequestType ==
  ASSUME TypeOK, NEW w \in Workers, NEW request \in Request,
         requests' = [requests EXCEPT ![w] = request],
         UNCHANGED <<scenarios, trail, build, writes>>
  PROVE  TypeOK'
  BY DEF TypeOK

\* A failing transaction leaves everything well typed.
LEMMA FailsType ==
  ASSUME TypeOK, NEW w \in Workers, NEW answer \in Answers, Fails(w, answer)
  PROVE  TypeOK'
<1>1. Answered(requests[w], answer) \in Request
  BY AnsweredType DEF TypeOK
<1> QED
  BY <1>1, RequestType DEF Fails, Answer

\* A committed handler goes on to read the row for its response.
LEMMA RespondingType ==
  ASSUME NEW request \in Request, NEW id \in Ids
  PROVE  /\ [request EXCEPT !.pc = "respond"] \in Request
         /\ [request EXCEPT !.pc = "respond", !.id = id] \in Request
         /\ [request EXCEPT !.pc = "commit"] \in Request
  BY DEF Request

\* What is known of a request that may commit: it is made by a user entitled
\* to it, on a row that existed and whose creator has not changed since.
Entitled(w) ==
    LET request == requests[w]
        user == request.user
        current == scenarios[request.id]
    IN  /\ user \in Users
        /\ request.op = "create" =>
              /\ request.input \in Inputs
              /\ HasPermission(RoleOf[user], "scenario.write")
        /\ request.op # "create" =>
              /\ request.row.scenarioState # "absent"
              /\ current.scenarioState # "absent"
              /\ request.row.createdBy = current.createdBy
        /\ request.op = "simulate" =>
              /\ request.key \in Keys
              /\ Owns(user, request.row)
              /\ HasPermission(RoleOf[user], "scenario.run")
        /\ request.op = "transition" =>
              /\ CanTransitionScenario(request.row.scenarioState, request.to)
              /\ IF request.to = "verified"
                 THEN /\ HasPermission(RoleOf[user], "scenario.verify")
                      /\ ReviewerSeparated(user, request.row)
                 ELSE /\ HasPermission(RoleOf[user], "scenario.write")
                      /\ Owns(user, request.row)
        /\ request.op = "replay" =>
              /\ Owns(user, request.row)
              /\ HasPermission(RoleOf[user], "scenario.run")

RequestsEntitled ==
    \A w \in Workers :
        /\ requests[w].pc \in {"findKey", "commit"} => Entitled(w)
        /\ requests[w].pc = "findKey" => requests[w].op = "simulate"


-----------------------------------------------------------------------------
(* The inductive invariant: types and what is known of pending requests.   *)

PInv == TypeOK /\ RequestsEntitled

\* No step makes a scenario disappear or changes its creator.
Persist ==
    \A id \in Ids :
        scenarios[id].scenarioState # "absent" =>
            /\ scenarios'[id].scenarioState # "absent"
            /\ scenarios'[id].createdBy = scenarios[id].createdBy

\* Entitlement survives the steps of others, because it only mentions columns
\* that persist; the goroutine that moves must establish its own.
LEMMA EntitledKept ==
  ASSUME PInv, Persist, NEW w \in Workers, NEW request \in Request,
         requests' = [requests EXCEPT ![w] = request],
         request.pc \in {"findKey", "commit"} => Entitled(w)',
         request.pc = "findKey" => request.op = "simulate"
  PROVE  RequestsEntitled'
<1> SUFFICES ASSUME NEW v \in Workers
             PROVE  /\ requests'[v].pc \in {"findKey", "commit"} => Entitled(v)'
                    /\ requests'[v].pc = "findKey" =>
                          requests'[v].op = "simulate"
  BY DEF RequestsEntitled
<1>1. CASE v = w
  BY <1>1 DEF PInv, TypeOK
<1>2. CASE v # w
  <2>1. requests'[v] = requests[v]
    BY <1>2 DEF PInv, TypeOK
  <2>2. requests[v].pc \in {"findKey", "commit"} => Entitled(v)
    BY DEF PInv, RequestsEntitled
  <2>3. requests[v].id \in Ids
    BY DEF PInv, TypeOK, Request
  <2>4. Entitled(v) => Entitled(v)'
    BY <2>1, <2>3 DEF Persist, Entitled, Owns, ReviewerSeparated
  <2> QED
    BY <2>1, <2>2, <2>4 DEF PInv, RequestsEntitled
<1> QED
  BY <1>1, <1>2

\* A handler that starts, or ends, without touching the tables.
LEMMA RequestOnly ==
  ASSUME PInv, NEW w \in Workers, NEW request \in Request,
         requests' = [requests EXCEPT ![w] = request],
         UNCHANGED <<scenarios, trail, build, writes>>,
         request.pc \in {"findKey", "commit"} => Entitled(w)',
         request.pc = "findKey" => request.op = "simulate"
  PROVE  PInv' /\ Persist
<1>1. TypeOK'
  BY RequestType DEF PInv
<1>2. Persist
  BY DEF Persist
<1> QED
  BY <1>1, <1>2, EntitledKept DEF PInv

\* A handler that ends with an answer preserves the invariant.
LEMMA OutcomeStep ==
  ASSUME PInv, NEW w \in Workers, NEW answer \in Answers,
         Start(w, Outcome(answer))
  PROVE  PInv' /\ Persist
<1>1. Outcome(answer) \in Request /\ Outcome(answer).pc = "answered"
  BY OutcomeType
<1> QED
  BY <1>1, RequestOnly DEF Start

\* So does a transaction that fails.
LEMMA FailsStep ==
  ASSUME PInv, NEW w \in Workers, NEW answer \in Answers, Fails(w, answer)
  PROVE  PInv' /\ Persist
<1>1. /\ Answered(requests[w], answer) \in Request
      /\ Answered(requests[w], answer).pc = "answered"
  BY AnsweredType DEF PInv, TypeOK
<1> QED
  BY <1>1, RequestOnly DEF Fails, Answer

\* A creation is entitled by the permission its route asks for.
LEMMA StartCreateStep ==
  ASSUME PInv, NEW w \in Workers, StartCreate(w)
  PROVE  PInv' /\ Persist
<1>1. PICK user \in Users, input \in Inputs :
        /\ HasPermission(RoleOf[user], "scenario.write")
        /\ Start(w, [Idle EXCEPT !.pc = "commit", !.user = user,
                                 !.input = input])
  BY DEF StartCreate
<1> DEFINE request == [Idle EXCEPT !.pc = "commit", !.user = user,
                                   !.input = input]
<1>2. request \in Request
  BY IdleType DEF Request
<1>3. /\ request.op = "create" /\ request.user = user
      /\ request.input = input /\ request.pc = "commit"
  BY DEF Idle
<1>4. requests' = [requests EXCEPT ![w] = request]
  BY <1>1 DEF Start
<1> HIDE DEF request
<1>5. requests'[w] = request
  BY <1>4 DEF PInv, TypeOK
<1>6. Entitled(w)'
  BY <1>1, <1>3, <1>5 DEF Entitled
<1> QED
  BY <1>1, <1>2, <1>3, <1>4, <1>6, RequestOnly DEF Start

\* A simulation is entitled by the ownership of the row it has read.
LEMMA LoadForSimulateStep ==
  ASSUME PInv, NEW w \in Workers, LoadForSimulate(w)
  PROVE  PInv' /\ Persist
<1> PICK user \in Users, id \in Ids, key \in Keys :
        LET row == scenarios[id]
            request == [Idle EXCEPT !.op = "simulate", !.user = user,
                                    !.id = id, !.key = key, !.row = row,
                                    !.repeat = Simulated(id, key)]
        IN  /\ HasPermission(RoleOf[user], "scenario.run")
            /\ \/ /\ ~Exists(id)
                  /\ Start(w, Outcome("notFound"))
               \/ /\ Exists(id) /\ ~Owns(user, row)
                  /\ Start(w, Outcome("forbidden"))
               \/ /\ Exists(id) /\ Owns(user, row)
                  /\ Start(w, Proceed(request, "findKey"))
  BY DEF LoadForSimulate
<1> DEFINE loaded == [Idle EXCEPT !.op = "simulate", !.user = user,
                                  !.id = id, !.key = key,
                                  !.row = scenarios[id],
                                  !.repeat = Simulated(id, key)]
           request == Proceed(loaded, "findKey")
<1>1. CASE Start(w, Outcome("notFound")) \/ Start(w, Outcome("forbidden"))
  BY <1>1, OutcomeStep DEF Answers
<1>2. CASE Exists(id) /\ Owns(user, scenarios[id]) /\ Start(w, request)
  <2>1. Simulated(id, key) \in BOOLEAN
    BY DEF Simulated
  <2>2. request \in Request
    BY <2>1, IdleType DEF Request, Proceed, PInv, TypeOK, Operations
  <2>3. /\ request.op = "simulate" /\ request.user = user
        /\ request.id = id /\ request.key = key
        /\ request.row = scenarios[id] /\ request.pc = "findKey"
    BY DEF Idle, Proceed
  <2>4. /\ requests' = [requests EXCEPT ![w] = request]
        /\ UNCHANGED <<scenarios, trail, build, writes>>
    BY <1>2 DEF Start
  <2> HIDE DEF request
  <2>5. requests'[w] = request
    BY <2>4 DEF PInv, TypeOK
  <2>6. Entitled(w)'
    BY <1>2, <2>3, <2>4, <2>5 DEF Entitled, Exists, Owns
  <2> QED
    BY <2>2, <2>3, <2>4, <2>6, RequestOnly
<1> QED
  BY <1>1, <1>2

\* Looking up the key takes nothing from the entitlement of a simulation.
LEMMA FindByIdempotencyKeyStep ==
  ASSUME PInv, NEW w \in Workers, FindByIdempotencyKey(w)
  PROVE  PInv' /\ Persist
<1> DEFINE request == requests[w]
<1>1. request \in Request /\ request.pc = "findKey"
  BY DEF PInv, TypeOK, FindByIdempotencyKey
<1>2. ASSUME NEW answer \in Answers, Answer(w, answer)
      PROVE  PInv' /\ Persist
  <2>1. UNCHANGED <<scenarios, trail, build, writes>>
    BY DEF FindByIdempotencyKey
  <2> QED
    BY <1>2, <2>1, FailsStep DEF Fails
<1>3. CASE requests' = [requests EXCEPT ![w].pc = "commit"]
  <2> DEFINE next == [request EXCEPT !.pc = "commit"]
  <2>1. next \in Request /\ next.pc = "commit"
    BY <1>1 DEF Request
  <2>2. /\ requests' = [requests EXCEPT ![w] = next]
        /\ UNCHANGED <<scenarios, trail, build, writes>>
    BY <1>3 DEF FindByIdempotencyKey
  <2>3. Entitled(w) /\ requests'[w] = next
    BY <1>1, <2>2 DEF PInv, TypeOK, RequestsEntitled
  <2>4. Entitled(w)'
    BY <1>1, <2>2, <2>3 DEF Entitled, Request
  <2> HIDE DEF next
  <2> QED
    BY <2>1, <2>2, <2>4, RequestOnly
<1>4. CASE requests' = [requests EXCEPT ![w] =
              [Answered(request, "reused") EXCEPT
                  !.row = scenarios[request.id]]]
  <2> DEFINE next == [Answered(request, "reused") EXCEPT
                         !.row = scenarios[request.id]]
  <2>1. /\ Answered(request, "reused") \in Request
        /\ Answered(request, "reused").pc = "answered"
        /\ scenarios[request.id] \in Row
    BY <1>1, AnsweredType DEF Answers, PInv, TypeOK, Request
  <2>2. next \in Request
    BY <2>1 DEF Request
  <2>3. next.pc = "answered"
    BY <2>1 DEF Request
  <2> HIDE DEF next
  <2> QED
    BY <1>4, <2>2, <2>3, RequestOnly DEF FindByIdempotencyKey, next
<1> QED
  BY <1>2, <1>3, <1>4 DEF FindByIdempotencyKey, Answers


\* A transition is entitled as the state it asks for demands.
LEMMA LoadForTransitionStep ==
  ASSUME PInv, NEW w \in Workers, LoadForTransition(w)
  PROVE  PInv' /\ Persist
<1> PICK user \in Users, id \in Ids, to \in RequestableStates :
        LET row == scenarios[id]
            permitted == HasPermission(RoleOf[user],
                             IF to = "verified" THEN "scenario.verify"
                                                ELSE "scenario.write")
            request == [Idle EXCEPT !.op = "transition", !.user = user,
                                    !.id = id, !.to = to, !.row = row]
        IN  \/ \E answer \in Answers : Start(w, Outcome(answer))
            \/ /\ permitted /\ Exists(id)
               /\ to = "verified" \/ Owns(user, row)
               /\ CanTransitionScenario(row.scenarioState, to)
               /\ to # "verified" \/ ReviewerSeparated(user, row)
               /\ Start(w, Proceed(request, "commit"))
  <2>1. /\ "forbidden" \in Answers /\ "notFound" \in Answers
        /\ "illegalTransition" \in Answers /\ "reviewerConflict" \in Answers
    BY DEF Answers
  <2>2. \A b \in BOOLEAN :
           (IF b THEN "reviewerConflict" ELSE "forbidden") \in Answers
    BY <2>1
  <2> QED
    BY <2>1, <2>2, ZenonT(60) DEF LoadForTransition
<1> DEFINE loaded == [Idle EXCEPT !.op = "transition", !.user = user,
                                  !.id = id, !.to = to,
                                  !.row = scenarios[id]]
           request == Proceed(loaded, "commit")
<1>1. CASE \E answer \in Answers : Start(w, Outcome(answer))
  BY <1>1, OutcomeStep
<1>2. CASE ~ \E answer \in Answers : Start(w, Outcome(answer))
  <2>1. /\ HasPermission(RoleOf[user], IF to = "verified"
                                       THEN "scenario.verify"
                                       ELSE "scenario.write")
        /\ Exists(id)
        /\ to = "verified" \/ Owns(user, scenarios[id])
        /\ CanTransitionScenario(scenarios[id].scenarioState, to)
        /\ to # "verified" \/ ReviewerSeparated(user, scenarios[id])
        /\ Start(w, request)
    BY <1>2
  <2>2. request \in Request
    BY IdleType DEF Request, Proceed, PInv, TypeOK, Operations
  <2>3. /\ request.op = "transition" /\ request.user = user
        /\ request.id = id /\ request.to = to
        /\ request.row = scenarios[id] /\ request.pc = "commit"
    BY DEF Idle, Proceed
  <2> HIDE DEF request
  <2>4. /\ requests' = [requests EXCEPT ![w] = request]
        /\ UNCHANGED <<scenarios, trail, build, writes>>
    BY <2>1 DEF Start
  <2>5. requests'[w] = request
    BY <2>4 DEF PInv, TypeOK
  <2>6. Entitled(w)'
    BY <2>1, <2>3, <2>4, <2>5
       DEF Entitled, Exists, Owns, ReviewerSeparated
  <2> QED
    BY <2>2, <2>3, <2>4, <2>6, RequestOnly
<1> QED
  BY <1>1, <1>2

\* A replay is entitled by the ownership of the row it has read.
LEMMA LoadForReplayStep ==
  ASSUME PInv, NEW w \in Workers, LoadForReplay(w)
  PROVE  PInv' /\ Persist
<1> PICK user \in Users, id \in Ids :
        LET row == scenarios[id]
            request == [Idle EXCEPT !.op = "replay", !.user = user,
                                    !.id = id, !.row = row]
        IN  /\ HasPermission(RoleOf[user], "scenario.run")
            /\ \/ \E answer \in Answers : Start(w, Outcome(answer))
               \/ /\ Exists(id) /\ Owns(user, row)
                  /\ Start(w, Proceed(request, "commit"))
  <2>1. /\ "forbidden" \in Answers /\ "notFound" \in Answers
        /\ "nothingToReplay" \in Answers
    BY DEF Answers
  <2> QED
    BY <2>1 DEF LoadForReplay
<1> DEFINE loaded == [Idle EXCEPT !.op = "replay", !.user = user, !.id = id,
                                  !.row = scenarios[id]]
           request == Proceed(loaded, "commit")
<1>1. CASE \E answer \in Answers : Start(w, Outcome(answer))
  BY <1>1, OutcomeStep
<1>2. CASE /\ Exists(id) /\ Owns(user, scenarios[id])
           /\ Start(w, request)
  <2>1. request \in Request
    BY IdleType DEF Request, Proceed, PInv, TypeOK, Operations
  <2>2. /\ request.op = "replay" /\ request.user = user
        /\ request.id = id
        /\ request.row = scenarios[id] /\ request.pc = "commit"
    BY DEF Idle, Proceed
  <2> HIDE DEF request
  <2>3. /\ requests' = [requests EXCEPT ![w] = request]
        /\ UNCHANGED <<scenarios, trail, build, writes>>
    BY <1>2 DEF Start
  <2>4. requests'[w] = request
    BY <2>3 DEF PInv, TypeOK
  <2>5. Entitled(w)'
    BY <1>2, <2>2, <2>3, <2>4 DEF Entitled, Exists, Owns
  <2> QED
    BY <2>1, <2>2, <2>3, <2>5, RequestOnly
<1> QED
  BY <1>1, <1>2

\* A commit that keeps the scenario and its creator, or fills an absent row.
LEMMA CommitStep ==
  ASSUME PInv, NEW w \in Workers, requests[w].user \in Users, NEW id \in Ids,
         NEW row \in Row, NEW before \in Row, NEW after \in Row,
         Commit(w, id, row, before, after),
         Exists(id) => /\ row.scenarioState # "absent"
                       /\ row.createdBy = scenarios[id].createdBy,
         NEW request \in Request, request.pc \in {"respond", "answered"},
         requests' = [requests EXCEPT ![w] = request]
  PROVE  PInv' /\ Persist
<1>1. TypeOK'
  <2>1. requests' \in [Workers -> Request]
    BY DEF PInv, TypeOK
  <2> QED
    BY <2>1, CommitType DEF PInv, TypeOK
<1>2. Persist
  BY DEF Persist, Commit, Exists, PInv, TypeOK
<1> QED
  BY <1>1, <1>2, EntitledKept DEF PInv

\* A creation fills an absent row.
LEMMA CommitCreateStep ==
  ASSUME PInv, NEW w \in Workers, CommitCreate(w)
  PROVE  PInv' /\ Persist
<1> DEFINE row == Draft(requests[w].user, requests[w].input)
<1> PICK id \in Ids \ Existing :
        \/ Fails(w, "identicalExists")
        \/ /\ Commit(w, id, row, AbsentRow, row)
           /\ requests' = [requests EXCEPT ![w].pc = "respond", ![w].id = id]
  BY DEF CommitCreate
<1>1. CASE Fails(w, "identicalExists")
  BY <1>1, FailsStep DEF Answers
<1>2. CASE /\ Commit(w, id, row, AbsentRow, row)
           /\ requests' = [requests EXCEPT ![w].pc = "respond", ![w].id = id]
  <2> DEFINE next == [requests[w] EXCEPT !.pc = "respond", !.id = id]
  <2>1. Entitled(w) /\ requests[w].op = "create" /\ requests[w] \in Request
    BY DEF PInv, TypeOK, RequestsEntitled, CommitCreate, Pending
  <2>2. requests[w].user \in Users /\ requests[w].input \in Inputs
    BY <2>1 DEF Entitled
  <2>3. row \in Row
    BY <2>2, DraftType DEF PInv, TypeOK
  <2>4. next \in Request /\ next.pc = "respond"
    BY <2>1 DEF Request
  <2>5. requests' = [requests EXCEPT ![w] = next]
    BY <1>2
  <2>6. ~Exists(id)
    BY DEF Existing
  <2> HIDE DEF row, next
  <2> QED
    BY <1>2, <2>2, <2>3, <2>4, <2>5, <2>6, AbsentRowType, CommitStep
<1> QED
  BY <1>1, <1>2

\* A simulation keeps the creator of its scenario.
LEMMA CommitSimulateStep ==
  ASSUME PInv, NEW w \in Workers, CommitSimulate(w)
  PROVE  PInv' /\ Persist
<1> DEFINE request == requests[w]
           current == scenarios[request.id]
           row == Complete(current, request.key)
           after == Complete(request.row, request.key)
           next == [request EXCEPT !.pc = "respond"]
<1>1. CASE Fails(w, "changedConcurrently") \/ Fails(w, "keyViolation")
  BY <1>1, FailsStep DEF Answers
<1>2. CASE /\ Commit(w, request.id, row, request.row, after)
           /\ requests' = [requests EXCEPT ![w].pc = "respond"]
  <2>1. Entitled(w) /\ request.op = "simulate" /\ request \in Request
    BY DEF PInv, TypeOK, RequestsEntitled, CommitSimulate, Pending
  <2>2. /\ request.user \in Users /\ request.key \in Keys
        /\ request.id \in Ids /\ request.row \in Row /\ current \in Row
    BY <2>1 DEF Entitled, Request, PInv, TypeOK
  <2>3. row \in Row /\ after \in Row
    BY <2>2, CompleteType DEF PInv, TypeOK
  <2>4. row.scenarioState = "simulated" /\ row.createdBy = current.createdBy
    BY <2>2 DEF Complete, Row
  <2>5. next \in Request /\ next.pc = "respond"
    BY <2>1 DEF Request
  <2>6. requests' = [requests EXCEPT ![w] = next]
    BY <1>2
  <2> HIDE DEF row, after, next
  <2> QED
    BY <1>2, <2>2, <2>3, <2>4, <2>5, <2>6, CommitStep
<1> QED
  BY <1>1, <1>2 DEF CommitSimulate

\* A transition keeps the creator of its scenario.
LEMMA CommitTransitionStep ==
  ASSUME PInv, NEW w \in Workers, CommitTransition(w)
  PROVE  PInv' /\ Persist
<1> DEFINE request == requests[w]
           current == scenarios[request.id]
           row == Moved(current, request.to, request.user)
           after == Moved(request.row, request.to, request.user)
           next == [request EXCEPT !.pc = "respond"]
<1>1. CASE Fails(w, "changedConcurrently")
  BY <1>1, FailsStep DEF Answers
<1>2. CASE /\ Commit(w, request.id, row, request.row, after)
           /\ requests' = [requests EXCEPT ![w].pc = "respond"]
  <2>1. Entitled(w) /\ request \in Request
    BY DEF PInv, TypeOK, RequestsEntitled, CommitTransition, Pending
  <2>2. /\ request.user \in Users /\ request.to \in RequestableStates
        /\ request.id \in Ids /\ request.row \in Row /\ current \in Row
    BY <2>1 DEF Entitled, Request, PInv, TypeOK
  <2>3. row \in Row /\ after \in Row
    BY <2>2, MovedType
  <2>4. row.scenarioState # "absent" /\ row.createdBy = current.createdBy
    BY <2>2 DEF Moved, Row, RequestableStates, ScenarioStateValues
  <2>5. next \in Request /\ next.pc = "respond"
    BY <2>1 DEF Request
  <2>6. requests' = [requests EXCEPT ![w] = next]
    BY <1>2
  <2> HIDE DEF row, after, next
  <2> QED
    BY <1>2, <2>2, <2>3, <2>4, <2>5, <2>6, CommitStep
<1> QED
  BY <1>1, <1>2 DEF CommitTransition

\* A replay changes nothing that entitles anybody.
LEMMA CommitReplayStep ==
  ASSUME PInv, NEW w \in Workers, CommitReplay(w)
  PROVE  PInv' /\ Persist
<1> DEFINE request == requests[w]
           current == scenarios[request.id]
           passed == request.row.result = build
           row == Replayed(current, request.row, passed)
           after == [request.row EXCEPT !.replayVerified = passed]
           next == IF passed THEN Proceed(request, "respond")
                             ELSE Outcome("replayDiffers")
<1>1. Entitled(w) /\ request.op = "replay" /\ request \in Request
  BY DEF PInv, TypeOK, RequestsEntitled, CommitReplay, Pending
<1>2. /\ request.user \in Users /\ request.id \in Ids
      /\ request.row \in Row /\ current \in Row
  BY <1>1 DEF Entitled, Request, PInv, TypeOK
<1>3. passed \in BOOLEAN
  OBVIOUS
<1>4. row \in Row /\ after \in Row
  <2> HIDE DEF passed
  <2> QED
    BY <1>2, <1>3 DEF Replayed, Row
<1>5. current.scenarioState # "absent"
  BY <1>1 DEF Entitled
<1>6. /\ row.scenarioState = current.scenarioState
      /\ row.createdBy = current.createdBy
  BY <1>2 DEF Replayed, Row
<1>7. next \in Request /\ next.pc \in {"respond", "answered"}
  <2>1. Outcome("replayDiffers") \in Request
        /\ Outcome("replayDiffers").pc = "answered"
    BY OutcomeType DEF Answers
  <2>2. Proceed(request, "respond") \in Request
        /\ Proceed(request, "respond").pc = "respond"
    BY <1>1 DEF Proceed, Request
  <2> QED
    BY <2>1, <2>2
<1>8. /\ Commit(w, request.id, row, request.row, after)
      /\ requests' = [requests EXCEPT ![w] = next]
  BY DEF CommitReplay
<1> HIDE DEF row, after, next
<1> QED
  BY <1>2, <1>4, <1>5, <1>6, <1>7, <1>8, CommitStep

\* Failing, responding and finishing leave the tables alone.
LEMMA AnsweringStep ==
  ASSUME PInv, NEW w \in Workers, Abort(w) \/ Respond(w) \/ Finish(w)
  PROVE  PInv' /\ Persist
<1>1. CASE Fails(w, "internal")
  BY <1>1, FailsStep DEF Answers
<1>2. CASE /\ requests' = [requests EXCEPT ![w] = Outcome("ok")]
           /\ UNCHANGED <<scenarios, trail, build, writes>>
  <2>1. Outcome("ok") \in Request /\ Outcome("ok").pc = "answered"
    BY OutcomeType DEF Answers
  <2> QED
    BY <1>2, <2>1, RequestOnly
<1>3. CASE Finish(w)
  <2>1. Idle \in Request /\ Idle.pc = "idle"
    BY IdleType DEF Idle
  <2> QED
    BY <1>3, <2>1, RequestOnly DEF Finish
<1> QED
  BY <1>1, <1>2, <1>3 DEF Abort, Respond, Fails

\* A restart loses the requests and with them what entitled them.
LEMMA RestartStep ==
  ASSUME PInv, Restart
  PROVE  PInv' /\ Persist
<1>1. TypeOK'
  BY IdleType DEF PInv, TypeOK, Restart
<1>2. RequestsEntitled'
  BY DEF RequestsEntitled, Restart, Idle
<1>3. Persist
  BY DEF Persist, Restart
<1> QED
  BY <1>1, <1>2, <1>3 DEF PInv

\* Every step preserves the invariant.
LEMMA NextStep ==
  ASSUME PInv, Next
  PROVE  PInv' /\ Persist
BY StartCreateStep, CommitCreateStep, LoadForSimulateStep,
   FindByIdempotencyKeyStep, CommitSimulateStep, LoadForTransitionStep,
   CommitTransitionStep, LoadForReplayStep, CommitReplayStep, AnsweringStep,
   RestartStep
   DEF Next, Step

\* The seeded scenario is well typed and no request is pending.
LEMMA InitPInv == Init => PInv
<1> SUFFICES ASSUME Init PROVE PInv
  OBVIOUS
<1>1. SeedRow \in Row
  BY SeedAssumption DEF SeedRow, AbsentRow, Row, ScenarioStateValues
<1>2. TypeOK
  BY <1>1, AbsentRowType, IdleType, SeedAssumption DEF Init, TypeOK
<1>3. RequestsEntitled
  BY DEF Init, RequestsEntitled, Idle
<1> QED
  BY <1>2, <1>3 DEF PInv

\* Pending requests stay entitled whatever the others do, and every variable
\* keeps its type.
THEOREM Safety == Spec => []PInv
<1>1. PInv /\ UNCHANGED vars => PInv'
  BY DEF PInv, TypeOK, RequestsEntitled, Entitled, vars, Owns,
         ReviewerSeparated
<1> QED
  BY <1>1, InitPInv, NextStep, PTL DEF Spec

\* Every variable keeps its type, in every interleaving of the handlers.
THEOREM TypeCorrect == Spec => []TypeOK
<1>1. PInv => TypeOK
  BY DEF PInv
<1> QED
  BY <1>1, Safety, PTL


-----------------------------------------------------------------------------
(* What a step does to the table, seen from one scenario.  Every property  *)
(* below follows from it: the conditional updates let a handler act on the *)
(* state it read, and entitlement is about columns that do not change.     *)

Signed(id, user) ==
    \E entry \in Entry : /\ entry.actor = user
                         /\ trail'[id] = Append(trail[id], entry)

Created(id) ==
    \E user \in Users, input \in Inputs :
        /\ ~Exists(id)
        /\ HasPermission(RoleOf[user], "scenario.write")
        /\ scenarios' = [scenarios EXCEPT ![id] = Draft(user, input)]
        /\ Signed(id, user)

Completed(id) ==
    \E user \in Users, key \in Keys :
        /\ scenarios[id].scenarioState = "draft"
        /\ Owns(user, scenarios[id])
        /\ HasPermission(RoleOf[user], "scenario.run")
        /\ scenarios' = [scenarios EXCEPT ![id] = Complete(@, key)]
        /\ Signed(id, user)

Transitioned(id) ==
    \E user \in Users, to \in RequestableStates :
        /\ Exists(id)
        /\ CanTransitionScenario(scenarios[id].scenarioState, to)
        /\ IF to = "verified"
           THEN /\ HasPermission(RoleOf[user], "scenario.verify")
                /\ ReviewerSeparated(user, scenarios[id])
           ELSE /\ HasPermission(RoleOf[user], "scenario.write")
                /\ Owns(user, scenarios[id])
        /\ scenarios' = [scenarios EXCEPT ![id] = Moved(@, to, user)]
        /\ Signed(id, user)

Rechecked(id) ==
    \E user \in Users, passed \in BOOLEAN :
        /\ Exists(id)
        /\ Owns(user, scenarios[id])
        /\ HasPermission(RoleOf[user], "scenario.run")
        /\ scenarios' = [scenarios EXCEPT ![id] =
                            [@ EXCEPT !.replayVerified = passed]]
        /\ Signed(id, user)

RowStep(id) ==
    /\ Created(id) \/ Completed(id) \/ Transitioned(id) \/ Rechecked(id)
    /\ \A other \in Ids \ {id} : trail'[other] = trail[other]

\* A commit writes one row and one record, signed by the user who asked.
LEMMA CommitSigns ==
  ASSUME PInv, NEW w \in Workers, NEW id \in Ids, requests[w].user \in Users,
         NEW row \in Row, NEW before \in Row, NEW after \in Row,
         Commit(w, id, row, before, after)
  PROVE  /\ Signed(id, requests[w].user)
         /\ \A other \in Ids \ {id} : trail'[other] = trail[other]
         /\ scenarios' = [scenarios EXCEPT ![id] = row]
<1> DEFINE entry == [action |-> requests[w].op, actor |-> requests[w].user,
                     before |-> before, after |-> after]
<1>1. entry \in Entry /\ entry.actor = requests[w].user
  BY DEF PInv, TypeOK, Request, Entry
<1>2. trail' = [trail EXCEPT ![id] = Append(trail[id], entry)]
  BY DEF Commit
<1> HIDE DEF entry
<1>3. trail'[id] = Append(trail[id], entry)
  BY <1>2 DEF PInv, TypeOK
<1> QED
  BY <1>1, <1>2, <1>3 DEF Signed, Commit, PInv, TypeOK

\* A creation fails or creates one scenario.
LEMMA CreateIsRowStep ==
  ASSUME PInv, NEW w \in Workers, CommitCreate(w)
  PROVE  UNCHANGED <<scenarios, trail>> \/ \E id \in Ids : RowStep(id)
<1> DEFINE user == requests[w].user
           input == requests[w].input
           row == Draft(user, input)
<1> PICK id \in Ids \ Existing :
        Fails(w, "identicalExists") \/ Commit(w, id, row, AbsentRow, row)
  BY DEF CommitCreate
<1>1. Entitled(w) /\ requests[w].op = "create"
  BY DEF PInv, RequestsEntitled, CommitCreate, Pending
<1>2. /\ user \in Users /\ input \in Inputs /\ ~Exists(id)
      /\ HasPermission(RoleOf[user], "scenario.write")
  BY <1>1 DEF Entitled, Existing
<1>3. CASE Commit(w, id, row, AbsentRow, row)
  <2>1. row \in Row
    BY <1>2, DraftType DEF PInv, TypeOK
  <2>2. /\ Signed(id, user)
        /\ \A other \in Ids \ {id} : trail'[other] = trail[other]
        /\ scenarios' = [scenarios EXCEPT ![id] = row]
    BY <1>2, <1>3, <2>1, AbsentRowType, CommitSigns
  <2> QED
    BY <1>2, <2>2 DEF RowStep, Created
<1> QED
  BY <1>3 DEF Fails

\* A simulation fails or completes one draft.
LEMMA SimulateIsRowStep ==
  ASSUME PInv, NEW w \in Workers, CommitSimulate(w)
  PROVE  UNCHANGED <<scenarios, trail>> \/ \E id \in Ids : RowStep(id)
<1> DEFINE request == requests[w]
           id == request.id
           row == Complete(scenarios[id], request.key)
           after == Complete(request.row, request.key)
<1>1. Entitled(w) /\ request.op = "simulate" /\ request \in Request
  BY DEF PInv, TypeOK, RequestsEntitled, CommitSimulate, Pending
<1>2. /\ request.user \in Users /\ request.key \in Keys
      /\ id \in Ids /\ request.row \in Row /\ scenarios[id] \in Row
      /\ Owns(request.user, request.row)
      /\ request.row.createdBy = scenarios[id].createdBy
      /\ HasPermission(RoleOf[request.user], "scenario.run")
  BY <1>1 DEF Entitled, Request, PInv, TypeOK
<1>3. CASE /\ Matches(scenarios[id], "draft")
           /\ Commit(w, id, row, request.row, after)
  <2>1. row \in Row /\ after \in Row
    BY <1>2, CompleteType DEF PInv, TypeOK
  <2>2. /\ Signed(id, request.user)
        /\ \A other \in Ids \ {id} : trail'[other] = trail[other]
        /\ scenarios' = [scenarios EXCEPT ![id] = row]
    BY <1>2, <1>3, <2>1, CommitSigns
  <2>3. Owns(request.user, scenarios[id])
    BY <1>2 DEF Owns
  <2> QED
    BY <1>2, <1>3, <2>2, <2>3 DEF RowStep, Completed, Matches
<1> QED
  BY <1>3 DEF CommitSimulate, Fails

\* A transition fails or moves one scenario as its present state allows.
LEMMA TransitionIsRowStep ==
  ASSUME PInv, NEW w \in Workers, CommitTransition(w)
  PROVE  UNCHANGED <<scenarios, trail>> \/ \E id \in Ids : RowStep(id)
<1> DEFINE request == requests[w]
           id == request.id
           user == request.user
           to == request.to
           row == Moved(scenarios[id], to, user)
           after == Moved(request.row, to, user)
<1>1. Entitled(w) /\ request.op = "transition" /\ request \in Request
  BY DEF PInv, TypeOK, RequestsEntitled, CommitTransition, Pending
<1>2. /\ user \in Users /\ to \in RequestableStates
      /\ id \in Ids /\ request.row \in Row /\ scenarios[id] \in Row
      /\ request.row.createdBy = scenarios[id].createdBy
      /\ scenarios[id].scenarioState # "absent"
      /\ CanTransitionScenario(request.row.scenarioState, to)
      /\ IF to = "verified"
         THEN /\ HasPermission(RoleOf[user], "scenario.verify")
              /\ ReviewerSeparated(user, request.row)
         ELSE /\ HasPermission(RoleOf[user], "scenario.write")
              /\ Owns(user, request.row)
  BY <1>1 DEF Entitled, Request, PInv, TypeOK
<1>3. CASE /\ Matches(scenarios[id], request.row.scenarioState)
           /\ Commit(w, id, row, request.row, after)
  <2>1. row \in Row /\ after \in Row
    BY <1>2, MovedType
  <2>2. /\ Signed(id, user)
        /\ \A other \in Ids \ {id} : trail'[other] = trail[other]
        /\ scenarios' = [scenarios EXCEPT ![id] = row]
    BY <1>2, <1>3, <2>1, CommitSigns
  <2>3. scenarios[id].scenarioState = request.row.scenarioState
    BY <1>3 DEF Matches
  <2>4. Transitioned(id)
    BY <1>2, <2>2, <2>3 DEF Transitioned, Exists, Owns, ReviewerSeparated
  <2> QED
    BY <1>2, <2>2, <2>4 DEF RowStep
<1> QED
  BY <1>3 DEF CommitTransition, Fails

\* A replay fails or rechecks one scenario.
LEMMA ReplayIsRowStep ==
  ASSUME PInv, NEW w \in Workers, CommitReplay(w)
  PROVE  UNCHANGED <<scenarios, trail>> \/ \E id \in Ids : RowStep(id)
<1> DEFINE request == requests[w]
           id == request.id
           passed == request.row.result = build
           row == [scenarios[id] EXCEPT !.replayVerified = passed]
           after == [request.row EXCEPT !.replayVerified = passed]
<1>1. Entitled(w) /\ request.op = "replay" /\ request \in Request
  BY DEF PInv, TypeOK, RequestsEntitled, CommitReplay, Pending
<1>2. /\ request.user \in Users
      /\ id \in Ids /\ request.row \in Row /\ scenarios[id] \in Row
      /\ Owns(request.user, request.row)
      /\ request.row.createdBy = scenarios[id].createdBy
      /\ scenarios[id].scenarioState # "absent"
      /\ HasPermission(RoleOf[request.user], "scenario.run")
  BY <1>1 DEF Entitled, Request, PInv, TypeOK
<1>3. Commit(w, id, row, request.row, after)
  BY DEF CommitReplay, Replayed
<1>4. passed \in BOOLEAN
  OBVIOUS
<1> HIDE DEF passed
<1>5. row \in Row /\ after \in Row
  BY <1>2, <1>4 DEF Row
<1>6. /\ Signed(id, request.user)
      /\ \A other \in Ids \ {id} : trail'[other] = trail[other]
      /\ scenarios' = [scenarios EXCEPT ![id] = row]
  BY <1>2, <1>3, <1>5, CommitSigns
<1>7. Owns(request.user, scenarios[id]) /\ Exists(id)
  BY <1>2 DEF Owns, Exists
<1>8. Rechecked(id)
  BY <1>2, <1>4, <1>6, <1>7 DEF Rechecked
<1> QED
  BY <1>2, <1>6, <1>8 DEF RowStep

\* Every step leaves the table alone or changes one scenario, for a user entitled
\* to it now.
LEMMA StepIsRowStep ==
  ASSUME PInv, [Next]_vars
  PROVE  UNCHANGED <<scenarios, trail>> \/ \E id \in Ids : RowStep(id)
<1>1. ASSUME NEW w \in Workers, Step(w)
      PROVE  UNCHANGED <<scenarios, trail>> \/ \E id \in Ids : RowStep(id)
  <2>1. CASE \E request : Start(w, request)
    BY <2>1 DEF Start
  <2>2. CASE StartCreate(w) \/ LoadForSimulate(w) \/ LoadForReplay(w)
    BY <2>1, <2>2 DEF StartCreate, LoadForSimulate, LoadForReplay
  <2>3. CASE LoadForTransition(w)
    BY <2>1, <2>3, ZenonT(60) DEF LoadForTransition
  <2>4. CASE FindByIdempotencyKey(w) \/ Abort(w) \/ Respond(w) \/ Finish(w)
    BY <2>4 DEF FindByIdempotencyKey, Abort, Respond, Finish, Fails
  <2> QED
    BY <1>1, <2>2, <2>3, <2>4, CreateIsRowStep, SimulateIsRowStep,
       TransitionIsRowStep, ReplayIsRowStep DEF Step
<1>2. CASE Restart \/ UNCHANGED vars
  BY <1>2 DEF Restart, vars
<1> QED
  BY <1>1, <1>2 DEF Next


-----------------------------------------------------------------------------
(* The safety properties.                                                  *)

\* No change of a row breaks the separation of creator and reviewer.
LEMMA ReviewerSeparationStep ==
  ASSUME PInv, ReviewerSeparation, [Next]_vars
  PROVE  ReviewerSeparation'
<1> USE DEF ReviewerSeparation, PInv, TypeOK
<1>1. CASE UNCHANGED <<scenarios, trail>>
  BY <1>1
<1>2. ASSUME NEW id \in Ids, Created(id)
      PROVE  ReviewerSeparation'
  BY <1>2 DEF Created, Draft, AbsentRow, Exists
<1>3. ASSUME NEW id \in Ids, Completed(id)
      PROVE  ReviewerSeparation'
  BY <1>3 DEF Completed, Complete, Row
<1>4. ASSUME NEW id \in Ids, Transitioned(id)
      PROVE  ReviewerSeparation'
  <2> PICK user \in Users, to \in RequestableStates :
        /\ CanTransitionScenario(scenarios[id].scenarioState, to)
        /\ to = "verified" =>
              /\ HasPermission(RoleOf[user], "scenario.verify")
              /\ ReviewerSeparated(user, scenarios[id])
        /\ scenarios' = [scenarios EXCEPT ![id] =
                            Moved(scenarios[id], to, user)]
    BY <1>4 DEF Transitioned
  <2>1. scenarios[id] \in Row /\ user # NoUser
    BY NullAssumption
  <2>2. scenarios[id].scenarioState # "verified"
    BY <1>4 DEF Transitioned, CanTransitionScenario, allowed, Exists
  <2>3. scenarios[id].verifiedBy = NoUser
    BY <2>2
  <2>4. /\ scenarios'[id].scenarioState = to
        /\ scenarios'[id].createdBy = scenarios[id].createdBy
        /\ scenarios'[id].verifiedBy =
              IF to = "verified" THEN user ELSE scenarios[id].verifiedBy
    BY <2>1 DEF Moved, Row
  <2>5. \A other \in Ids \ {id} : scenarios'[other] = scenarios[other]
    OBVIOUS
  <2> QED
    BY <2>1, <2>3, <2>4, <2>5 DEF ReviewerSeparated
<1>5. ASSUME NEW id \in Ids, Rechecked(id)
      PROVE  ReviewerSeparation'
  BY <1>5 DEF Rechecked, Row
<1> QED
  BY <1>1, <1>2, <1>3, <1>4, <1>5, StepIsRowStep DEF RowStep

\* A verified scenario was verified by an entitled user other than its
\* creator, for any number of users, scenarios and concurrent requests.
THEOREM ReviewerSeparationHolds == Spec => []ReviewerSeparation
<1>1. Init => ReviewerSeparation
  BY SeedAssumption, NullAssumption
     DEF Init, ReviewerSeparation, SeedRow, AbsentRow
<1> QED
  BY <1>1, Safety, ReviewerSeparationStep, PTL DEF Spec

\* No change of a row takes the evidence from a scenario past draft.
LEMMA EvidenceStep ==
  ASSUME PInv, EvidenceBeforeApproval, [Next]_vars
  PROVE  EvidenceBeforeApproval'
<1> USE DEF EvidenceBeforeApproval, PInv, TypeOK
<1>1. CASE UNCHANGED <<scenarios, trail>>
  BY <1>1
<1>2. ASSUME NEW id \in Ids, Created(id)
      PROVE  EvidenceBeforeApproval'
  BY <1>2 DEF Created, Draft, AbsentRow
<1>3. ASSUME NEW id \in Ids, Completed(id)
      PROVE  EvidenceBeforeApproval'
  BY <1>3, NullAssumption DEF Completed, Complete, Row
<1>4. ASSUME NEW id \in Ids, Transitioned(id)
      PROVE  EvidenceBeforeApproval'
  <2> PICK user \in Users, to \in RequestableStates :
        /\ CanTransitionScenario(scenarios[id].scenarioState, to)
        /\ scenarios' = [scenarios EXCEPT ![id] =
                            Moved(scenarios[id], to, user)]
    BY <1>4 DEF Transitioned
  <2>1. scenarios[id] \in Row
    OBVIOUS
  <2>2. scenarios[id].scenarioState # "draft"
    BY DEF CanTransitionScenario, allowed, RequestableStates
  <2>3. /\ scenarios[id].result # NoBuild
        /\ scenarios[id].idempotencyKey # NoKey
    BY <1>4, <2>2 DEF Transitioned, Exists
  <2>4. /\ scenarios'[id].result = scenarios[id].result
        /\ scenarios'[id].idempotencyKey = scenarios[id].idempotencyKey
    BY <2>1 DEF Moved, Row
  <2>5. \A other \in Ids \ {id} : scenarios'[other] = scenarios[other]
    OBVIOUS
  <2> QED
    BY <2>3, <2>4, <2>5
<1>5. ASSUME NEW id \in Ids, Rechecked(id)
      PROVE  EvidenceBeforeApproval'
  BY <1>5 DEF Rechecked, Row
<1> QED
  BY <1>1, <1>2, <1>3, <1>4, <1>5, StepIsRowStep DEF RowStep

\* A scenario past draft holds a result and the key it ran under.
THEOREM EvidenceBeforeApprovalHolds == Spec => []EvidenceBeforeApproval
<1>1. Init => EvidenceBeforeApproval
  BY SeedAssumption, NullAssumption
     DEF Init, EvidenceBeforeApproval, SeedRow, AbsentRow
<1> QED
  BY <1>1, Safety, EvidenceStep, PTL DEF Spec

\* From ready on, a scenario keeps its creator, input, key and result.
THEOREM ApprovedResultIsFrozenHolds == Spec => ApprovedResultIsFrozen
<1> DEFINE Frozen ==
        \A id \in Ids :
          scenarios[id].scenarioState \in
                {"ready", "executing", "verified", "rollback"} =>
              /\ scenarios'[id].createdBy = scenarios[id].createdBy
              /\ scenarios'[id].input = scenarios[id].input
              /\ scenarios'[id].version = scenarios[id].version
              /\ scenarios'[id].idempotencyKey = scenarios[id].idempotencyKey
              /\ scenarios'[id].result = scenarios[id].result
<1>1. PInv /\ [Next]_vars => Frozen
  <2> SUFFICES ASSUME PInv, [Next]_vars PROVE Frozen
    OBVIOUS
  <2> USE DEF PInv, TypeOK
  <2>1. CASE UNCHANGED <<scenarios, trail>>
    BY <2>1
  <2>2. ASSUME NEW id \in Ids, Created(id) PROVE Frozen
    BY <2>2 DEF Created, Exists
  <2>3. ASSUME NEW id \in Ids, Completed(id) PROVE Frozen
    BY <2>3 DEF Completed
  <2>4. ASSUME NEW id \in Ids, Transitioned(id) PROVE Frozen
    BY <2>4 DEF Transitioned, Moved, Row
  <2>5. ASSUME NEW id \in Ids, Rechecked(id) PROVE Frozen
    BY <2>5 DEF Rechecked, Row
  <2> QED
    BY <2>1, <2>2, <2>3, <2>4, <2>5, StepIsRowStep DEF RowStep
<1> QED
  BY <1>1, Safety, PTL DEF Spec, ApprovedResultIsFrozen

-----------------------------------------------------------------------------
(* Refinement.                                                             *)

\* The last actor on record is the one who signed.
LEMMA SignedActor ==
  ASSUME PInv, NEW id \in Ids, NEW user \in Users, Signed(id, user),
         \A other \in Ids \ {id} : trail'[other] = trail[other]
  PROVE  [i \in Ids |-> LastActor(i)]' =
            [[i \in Ids |-> LastActor(i)] EXCEPT ![id] = user]
<1> PICK entry \in Entry : /\ entry.actor = user
                           /\ trail'[id] = Append(trail[id], entry)
  BY DEF Signed
<1>1. trail[id] \in Seq(Entry)
  BY DEF PInv, TypeOK
<1>2. /\ Append(trail[id], entry) # << >>
      /\ Append(trail[id], entry)[Len(Append(trail[id], entry))] = entry
  BY <1>1
<1>3. LastActor(id)' = user
  BY <1>2 DEF LastActor
<1>4. \A other \in Ids \ {id} : LastActor(other)' = LastActor(other)
  BY DEF LastActor
<1> QED
  BY <1>3, <1>4

\* The roles that may run a simulation may also write scenarios.
LEMMA RunnersWrite ==
  ASSUME NEW user \in Users, HasPermission(RoleOf[user], "scenario.run")
  PROVE  HasPermission(RoleOf[user], "scenario.write")
  BY RolesAssumption
     DEF HasPermission, permissions, Permissions, OperatorPermissions, Roles

\* Every change of a row is a move of the abstract lifecycle.
LEMMA RefinementStep ==
  ASSUME PInv, ReviewerSeparation, [Next]_vars
  PROVE  [Lifecycle!Next]_(Lifecycle!lifecycle)
<1> USE DEF PInv, TypeOK
<1> DEFINE stage == [i \in Ids |-> scenarios[i].scenarioState]
           author == [i \in Ids |-> scenarios[i].createdBy]
           approver == [i \in Ids |-> scenarios[i].verifiedBy]
           lastActor == [i \in Ids |-> LastActor(i)]
<1>1. CASE UNCHANGED <<scenarios, trail>>
  BY <1>1 DEF Lifecycle!lifecycle, LastActor
<1>2. ASSUME NEW id \in Ids, RowStep(id), Created(id)
      PROVE  Lifecycle!Next
  <2> PICK user \in Users, input \in Inputs :
        /\ ~Exists(id)
        /\ HasPermission(RoleOf[user], "scenario.write")
        /\ scenarios' = [scenarios EXCEPT ![id] = Draft(user, input)]
        /\ Signed(id, user)
    BY <1>2 DEF Created
  <2>1. lastActor' = [lastActor EXCEPT ![id] = user]
    BY <1>2, SignedActor DEF RowStep
  <2>2. /\ Draft(user, input).scenarioState = "draft"
        /\ Draft(user, input).createdBy = user
        /\ Draft(user, input).verifiedBy = NoUser
    BY DEF Draft, AbsentRow
  <2>3. scenarios[id].verifiedBy = NoUser
    BY DEF ReviewerSeparation, Exists
  <2>4. /\ stage' = [stage EXCEPT ![id] = "draft"]
        /\ author' = [author EXCEPT ![id] = user]
        /\ approver' = approver
    BY <2>2, <2>3
  <2>5. Lifecycle!Create(id, user)
    BY <2>1, <2>4
       DEF Lifecycle!Create, Lifecycle!MoveTo, Lifecycle!SignedBy, Exists,
           Lifecycle!HasPermission, HasPermission, Lifecycle!permissions,
           permissions, Lifecycle!Permissions, Permissions,
           Lifecycle!OperatorPermissions, OperatorPermissions
  <2> QED
    BY <2>5 DEF Lifecycle!Next
<1>3. ASSUME NEW id \in Ids, RowStep(id), Completed(id)
      PROVE  Lifecycle!Next
  <2> PICK user \in Users, key \in Keys :
        /\ scenarios[id].scenarioState = "draft"
        /\ Owns(user, scenarios[id])
        /\ HasPermission(RoleOf[user], "scenario.run")
        /\ scenarios' = [scenarios EXCEPT ![id] =
                            Complete(scenarios[id], key)]
        /\ Signed(id, user)
    BY <1>3 DEF Completed
  <2>1. lastActor' = [lastActor EXCEPT ![id] = user]
    BY <1>3, SignedActor DEF RowStep
  <2>2. LET row == Complete(scenarios[id], key)
        IN  /\ row.scenarioState = "simulated"
            /\ row.createdBy = scenarios[id].createdBy
            /\ row.verifiedBy = scenarios[id].verifiedBy
    BY DEF Complete, Row
  <2>3. /\ stage' = [stage EXCEPT ![id] = "simulated"]
        /\ author' = author
        /\ approver' = approver
    BY <2>2
  <2>4. HasPermission(RoleOf[user], "scenario.write")
    BY RunnersWrite
  <2>5. Lifecycle!Advance(id, user, "simulated")
    BY <2>1, <2>3, <2>4
       DEF Lifecycle!Advance, Lifecycle!Manages, Owns,
           Lifecycle!PKIAdministrators, PKIAdministrators,
           Lifecycle!CanTransitionScenario, CanTransitionScenario,
           Lifecycle!allowed, allowed,
           Lifecycle!MoveTo, Lifecycle!SignedBy, Exists,
           Lifecycle!HasPermission, HasPermission, Lifecycle!permissions,
           permissions, Lifecycle!Permissions, Permissions,
           Lifecycle!OperatorPermissions, OperatorPermissions
  <2> QED
    BY <2>5 DEF Lifecycle!Next, Lifecycle!ScenarioStateValues
<1>4. ASSUME NEW id \in Ids, RowStep(id), Transitioned(id)
      PROVE  Lifecycle!Next
  <2> PICK user \in Users, to \in RequestableStates :
        /\ Exists(id)
        /\ CanTransitionScenario(scenarios[id].scenarioState, to)
        /\ IF to = "verified"
           THEN /\ HasPermission(RoleOf[user], "scenario.verify")
                /\ ReviewerSeparated(user, scenarios[id])
           ELSE /\ HasPermission(RoleOf[user], "scenario.write")
                /\ Owns(user, scenarios[id])
        /\ scenarios' = [scenarios EXCEPT ![id] =
                            Moved(scenarios[id], to, user)]
        /\ Signed(id, user)
    BY <1>4 DEF Transitioned
  <2>1. lastActor' = [lastActor EXCEPT ![id] = user]
    BY <1>4, SignedActor DEF RowStep
  <2>2. LET row == Moved(scenarios[id], to, user)
        IN  /\ row.scenarioState = to
            /\ row.createdBy = scenarios[id].createdBy
            /\ row.verifiedBy = IF to = "verified"
                                THEN user ELSE scenarios[id].verifiedBy
    BY DEF Moved, Row
  <2>3. /\ stage' = [stage EXCEPT ![id] = to]
        /\ author' = author
    BY <2>2
  <2>4. CASE to # "verified"
    <3>1. approver' = approver
      BY <2>2, <2>4
    <3>2. Lifecycle!Advance(id, user, to)
      BY <2>1, <2>3, <2>4, <3>1
         DEF Lifecycle!Advance, Lifecycle!Manages, Owns,
           Lifecycle!PKIAdministrators, PKIAdministrators,
           Lifecycle!CanTransitionScenario, CanTransitionScenario,
           Lifecycle!allowed, allowed,
           Lifecycle!MoveTo, Lifecycle!SignedBy, Exists,
           Lifecycle!HasPermission, HasPermission, Lifecycle!permissions,
           permissions, Lifecycle!Permissions, Permissions,
           Lifecycle!OperatorPermissions, OperatorPermissions
    <3> QED
      BY <3>2 DEF Lifecycle!Next, RequestableStates, ScenarioStateValues,
                  Lifecycle!ScenarioStateValues
  <2>5. CASE to = "verified"
    <3>1. approver' = [approver EXCEPT ![id] = user]
      BY <2>2, <2>5
    <3>2. scenarios[id].scenarioState = "executing"
      <4> DEFINE state == scenarios[id].scenarioState
      <4>1. state \in ScenarioStateValues
        BY DEF Exists, Row
      <4>2. CanTransitionScenario(state, "verified")
        BY <2>5
      <4> HIDE DEF state, PInv, TypeOK
      <4>3. state = "executing"
        BY <4>1, <4>2 DEF CanTransitionScenario, allowed, ScenarioStateValues
      <4> QED BY <4>3 DEF state
    <3>3. Lifecycle!Verify(id, user)
      BY <2>1, <2>3, <2>5, <3>1, <3>2
         DEF Lifecycle!Verify, ReviewerSeparated,
           Lifecycle!MoveTo, Lifecycle!SignedBy, Exists,
           Lifecycle!HasPermission, HasPermission, Lifecycle!permissions,
           permissions, Lifecycle!Permissions, Permissions,
           Lifecycle!OperatorPermissions, OperatorPermissions
    <3> QED
      BY <3>3 DEF Lifecycle!Next
  <2> QED
    BY <2>4, <2>5
<1>5. ASSUME NEW id \in Ids, RowStep(id), Rechecked(id)
      PROVE  Lifecycle!Next
  <2> PICK user \in Users, passed \in BOOLEAN :
        /\ Exists(id)
        /\ Owns(user, scenarios[id])
        /\ HasPermission(RoleOf[user], "scenario.run")
        /\ scenarios' = [scenarios EXCEPT ![id] =
                            [scenarios[id] EXCEPT !.replayVerified = passed]]
        /\ Signed(id, user)
    BY <1>5 DEF Rechecked
  <2>1. lastActor' = [lastActor EXCEPT ![id] = user]
    BY <1>5, SignedActor DEF RowStep
  <2>2. /\ stage' = stage
        /\ author' = author
        /\ approver' = approver
    BY DEF Row
  <2>3. Lifecycle!Replay(id, user)
    BY <2>1, <2>2
       DEF Lifecycle!Replay, Lifecycle!Manages, Owns,
           Lifecycle!PKIAdministrators, PKIAdministrators,
           Lifecycle!MoveTo, Lifecycle!SignedBy, Exists,
           Lifecycle!HasPermission, HasPermission, Lifecycle!permissions,
           permissions, Lifecycle!Permissions, Permissions,
           Lifecycle!OperatorPermissions, OperatorPermissions
  <2> QED
    BY <2>3 DEF Lifecycle!Next
<1> QED
  BY <1>1, <1>2, <1>3, <1>4, <1>5, StepIsRowStep DEF RowStep

\* The concurrent handlers implement the lifecycle: every committed change is
\* one legal move, on record as made by a user entitled to it.
THEOREM RefinesLifecycle == Spec => ImplementsLifecycle
<1>1. Init => Lifecycle!Init
  BY SeedAssumption
     DEF Init, Lifecycle!Init, SeedRow, AbsentRow, LastActor
<1>2. PInv /\ ReviewerSeparation /\ [Next]_vars =>
          [Lifecycle!Next]_(Lifecycle!lifecycle)
  BY RefinementStep
<1> QED
  BY <1>1, <1>2, Safety, ReviewerSeparationHolds, PTL
     DEF Spec, ImplementsLifecycle, Lifecycle!Spec

-----------------------------------------------------------------------------
(* What a step writes into the audit log, next to what it writes into the  *)
(* table.                                                                  *)

\* A simulation that may commit has read a draft.
PendingRunsReadDrafts ==
    \A w \in Workers :
        requests[w].pc = "commit" /\ requests[w].op = "simulate" =>
            requests[w].row.scenarioState = "draft"

CreationRecorded(id, entry) ==
    /\ entry.action = "create" /\ ~Exists(id)
    /\ entry.before.scenarioState = "absent"
    /\ entry.after.scenarioState = "draft"
    /\ scenarios'[id].scenarioState = "draft"
    /\ scenarios'[id].idempotencyKey = NoKey

RunRecorded(id, entry) ==
    /\ entry.action = "simulate" /\ scenarios[id].scenarioState = "draft"
    /\ entry.before.scenarioState = "draft"
    /\ entry.after.scenarioState = "simulated"
    /\ scenarios'[id].scenarioState = "simulated"
    /\ entry.after.idempotencyKey = scenarios'[id].idempotencyKey
    /\ entry.after.result = scenarios'[id].result
    /\ scenarios'[id].result \in Builds
    /\ scenarios'[id].replayVerified = scenarios[id].replayVerified

MoveRecorded(id, entry) ==
    /\ entry.action = "transition"
    /\ entry.before.scenarioState = scenarios[id].scenarioState
    /\ entry.after.scenarioState = scenarios'[id].scenarioState
    /\ CanTransitionScenario(entry.before.scenarioState,
                             entry.after.scenarioState)
    /\ scenarios'[id].scenarioState # "absent"
    /\ scenarios'[id].idempotencyKey = scenarios[id].idempotencyKey
    /\ scenarios'[id].result = scenarios[id].result
    /\ scenarios'[id].replayVerified = scenarios[id].replayVerified

ReplayRecorded(id, entry) ==
    /\ entry.action = "replay" /\ Exists(id)
    /\ entry.after.replayVerified = scenarios'[id].replayVerified
    /\ scenarios'[id].scenarioState = scenarios[id].scenarioState
    /\ scenarios'[id].idempotencyKey = scenarios[id].idempotencyKey
    /\ scenarios'[id].result = scenarios[id].result

Recorded(id, entry) ==
    \/ CreationRecorded(id, entry) \/ RunRecorded(id, entry)
    \/ MoveRecorded(id, entry) \/ ReplayRecorded(id, entry)

\* One scenario changes and its log grows by a record that says how.
LogStep ==
    \E id \in Ids, entry \in Entry :
        /\ Recorded(id, entry)
        /\ trail' = [trail EXCEPT ![id] = Append(@, entry)]
        /\ \A other \in Ids \ {id} : scenarios'[other] = scenarios[other]

\* The record of a commit, and the row it leaves.
LEMMA CommitRecords ==
  ASSUME PInv, NEW w \in Workers, NEW id \in Ids, requests[w].user \in Users,
         NEW row \in Row, NEW before \in Row, NEW after \in Row,
         Commit(w, id, row, before, after)
  PROVE  \E entry \in Entry :
            /\ entry.action = requests[w].op
            /\ entry.before = before /\ entry.after = after
            /\ trail' = [trail EXCEPT ![id] = Append(@, entry)]
            /\ scenarios'[id] = row
            /\ \A other \in Ids \ {id} : scenarios'[other] = scenarios[other]
<1> DEFINE entry == [action |-> requests[w].op, actor |-> requests[w].user,
                     before |-> before, after |-> after]
<1>1. /\ entry \in Entry /\ entry.action = requests[w].op
      /\ entry.before = before /\ entry.after = after
  BY DEF PInv, TypeOK, Request, Entry
<1>2. /\ trail' = [trail EXCEPT ![id] = Append(@, entry)]
      /\ scenarios' = [scenarios EXCEPT ![id] = row]
  BY DEF Commit
<1> HIDE DEF entry
<1>3. /\ scenarios'[id] = row
      /\ \A other \in Ids \ {id} : scenarios'[other] = scenarios[other]
  BY <1>2 DEF PInv, TypeOK
<1> QED BY <1>1, <1>2, <1>3

\* A creation is on record as one.
LEMMA CreateRecords ==
  ASSUME PInv, NEW w \in Workers, CommitCreate(w)
  PROVE  UNCHANGED <<scenarios, trail>> \/ LogStep
<1> DEFINE row == Draft(requests[w].user, requests[w].input)
<1> PICK id \in Ids \ Existing :
        Fails(w, "identicalExists") \/ Commit(w, id, row, AbsentRow, row)
  BY DEF CommitCreate
<1>1. Entitled(w) /\ requests[w].op = "create"
  BY DEF PInv, RequestsEntitled, CommitCreate, Pending
<1>2. /\ requests[w].user \in Users /\ requests[w].input \in Inputs
      /\ ~Exists(id)
  BY <1>1 DEF Entitled, Existing
<1>3. CASE Commit(w, id, row, AbsentRow, row)
  <2>1. row \in Row
    BY <1>2, DraftType DEF PInv, TypeOK
  <2>2. /\ row.scenarioState = "draft" /\ row.idempotencyKey = NoKey
        /\ AbsentRow.scenarioState = "absent"
    BY DEF Draft, AbsentRow
  <2> HIDE DEF row
  <2>3. PICK entry \in Entry :
            /\ entry.action = "create"
            /\ entry.before = AbsentRow /\ entry.after = row
            /\ trail' = [trail EXCEPT ![id] = Append(@, entry)]
            /\ scenarios'[id] = row
            /\ \A other \in Ids \ {id} : scenarios'[other] = scenarios[other]
    BY <1>1, <1>2, <1>3, <2>1, AbsentRowType, CommitRecords
  <2>4. CreationRecorded(id, entry)
    BY <1>2, <2>2, <2>3 DEF CreationRecorded
  <2> QED BY <2>3, <2>4 DEF LogStep, Recorded
<1> QED BY <1>3 DEF Fails

\* A simulation is on record with the draft it started from and what it filled in.
LEMMA SimulateRecords ==
  ASSUME PInv, PendingRunsReadDrafts, NEW w \in Workers, CommitSimulate(w)
  PROVE  UNCHANGED <<scenarios, trail>> \/ LogStep
<1> DEFINE request == requests[w]
           id == request.id
           row == Complete(scenarios[id], request.key)
           after == Complete(request.row, request.key)
<1>1. /\ Entitled(w) /\ request.op = "simulate" /\ request \in Request
      /\ request.row.scenarioState = "draft"
  BY DEF PInv, TypeOK, RequestsEntitled, CommitSimulate, Pending,
         PendingRunsReadDrafts
<1>2. /\ request.user \in Users /\ request.key \in Keys
      /\ id \in Ids /\ request.row \in Row /\ scenarios[id] \in Row
      /\ build \in Builds
  BY <1>1 DEF Entitled, Request, PInv, TypeOK
<1>3. CASE /\ Matches(scenarios[id], "draft")
           /\ Commit(w, id, row, request.row, after)
  <2>1. row \in Row /\ after \in Row
    BY <1>2, CompleteType
  <2>2. /\ row.scenarioState = "simulated" /\ after.scenarioState = "simulated"
        /\ row.idempotencyKey = after.idempotencyKey
        /\ row.result = build /\ after.result = build
        /\ row.replayVerified = scenarios[id].replayVerified
    BY <1>2 DEF Complete, Row
  <2> HIDE DEF row, after
  <2>3. PICK entry \in Entry :
            /\ entry.action = "simulate"
            /\ entry.before = request.row /\ entry.after = after
            /\ trail' = [trail EXCEPT ![id] = Append(@, entry)]
            /\ scenarios'[id] = row
            /\ \A other \in Ids \ {id} : scenarios'[other] = scenarios[other]
    BY <1>1, <1>2, <1>3, <2>1, CommitRecords
  <2>4. RunRecorded(id, entry)
    BY <1>1, <1>2, <1>3, <2>2, <2>3 DEF RunRecorded, Matches
  <2> QED BY <1>2, <2>3, <2>4 DEF LogStep, Recorded
<1> QED BY <1>3 DEF CommitSimulate, Fails

\* A transition is on record as the move that the scenario made.
LEMMA TransitionRecords ==
  ASSUME PInv, NEW w \in Workers, CommitTransition(w)
  PROVE  UNCHANGED <<scenarios, trail>> \/ LogStep
<1> DEFINE request == requests[w]
           id == request.id
           row == Moved(scenarios[id], request.to, request.user)
           after == Moved(request.row, request.to, request.user)
<1>1. Entitled(w) /\ request.op = "transition" /\ request \in Request
  BY DEF PInv, TypeOK, RequestsEntitled, CommitTransition, Pending
<1>2. /\ request.user \in Users /\ request.to \in RequestableStates
      /\ id \in Ids /\ request.row \in Row /\ scenarios[id] \in Row
      /\ CanTransitionScenario(request.row.scenarioState, request.to)
  BY <1>1 DEF Entitled, Request, PInv, TypeOK
<1>3. CASE /\ Matches(scenarios[id], request.row.scenarioState)
           /\ Commit(w, id, row, request.row, after)
  <2>1. row \in Row /\ after \in Row
    BY <1>2, MovedType
  <2>2. /\ row.scenarioState = request.to /\ after.scenarioState = request.to
        /\ row.idempotencyKey = scenarios[id].idempotencyKey
        /\ row.result = scenarios[id].result
        /\ row.replayVerified = scenarios[id].replayVerified
    BY <1>2 DEF Moved, Row
  <2>3. request.to # "absent"
    BY <1>2 DEF RequestableStates, ScenarioStateValues
  <2> HIDE DEF row, after
  <2>4. PICK entry \in Entry :
            /\ entry.action = "transition"
            /\ entry.before = request.row /\ entry.after = after
            /\ trail' = [trail EXCEPT ![id] = Append(@, entry)]
            /\ scenarios'[id] = row
            /\ \A other \in Ids \ {id} : scenarios'[other] = scenarios[other]
    BY <1>1, <1>2, <1>3, <2>1, CommitRecords
  <2>5. MoveRecorded(id, entry)
    BY <1>2, <1>3, <2>2, <2>3, <2>4 DEF MoveRecorded, Matches
  <2> QED BY <1>2, <2>4, <2>5 DEF LogStep, Recorded
<1> QED BY <1>3 DEF CommitTransition, Fails

\* A replay is on record with the flag it set, whatever row it had read.
LEMMA ReplayRecords ==
  ASSUME PInv, NEW w \in Workers, CommitReplay(w)
  PROVE  UNCHANGED <<scenarios, trail>> \/ LogStep
<1> DEFINE request == requests[w]
           id == request.id
           passed == request.row.result = build
           row == [scenarios[id] EXCEPT !.replayVerified = passed]
           after == [request.row EXCEPT !.replayVerified = passed]
<1>1. Entitled(w) /\ request.op = "replay" /\ request \in Request
  BY DEF PInv, TypeOK, RequestsEntitled, CommitReplay, Pending
<1>2. /\ request.user \in Users
      /\ id \in Ids /\ request.row \in Row /\ scenarios[id] \in Row
      /\ scenarios[id].scenarioState # "absent"
  BY <1>1 DEF Entitled, Request, PInv, TypeOK
<1>3. Commit(w, id, row, request.row, after)
  BY DEF CommitReplay, Replayed
<1>4. passed \in BOOLEAN
  OBVIOUS
<1> HIDE DEF passed
<1>5. row \in Row /\ after \in Row
  BY <1>2, <1>4 DEF Row
<1>6. /\ row.scenarioState = scenarios[id].scenarioState
      /\ row.idempotencyKey = scenarios[id].idempotencyKey
      /\ row.result = scenarios[id].result
  BY <1>2 DEF Row
<1>7. row.replayVerified = passed /\ after.replayVerified = passed
  BY <1>2 DEF Row
<1> HIDE DEF row, after
<1>8. PICK entry \in Entry :
          /\ entry.action = "replay"
          /\ entry.before = request.row /\ entry.after = after
          /\ trail' = [trail EXCEPT ![id] = Append(@, entry)]
          /\ scenarios'[id] = row
          /\ \A other \in Ids \ {id} : scenarios'[other] = scenarios[other]
  BY <1>1, <1>2, <1>3, <1>5, CommitRecords
<1>9. entry.after.replayVerified = scenarios'[id].replayVerified
  BY <1>7, <1>8, Zenon
<1>10. ReplayRecorded(id, entry)
  BY <1>2, <1>6, <1>8, <1>9 DEF ReplayRecorded, Exists
<1> QED BY <1>2, <1>8, <1>10 DEF LogStep, Recorded

\* Every step leaves the table and the log alone or is on record.
LEMMA StepIsRecorded ==
  ASSUME PInv, PendingRunsReadDrafts, [Next]_vars
  PROVE  UNCHANGED <<scenarios, trail>> \/ LogStep
<1>1. ASSUME NEW w \in Workers, Step(w)
      PROVE  UNCHANGED <<scenarios, trail>> \/ LogStep
  <2>1. CASE \E request : Start(w, request)
    BY <2>1 DEF Start
  <2>2. CASE StartCreate(w) \/ LoadForSimulate(w) \/ LoadForReplay(w)
    BY <2>1, <2>2 DEF StartCreate, LoadForSimulate, LoadForReplay
  <2>3. CASE LoadForTransition(w)
    BY <2>1, <2>3, ZenonT(60) DEF LoadForTransition
  <2>4. CASE FindByIdempotencyKey(w) \/ Abort(w) \/ Respond(w) \/ Finish(w)
    BY <2>4 DEF FindByIdempotencyKey, Abort, Respond, Finish, Fails
  <2> QED
    BY <1>1, <2>2, <2>3, <2>4, CreateRecords, SimulateRecords,
       TransitionRecords, ReplayRecords DEF Step
<1>2. CASE Restart \/ UNCHANGED vars
  BY <1>2 DEF Restart, vars
<1> QED
  BY <1>1, <1>2 DEF Next

-----------------------------------------------------------------------------
(* What a handler may learn from the lookup of its key.                    *)

\* The lookup lets a simulation go on only for a draft, and is the one that
\* answers with a stored result.
LookedUp(request) ==
    /\ request.pc = "commit" /\ request.op = "simulate" =>
          request.row.scenarioState = "draft"
    /\ request.answer = "reused" =>
          /\ request.pc = "answered" /\ request.key \in Keys
          /\ request.id \in Ids /\ request.row = scenarios[request.id]
          /\ request.row.idempotencyKey = request.key

\* A reused answer is the last word of its handler.
ReusedIsAnswered ==
    \A w \in Workers :
        requests[w].answer = "reused" => requests[w].pc = "answered"

\* A handler that ends at once has learnt nothing.
LEMMA OutcomeLookedUp ==
  ASSUME NEW answer, answer # "reused"
  PROVE  LookedUp(Outcome(answer))
  BY DEF LookedUp, Outcome, Answered, Idle

\* Nor has one that is answered, unless with a stored result.
LEMMA AnsweredLookedUp ==
  ASSUME NEW request \in Request, NEW answer, answer # "reused"
  PROVE  LookedUp(Answered(request, answer))
  BY DEF LookedUp, Answered, Request

\* A handler that goes on to its response has learnt nothing new.
LEMMA RespondLookedUp ==
  ASSUME NEW request \in Request, request.answer # "reused", NEW id
  PROVE  /\ LookedUp([request EXCEPT !.pc = "respond"])
         /\ LookedUp([request EXCEPT !.pc = "respond", !.id = id])
  BY DEF LookedUp, Request

\* A step of a handler leaves what it has learnt in LookedUp.
LEMMA StepLooksUp ==
  ASSUME PInv, ReusedIsAnswered, NEW w \in Workers, Step(w)
  PROVE  \E request \in Request :
            /\ requests' = [requests EXCEPT ![w] = request]
            /\ LookedUp(request)
<1> DEFINE Goal == \E request \in Request :
                      /\ requests' = [requests EXCEPT ![w] = request]
                      /\ LookedUp(request)
<1>1. requests[w] \in Request
  BY DEF PInv, TypeOK
<1>2. requests[w].pc = "commit" \/ requests[w].pc = "findKey"
      \/ requests[w].pc = "respond" => requests[w].answer # "reused"
  BY DEF ReusedIsAnswered
<1>3. ASSUME NEW answer \in Answers, answer # "reused",
             requests' = [requests EXCEPT ![w] = Outcome(answer)]
      PROVE  Goal
  BY <1>3, OutcomeType, OutcomeLookedUp
<1>4. ASSUME NEW answer \in Answers, answer # "reused", Answer(w, answer)
      PROVE  Goal
  BY <1>1, <1>4, AnsweredType, AnsweredLookedUp DEF Answer
<1>5. ASSUME NEW request \in Request,
             requests' = [requests EXCEPT ![w] = request],
             request.answer # "reused",
             request.pc # "commit" \/ request.op # "simulate"
      PROVE  Goal
  BY <1>5 DEF LookedUp
<1>6. CASE StartCreate(w)
  <2>1. PICK user \in Users, input \in Inputs :
            requests' = [requests EXCEPT ![w] =
                [Idle EXCEPT !.pc = "commit", !.user = user, !.input = input]]
    BY <1>6 DEF StartCreate, Start
  <2> DEFINE request == [Idle EXCEPT !.pc = "commit", !.user = user,
                                     !.input = input]
  <2>2. request \in Request
    BY IdleType DEF Request
  <2>3. request.answer # "reused" /\ request.op # "simulate"
    BY DEF Idle
  <2> HIDE DEF request
  <2> QED BY <1>5, <2>1, <2>2, <2>3 DEF request
<1>7. CASE LoadForSimulate(w)
  <2>1. PICK user \in Users, id \in Ids, key \in Keys :
            \/ Start(w, Outcome("notFound")) \/ Start(w, Outcome("forbidden"))
            \/ Start(w, Proceed([Idle EXCEPT !.op = "simulate", !.user = user,
                          !.id = id, !.key = key, !.row = scenarios[id],
                          !.repeat = Simulated(id, key)], "findKey"))
    BY <1>7 DEF LoadForSimulate
  <2> DEFINE loaded == [Idle EXCEPT !.op = "simulate", !.user = user,
                          !.id = id, !.key = key, !.row = scenarios[id],
                          !.repeat = Simulated(id, key)]
             request == Proceed(loaded, "findKey")
  <2>2. request \in Request
    <3>1. Simulated(id, key) \in BOOLEAN
      BY DEF Simulated
    <3> QED BY <3>1, IdleType DEF Request, Proceed, PInv, TypeOK, Operations
  <2>3. request.answer # "reused" /\ request.pc = "findKey"
    BY DEF Idle, Proceed
  <2>4. "notFound" \in Answers /\ "forbidden" \in Answers
    BY DEF Answers
  <2> HIDE DEF request
  <2>5. \/ Start(w, Outcome("notFound")) \/ Start(w, Outcome("forbidden"))
        \/ Start(w, request)
    BY <2>1 DEF request
  <2> QED BY <1>3, <1>5, <2>2, <2>3, <2>4, <2>5 DEF Start
<1>8. CASE FindByIdempotencyKey(w)
  <2> DEFINE request == requests[w]
             holders == {id \in Existing :
                            scenarios[id].idempotencyKey = request.key}
             reused == [Answered(request, "reused") EXCEPT
                            !.row = scenarios[request.id]]
             next == [request EXCEPT !.pc = "commit"]
  <2>1. /\ request.pc = "findKey" /\ request.answer # "reused"
        /\ request.key \in Keys /\ request.id \in Ids
    BY <1>1, <1>2, <1>8
       DEF FindByIdempotencyKey, PInv, RequestsEntitled, Entitled, Request
  <2>2. "onlyDraft" \in Answers /\ "keyBoundElsewhere" \in Answers
        /\ "reused" \in Answers
    BY DEF Answers
  <2>3. CASE /\ request.row.scenarioState = "draft"
             /\ requests' = [requests EXCEPT ![w] = next]
    <3>1. next \in Request /\ next.answer = request.answer /\ next.row = request.row
      BY <1>1 DEF Request
    <3>2. LookedUp(next)
      BY <2>1, <2>3, <3>1 DEF LookedUp
    <3> HIDE DEF next
    <3> QED BY <2>3, <3>1, <3>2
  <2>4. CASE /\ request.id \in holders
             /\ requests' = [requests EXCEPT ![w] = reused]
    <3>1. Answered(request, "reused") \in Request
          /\ Answered(request, "reused").pc = "answered"
      BY <1>1, <2>2, AnsweredType
    <3>2. /\ Answered(request, "reused").id = request.id
          /\ Answered(request, "reused").key = request.key
      BY <1>1 DEF Answered, Request
    <3>3. scenarios[request.id] \in Row
      BY <2>1 DEF PInv, TypeOK
    <3>4. /\ reused \in Request /\ reused.pc = "answered"
          /\ reused.id = request.id /\ reused.key = request.key
          /\ reused.row = scenarios[request.id]
      BY <3>1, <3>2, <3>3 DEF Request
    <3>5. LookedUp(reused)
      <4> HIDE DEF reused
      <4> QED BY <2>1, <2>4, <3>4 DEF LookedUp
    <3> HIDE DEF reused
    <3> QED BY <2>4, <3>4, <3>5
  <2>5. CASE Answer(w, "onlyDraft") \/ Answer(w, "keyBoundElsewhere")
    BY <1>4, <2>2, <2>5
  <2> QED BY <1>8, <2>3, <2>4, <2>5 DEF FindByIdempotencyKey
<1>9. CASE LoadForTransition(w)
  <2>1. PICK user \in Users, id \in Ids, to \in RequestableStates :
            \/ \E answer \in Answers :
                  answer # "reused" /\ Start(w, Outcome(answer))
            \/ Start(w, Proceed([Idle EXCEPT !.op = "transition", !.user = user,
                          !.id = id, !.to = to, !.row = scenarios[id]], "commit"))
    <3>1. /\ "forbidden" \in Answers /\ "notFound" \in Answers
          /\ "illegalTransition" \in Answers /\ "reviewerConflict" \in Answers
      BY DEF Answers
    <3>2. \A b \in BOOLEAN :
             (IF b THEN "reviewerConflict" ELSE "forbidden") \in Answers \ {"reused"}
      BY <3>1
    <3> QED BY <1>9, <3>1, <3>2, ZenonT(60) DEF LoadForTransition
  <2> DEFINE loaded == [Idle EXCEPT !.op = "transition", !.user = user,
                          !.id = id, !.to = to, !.row = scenarios[id]]
             request == Proceed(loaded, "commit")
  <2>2. request \in Request
    BY IdleType DEF Request, Proceed, PInv, TypeOK, Operations
  <2>3. request.answer # "reused" /\ request.op # "simulate"
    BY DEF Idle, Proceed
  <2> HIDE DEF request
  <2>4. \/ \E answer \in Answers :
              answer # "reused" /\ Start(w, Outcome(answer))
        \/ Start(w, request)
    BY <2>1 DEF request
  <2> QED BY <1>3, <1>5, <2>2, <2>3, <2>4 DEF Start
<1>10. CASE LoadForReplay(w)
  <2>1. PICK user \in Users, id \in Ids :
            \/ \E answer \in Answers :
                  answer # "reused" /\ Start(w, Outcome(answer))
            \/ Start(w, Proceed([Idle EXCEPT !.op = "replay", !.user = user,
                          !.id = id, !.row = scenarios[id]], "commit"))
    <3>1. /\ "forbidden" \in Answers /\ "notFound" \in Answers
          /\ "nothingToReplay" \in Answers
      BY DEF Answers
    <3> QED BY <1>10, <3>1 DEF LoadForReplay
  <2> DEFINE loaded == [Idle EXCEPT !.op = "replay", !.user = user,
                          !.id = id, !.row = scenarios[id]]
             request == Proceed(loaded, "commit")
  <2>2. request \in Request
    BY IdleType DEF Request, Proceed, PInv, TypeOK, Operations
  <2>3. request.answer # "reused" /\ request.op # "simulate"
    BY DEF Idle, Proceed
  <2> HIDE DEF request
  <2>4. \/ \E answer \in Answers :
              answer # "reused" /\ Start(w, Outcome(answer))
        \/ Start(w, request)
    BY <2>1 DEF request
  <2> QED BY <1>3, <1>5, <2>2, <2>3, <2>4 DEF Start
<1>11. CASE CommitCreate(w) \/ CommitSimulate(w) \/ CommitTransition(w)
            \/ CommitReplay(w)
  <2>1. requests[w].pc = "commit" /\ requests[w].answer # "reused"
    BY <1>2, <1>11 DEF CommitCreate, CommitSimulate, CommitTransition,
                       CommitReplay, Pending
  <2>2. \/ \E answer \in {"identicalExists", "changedConcurrently", "keyViolation"} :
              Answer(w, answer)
        \/ requests' = [requests EXCEPT ![w] = [@ EXCEPT !.pc = "respond"]]
        \/ \E id \in Ids :
              requests' = [requests EXCEPT ![w] = [@ EXCEPT !.pc = "respond",
                                                            !.id = id]]
        \/ requests' = [requests EXCEPT ![w] = Outcome("replayDiffers")]
    BY <1>11 DEF CommitCreate, CommitSimulate, CommitTransition, CommitReplay,
                 Fails, Proceed
  <2>3. {"identicalExists", "changedConcurrently", "keyViolation",
         "replayDiffers"} \subseteq Answers \ {"reused"}
    BY DEF Answers
  <2>4. \A id \in Ids :
           /\ [requests[w] EXCEPT !.pc = "respond"] \in Request
           /\ [requests[w] EXCEPT !.pc = "respond", !.id = id] \in Request
           /\ LookedUp([requests[w] EXCEPT !.pc = "respond"])
           /\ LookedUp([requests[w] EXCEPT !.pc = "respond", !.id = id])
    BY <1>1, <2>1, RespondingType, RespondLookedUp
  <2>5. SeedId \in Ids
    BY SeedAssumption
  <2> QED BY <1>3, <1>4, <2>2, <2>3, <2>4, <2>5
<1>12. CASE Abort(w) \/ Respond(w)
  <2>1. "internal" \in Answers /\ "ok" \in Answers
    BY DEF Answers
  <2> QED BY <1>3, <1>4, <1>12, <2>1 DEF Abort, Fails, Respond
<1>13. CASE Finish(w)
  BY <1>5, <1>13, IdleType DEF Finish, Idle
<1> QED
  BY <1>6, <1>7, <1>8, <1>9, <1>10, <1>11, <1>12, <1>13 DEF Step

-----------------------------------------------------------------------------
(* The audit log.                                                          *)

\* A scenario that holds a key was seeded with it or has a simulation on
\* record that ran under it; a scenario that is not there has no records.
KeysAreRecorded ==
    \A id \in Ids :
        /\ scenarios[id].idempotencyKey # NoKey =>
              /\ scenarios[id].result # NoBuild
              /\ \/ id = SeedId /\ scenarios[id].idempotencyKey = SeedKey
                 \/ Simulated(id, scenarios[id].idempotencyKey)
        /\ ~Exists(id) => trail[id] = << >>

\* The inductive invariant behind the statements about the audit log.
LogInv ==
    /\ PInv /\ PendingRunsReadDrafts /\ ReusedIsAnswered
    /\ KeysAreRecorded /\ ReuseHasResult

\* A log with a record more.
LEMMA Appended ==
  ASSUME NEW log \in Seq(Entry), NEW entry \in Entry,
         NEW longer, longer = Append(log, entry)
  PROVE  /\ Len(log) \in Nat /\ DOMAIN log = 1 .. Len(log)
         /\ DOMAIN longer = 1 .. Len(log) + 1
         /\ longer[Len(log) + 1] = entry
         /\ \A i \in DOMAIN log : longer[i] = log[i]
  OBVIOUS

\* What is on record stays on record.
LEMMA RecordsStay ==
  ASSUME PInv, UNCHANGED <<scenarios, trail>> \/ LogStep,
         NEW id \in Ids, NEW key, Simulated(id, key)
  PROVE  Simulated(id, key)'
<1>1. CASE trail'[id] = trail[id]
  BY <1>1 DEF Simulated
<1>2. ASSUME NEW entry \in Entry, trail'[id] = Append(trail[id], entry)
      PROVE  Simulated(id, key)'
  <2>1. trail[id] \in Seq(Entry)
    BY DEF PInv, TypeOK
  <2>2. /\ DOMAIN trail[id] \subseteq DOMAIN trail'[id]
        /\ \A i \in DOMAIN trail[id] : trail'[id][i] = trail[id][i]
    BY <1>2, <2>1
  <2> QED BY <2>2 DEF Simulated
<1> QED BY <1>1, <1>2 DEF LogStep, PInv, TypeOK

\* A run that is on record is found there.
LEMMA RunFound ==
  ASSUME PInv, NEW id \in Ids, NEW entry \in Entry,
         trail' = [trail EXCEPT ![id] = Append(@, entry)],
         entry.action = "simulate"
  PROVE  Simulated(id, entry.after.idempotencyKey)'
<1>1. trail[id] \in Seq(Entry) /\ trail'[id] = Append(trail[id], entry)
  BY DEF PInv, TypeOK
<1>2. /\ Len(trail[id]) + 1 \in DOMAIN trail'[id]
      /\ trail'[id][Len(trail[id]) + 1] = entry
  BY <1>1
<1> QED BY <1>2 DEF Simulated

\* A step keeps the keys on record.
LEMMA KeysStep ==
  ASSUME PInv, KeysAreRecorded, UNCHANGED <<scenarios, trail>> \/ LogStep
  PROVE  KeysAreRecorded'
<1>1. CASE UNCHANGED <<scenarios, trail>>
  BY <1>1 DEF KeysAreRecorded, Simulated, Exists
<1>2. ASSUME NEW id \in Ids, NEW entry \in Entry, Recorded(id, entry), LogStep,
             trail' = [trail EXCEPT ![id] = Append(@, entry)],
             \A other \in Ids \ {id} : scenarios'[other] = scenarios[other]
      PROVE  KeysAreRecorded'
  <2> SUFFICES ASSUME NEW any \in Ids
               PROVE  /\ scenarios'[any].idempotencyKey # NoKey =>
                            /\ scenarios'[any].result # NoBuild
                            /\ \/ /\ any = SeedId
                                  /\ scenarios'[any].idempotencyKey = SeedKey
                               \/ Simulated(any, scenarios[any].idempotencyKey)'
                      /\ ~Exists(any)' => trail'[any] = << >>
    BY DEF KeysAreRecorded
  <2>1. CASE any # id
    <3>1. trail'[any] = trail[any] /\ scenarios'[any] = scenarios[any]
      BY <1>2, <2>1 DEF PInv, TypeOK
    <3> QED BY <3>1 DEF KeysAreRecorded, Simulated, Exists
  <2>2. CASE any = id
    <3>1. Exists(id)'
      BY <1>2 DEF Recorded, CreationRecorded, RunRecorded, MoveRecorded,
                  ReplayRecorded, Exists
    <3>2. CASE CreationRecorded(id, entry)
      BY <2>2, <3>1, <3>2 DEF CreationRecorded
    <3>3. CASE RunRecorded(id, entry)
      <4>1. Simulated(id, entry.after.idempotencyKey)'
        BY <1>2, <3>3, RunFound DEF RunRecorded
      <4> QED BY <2>2, <3>1, <3>3, <4>1, NullAssumption DEF RunRecorded
    <3>4. CASE MoveRecorded(id, entry) \/ ReplayRecorded(id, entry)
      <4> DEFINE key == scenarios[id].idempotencyKey
      <4>1. /\ scenarios'[id].idempotencyKey = key
            /\ scenarios'[id].result = scenarios[id].result
        BY <3>4 DEF MoveRecorded, ReplayRecorded
      <4>2. Simulated(id, key) => Simulated(id, scenarios[id].idempotencyKey)'
        <5>1. \A k : Simulated(id, k) => Simulated(id, k)'
          BY <1>2, RecordsStay
        <5>2. \A k : Simulated(id, k)' <=>
                \E i \in DOMAIN trail'[id] :
                    /\ trail'[id][i].action = "simulate"
                    /\ trail'[id][i].after.idempotencyKey = k
          BY DEF Simulated
        <5> HIDE DEF key
        <5>3. Simulated(id, key) =>
                \E i \in DOMAIN trail'[id] :
                    /\ trail'[id][i].action = "simulate"
                    /\ trail'[id][i].after.idempotencyKey = key
          BY <5>1, <5>2
        <5> QED BY <4>1, <5>3 DEF Simulated
      <4> QED BY <2>2, <3>1, <4>1, <4>2 DEF KeysAreRecorded
    <3> QED BY <1>2, <3>2, <3>3, <3>4 DEF Recorded
  <2> QED BY <2>1, <2>2
<1> QED BY <1>1, <1>2 DEF LogStep

\* The last record of an action is the new one or the one it was.
LEMMA LastAppended ==
  ASSUME PInv, NEW id \in Ids, NEW entry \in Entry,
         trail'[id] = Append(trail[id], entry),
         NEW action, NEW i, Last(id, action, i)'
  PROVE  /\ entry.action = action => trail'[id][i] = entry
         /\ entry.action # action =>
               Last(id, action, i) /\ trail'[id][i] = trail[id][i]
<1> DEFINE log == trail[id]
           longer == trail'[id]
           n == Len(log)
<1>1. log \in Seq(Entry) /\ longer = Append(log, entry)
  BY DEF PInv, TypeOK
<1>2. /\ i \in DOMAIN longer /\ longer[i].action = action
      /\ \A k \in DOMAIN longer : longer[k].action = action => k <= i
  BY DEF Last
<1> HIDE DEF longer
<1>3. /\ n \in Nat /\ DOMAIN log = 1 .. n /\ DOMAIN longer = 1 .. n + 1
      /\ longer[n + 1] = entry
      /\ \A k \in DOMAIN log : longer[k] = log[k]
  BY <1>1, Appended
<1> HIDE DEF log, n
<1>4. CASE entry.action = action
  <2>1. i = n + 1
    BY <1>2, <1>3, <1>4
  <2> QED BY <1>3, <1>4, <2>1 DEF longer
<1>5. CASE entry.action # action
  <2>1. i \in DOMAIN log
    BY <1>2, <1>3, <1>5
  <2>2. /\ log[i].action = action
        /\ \A k \in DOMAIN log : log[k].action = action => k <= i
    BY <1>2, <1>3, <2>1
  <2>3. longer[i] = log[i]
    BY <1>3, <2>1
  <2> QED BY <1>5, <2>1, <2>2, <2>3 DEF Last, log, longer
<1> QED BY <1>4, <1>5

\* What the log must say of the evidence of one scenario.
EvidenceOnRecord(id) ==
    \A i \in DOMAIN trail[id] :
        Last(id, "simulate", i) =>
            /\ scenarios[id].idempotencyKey = trail[id][i].after.idempotencyKey
            /\ scenarios[id].result = trail[id][i].after.result

FlagOnRecord(id) ==
    \A i \in DOMAIN trail[id] :
        Last(id, "replay", i) =>
            scenarios[id].replayVerified = trail[id][i].after.replayVerified

\* A step keeps the key and the result on record.
LEMMA EvidenceKept ==
  ASSUME PInv, KeysAreRecorded, NEW id \in Ids, NEW entry \in Entry,
         Recorded(id, entry), trail' = [trail EXCEPT ![id] = Append(@, entry)],
         EvidenceOnRecord(id)
  PROVE  EvidenceOnRecord(id)'
<1> SUFFICES ASSUME NEW i \in DOMAIN trail'[id], Last(id, "simulate", i)'
             PROVE  /\ scenarios'[id].idempotencyKey =
                          trail'[id][i].after.idempotencyKey
                    /\ scenarios'[id].result = trail'[id][i].after.result
  BY DEF EvidenceOnRecord
<1>1. /\ entry.action = "simulate" => trail'[id][i] = entry
      /\ entry.action # "simulate" =>
            Last(id, "simulate", i) /\ trail'[id][i] = trail[id][i]
  <2>1. trail'[id] = Append(trail[id], entry)
    BY DEF PInv, TypeOK
  <2> QED BY <2>1, LastAppended
<1>2. CASE CreationRecorded(id, entry)
  <2>1. trail[id] = << >>
    BY <1>2 DEF CreationRecorded, KeysAreRecorded
  <2>2. entry.action # "simulate"
    BY <1>2 DEF CreationRecorded
  <2> QED BY <1>1, <2>1, <2>2 DEF Last
<1>3. CASE RunRecorded(id, entry)
  BY <1>1, <1>3 DEF RunRecorded
<1>4. CASE MoveRecorded(id, entry) \/ ReplayRecorded(id, entry)
  <2>1. /\ entry.action # "simulate"
        /\ scenarios'[id].idempotencyKey = scenarios[id].idempotencyKey
        /\ scenarios'[id].result = scenarios[id].result
    BY <1>4 DEF MoveRecorded, ReplayRecorded
  <2>2. i \in DOMAIN trail[id] /\ Last(id, "simulate", i)
    BY <1>1, <2>1 DEF Last
  <2> QED BY <1>1, <2>1, <2>2 DEF EvidenceOnRecord
<1> QED BY <1>2, <1>3, <1>4 DEF Recorded

\* A step keeps the replay flag on record.
LEMMA FlagKept ==
  ASSUME PInv, KeysAreRecorded, NEW id \in Ids, NEW entry \in Entry,
         Recorded(id, entry), trail' = [trail EXCEPT ![id] = Append(@, entry)],
         FlagOnRecord(id)
  PROVE  FlagOnRecord(id)'
<1> SUFFICES ASSUME NEW i \in DOMAIN trail'[id], Last(id, "replay", i)'
             PROVE  scenarios'[id].replayVerified = trail'[id][i].after.replayVerified
  BY DEF FlagOnRecord
<1>1. /\ entry.action = "replay" => trail'[id][i] = entry
      /\ entry.action # "replay" =>
            Last(id, "replay", i) /\ trail'[id][i] = trail[id][i]
  <2>1. trail'[id] = Append(trail[id], entry)
    BY DEF PInv, TypeOK
  <2> QED BY <2>1, LastAppended
<1>2. CASE CreationRecorded(id, entry)
  <2>1. trail[id] = << >>
    BY <1>2 DEF CreationRecorded, KeysAreRecorded
  <2>2. entry.action # "replay"
    BY <1>2 DEF CreationRecorded
  <2> QED BY <1>1, <2>1, <2>2 DEF Last
<1>3. CASE ReplayRecorded(id, entry)
  <2>1. /\ entry.action = "replay"
        /\ entry.after.replayVerified = scenarios'[id].replayVerified
    BY <1>3 DEF ReplayRecorded
  <2> QED BY <1>1, <2>1, Zenon
<1>4. CASE MoveRecorded(id, entry) \/ RunRecorded(id, entry)
  <2>1. entry.action # "replay"
    BY <1>4 DEF MoveRecorded, RunRecorded
  <2>2. scenarios'[id].replayVerified = scenarios[id].replayVerified
    BY <1>4, Zenon DEF MoveRecorded, RunRecorded
  <2>3. i \in DOMAIN trail[id] /\ Last(id, "replay", i)
    BY <1>1, <2>1 DEF Last
  <2>4. scenarios[id].replayVerified = trail[id][i].after.replayVerified
    BY <2>3, Zenon DEF FlagOnRecord
  <2>5. trail'[id][i] = trail[id][i]
    BY <1>1, <2>1
  <2> QED BY <2>2, <2>4, <2>5, Zenon
<1> QED BY <1>2, <1>3, <1>4 DEF Recorded

\* What the log must say of the state of one scenario.
MovesAreLegal(id) == \A i \in StateMoves(id) : LegalMove(trail[id][i])

MovesConnect(id) ==
    \A i, j \in StateMoves(id) :
        (i < j /\ \A k \in StateMoves(id) : k <= i \/ j <= k) =>
            trail[id][j].before.scenarioState = trail[id][i].after.scenarioState

EndsInState(id) ==
    \A i \in StateMoves(id) :
        (\A k \in StateMoves(id) : k <= i) =>
            scenarios[id].scenarioState = trail[id][i].after.scenarioState

\* A step keeps the state on record.
LEMMA StateKept ==
  ASSUME PInv, KeysAreRecorded, NEW id \in Ids, NEW entry \in Entry,
         Recorded(id, entry), trail' = [trail EXCEPT ![id] = Append(@, entry)],
         MovesAreLegal(id), MovesConnect(id), EndsInState(id)
  PROVE  MovesAreLegal(id)' /\ MovesConnect(id)' /\ EndsInState(id)'
<1> DEFINE log == trail[id]
           longer == trail'[id]
           n == Len(log)
           old == {i \in DOMAIN log : log[i].action # "replay"}
           new == {i \in DOMAIN longer : longer[i].action # "replay"}
<1>1. log \in Seq(Entry) /\ longer = Append(log, entry)
  BY DEF PInv, TypeOK
<1>2. old = StateMoves(id) /\ new = StateMoves(id)'
  BY DEF StateMoves
<1> HIDE DEF longer
<1>3. /\ n \in Nat /\ DOMAIN log = 1 .. n /\ DOMAIN longer = 1 .. n + 1
      /\ longer[n + 1] = entry
      /\ \A k \in DOMAIN log : longer[k] = log[k]
  BY <1>1, Appended
<1>4. \A i \in old : LegalMove(log[i])
  BY <1>2 DEF MovesAreLegal
<1>5. \A i, j \in old : (i < j /\ \A k \in old : k <= i \/ j <= k) =>
          log[j].before.scenarioState = log[i].after.scenarioState
  BY <1>2 DEF MovesConnect
<1>6. \A i \in old : (\A k \in old : k <= i) =>
          scenarios[id].scenarioState = log[i].after.scenarioState
  BY <1>2 DEF EndsInState
<1>7. old = {} \/ Exists(id)
  BY <1>3 DEF KeysAreRecorded
<1> HIDE DEF log, n
<1>8. CASE ReplayRecorded(id, entry)
  <2>1. entry.action = "replay"
        /\ scenarios'[id].scenarioState = scenarios[id].scenarioState
    BY <1>8 DEF ReplayRecorded
  <2>2. new = old
    BY <1>3, <2>1
  <2>3. \A i \in old : longer[i] = log[i]
    BY <1>3
  <2> HIDE DEF old, new
  <2>4. /\ \A i \in new : LegalMove(longer[i])
        /\ \A i, j \in new : (i < j /\ \A k \in new : k <= i \/ j <= k) =>
              longer[j].before.scenarioState = longer[i].after.scenarioState
        /\ \A i \in new : (\A k \in new : k <= i) =>
              scenarios'[id].scenarioState = longer[i].after.scenarioState
    BY <1>4, <1>5, <1>6, <2>1, <2>2, <2>3
  <2> QED BY <1>2, <2>4 DEF MovesAreLegal, MovesConnect, EndsInState, longer
<1>9. CASE CreationRecorded(id, entry) \/ RunRecorded(id, entry)
           \/ MoveRecorded(id, entry)
  <2>1. /\ entry.action # "replay" /\ LegalMove(entry)
        /\ entry.after.scenarioState = scenarios'[id].scenarioState
        /\ Exists(id) => entry.before.scenarioState = scenarios[id].scenarioState
    <3>1. CanTransitionScenario("draft", "simulated")
      BY DEF CanTransitionScenario, allowed
    <3> QED BY <1>9, <3>1 DEF CreationRecorded, RunRecorded, MoveRecorded, LegalMove
  <2>2. new = old \cup {n + 1} /\ \A i \in old : i \in 1 .. n
    BY <1>3, <2>1
  <2>3. \A i \in old : longer[i] = log[i]
    BY <1>3
  <2> HIDE DEF old, new
  <2>4. \A i \in new : LegalMove(longer[i])
    BY <1>3, <1>4, <2>1, <2>2, <2>3
  <2>5. ASSUME NEW i \in new, NEW j \in new, i < j,
               \A k \in new : k <= i \/ j <= k
        PROVE  longer[j].before.scenarioState = longer[i].after.scenarioState
    <3>1. i \in old
      BY <1>3, <2>2, <2>5
    <3>2. CASE j \in old
      BY <1>5, <2>2, <2>3, <2>5, <3>1, <3>2
    <3>3. CASE j = n + 1
      <4>1. \A k \in old : k <= i
        BY <1>3, <2>2, <2>5, <3>3
      <4>2. scenarios[id].scenarioState = log[i].after.scenarioState
        BY <1>6, <3>1, <4>1
      <4>3. longer[j] = entry /\ longer[i] = log[i] /\ Exists(id)
        BY <1>3, <1>7, <2>3, <3>1, <3>3
      <4> QED BY <2>1, <4>2, <4>3
    <3> QED BY <2>2, <3>2, <3>3
  <2>6. ASSUME NEW i \in new, \A k \in new : k <= i
        PROVE  scenarios'[id].scenarioState = longer[i].after.scenarioState
    <3>1. i = n + 1
      BY <1>3, <2>2, <2>6
    <3> QED BY <1>3, <2>1, <3>1
  <2> QED BY <1>2, <2>4, <2>5, <2>6
          DEF MovesAreLegal, MovesConnect, EndsInState, longer
<1> QED BY <1>8, <1>9 DEF Recorded

-----------------------------------------------------------------------------
(* The statements about the audit log, for every interleaving.             *)

\* What one handler holds is what it has learnt, and the others keep theirs.
LEMMA HandlersStep ==
  ASSUME LogInv, [Next]_vars, KeysAreRecorded',
         UNCHANGED <<scenarios, trail>> \/ LogStep
  PROVE  PendingRunsReadDrafts' /\ ReusedIsAnswered' /\ ReuseHasResult'
<1> DEFINE Fine(request) ==
      /\ request.pc = "commit" /\ request.op = "simulate" =>
            request.row.scenarioState = "draft"
      /\ request.answer = "reused" =>
            /\ request.pc = "answered" /\ request.row.result # NoBuild
            /\ \/ request.id = SeedId /\ request.key = SeedKey
               \/ Simulated(request.id, request.key)
<1>1. \A v \in Workers : Fine(requests[v]) /\ requests[v].id \in Ids
  BY DEF LogInv, PendingRunsReadDrafts, ReusedIsAnswered, ReuseHasResult,
         PInv, TypeOK, Request
<1>2. \A id \in Ids : \A key : Simulated(id, key) => Simulated(id, key)'
  BY RecordsStay DEF LogInv
<1> DEFINE Later(id, key) ==
      \E i \in DOMAIN trail'[id] :
          /\ trail'[id][i].action = "simulate"
          /\ trail'[id][i].after.idempotencyKey = key
<1>3. \A id \in Ids : \A key : Simulated(id, key) => Later(id, key)
  <2>1. \A id \in Ids : \A key : Simulated(id, key)' <=> Later(id, key)
    BY DEF Simulated
  <2> QED BY <1>2, <2>1
<1> HIDE DEF Later
<1> DEFINE Holds(request) ==
      /\ request.pc = "commit" /\ request.op = "simulate" =>
            request.row.scenarioState = "draft"
      /\ request.answer = "reused" =>
            /\ request.pc = "answered" /\ request.row.result # NoBuild
            /\ \/ request.id = SeedId /\ request.key = SeedKey
               \/ Later(request.id, request.key)
<1>4. \A v \in Workers : Holds(requests[v])
  BY <1>1, <1>3
<1>5. \A v \in Workers : Holds(requests'[v])
  <2>1. CASE UNCHANGED requests
    BY <1>4, <2>1
  <2>2. CASE Restart
    BY <2>2 DEF Restart, Idle
  <2>3. ASSUME NEW w \in Workers, Step(w), NEW v \in Workers
        PROVE  Holds(requests'[v])
    <3>1. PICK request \in Request :
            /\ requests' = [requests EXCEPT ![w] = request]
            /\ LookedUp(request)
      BY <2>3, StepLooksUp DEF LogInv
    <3>2. CASE v # w
      <4>1. requests'[v] = requests[v]
        BY <3>1, <3>2 DEF LogInv, PInv, TypeOK
      <4> QED BY <1>4, <4>1
    <3>3. CASE v = w
      <4>1. requests'[v] = request
        BY <3>1, <3>3 DEF LogInv, PInv, TypeOK
      <4>2. ASSUME request.answer = "reused"
            PROVE  /\ request.row.result # NoBuild
                   /\ \/ request.id = SeedId /\ request.key = SeedKey
                      \/ Later(request.id, request.key)
        <5>1. /\ request.id \in Ids /\ request.key \in Keys
              /\ request.row = scenarios[request.id]
              /\ request.row.idempotencyKey = request.key
          BY <3>1, <4>2 DEF LookedUp
        <5>2. /\ request.row.result # NoBuild
              /\ \/ request.id = SeedId /\ request.key = SeedKey
                 \/ Simulated(request.id, request.key)
          BY <5>1, NullAssumption DEF LogInv, KeysAreRecorded
        <5> QED BY <1>3, <5>1, <5>2
      <4>3. Holds(request)
        BY <3>1, <4>2 DEF LookedUp
      <4> QED BY <4>1, <4>3
    <3> QED BY <3>2, <3>3
  <2> QED BY <2>1, <2>2, <2>3 DEF Next, vars
<1>6. \A v \in Workers :
        requests'[v].answer = "reused" =>
            /\ requests'[v].row.result # NoBuild
            /\ \/ requests'[v].id = SeedId /\ requests'[v].key = SeedKey
               \/ Later(requests'[v].id, requests'[v].key)
  BY <1>5
<1>7. ReuseHasResult'
  BY <1>6 DEF ReuseHasResult, Simulated, Later
<1>8. PendingRunsReadDrafts' /\ ReusedIsAnswered'
  BY <1>5 DEF PendingRunsReadDrafts, ReusedIsAnswered
<1> QED BY <1>7, <1>8

\* Keys and answers stay grounded in the audit log.
THEOREM LogSafety == Spec => []LogInv
<1>1. Init => LogInv
  <2> SUFFICES ASSUME Init PROVE LogInv
    OBVIOUS
  <2>1. PendingRunsReadDrafts /\ ReusedIsAnswered /\ ReuseHasResult
    BY DEF Init, Idle, PendingRunsReadDrafts, ReusedIsAnswered, ReuseHasResult
  <2>2. KeysAreRecorded
    <3>1. SeedRow.idempotencyKey = SeedKey /\ SeedRow.result = SeedBuild
          /\ AbsentRow.idempotencyKey = NoKey
      BY DEF SeedRow, AbsentRow
    <3> QED BY <3>1, SeedAssumption, NullAssumption DEF Init, KeysAreRecorded
  <2> QED BY <2>1, <2>2, InitPInv DEF LogInv
<1>2. LogInv /\ [Next]_vars => LogInv'
  <2> SUFFICES ASSUME LogInv, [Next]_vars PROVE LogInv'
    OBVIOUS
  <2>1. UNCHANGED <<scenarios, trail>> \/ LogStep
    BY StepIsRecorded DEF LogInv
  <2>2. KeysAreRecorded'
    BY <2>1, KeysStep DEF LogInv
  <2>3. PendingRunsReadDrafts' /\ ReusedIsAnswered' /\ ReuseHasResult'
    BY <2>1, <2>2, HandlersStep
  <2>4. PInv'
    <3>1. CASE UNCHANGED vars
      BY <3>1 DEF LogInv, PInv, TypeOK, RequestsEntitled, Entitled, vars, Owns,
                  ReviewerSeparated
    <3> QED BY <3>1, NextStep DEF LogInv
  <2> QED BY <2>2, <2>3, <2>4 DEF LogInv
<1> QED BY <1>1, <1>2, PTL DEF Spec

\* A repeated simulation is answered from the table only for a scenario that did
\* run under that key.
THEOREM ReuseHasResultHolds == Spec => []ReuseHasResult
<1>1. LogInv => ReuseHasResult
  BY DEF LogInv
<1> QED BY <1>1, LogSafety, PTL

\* What a step does to the log of one scenario.
LEMMA LogSteps ==
  ASSUME LogInv, [Next]_vars, NEW id \in Ids
  PROVE  \/ scenarios'[id] = scenarios[id] /\ trail'[id] = trail[id]
         \/ \E entry \in Entry :
               /\ Recorded(id, entry)
               /\ trail' = [trail EXCEPT ![id] = Append(@, entry)]
<1>1. UNCHANGED <<scenarios, trail>> \/ LogStep
  BY StepIsRecorded DEF LogInv
<1> QED BY <1>1 DEF LogStep, LogInv, PInv, TypeOK

\* The audit log accounts for every change of state.
THEOREM AuditAccountsForStateHolds == Spec => []AuditAccountsForState
<1> DEFINE Accounted ==
      \A id \in Ids : MovesAreLegal(id) /\ MovesConnect(id) /\ EndsInState(id)
<1>1. Init => Accounted
  BY DEF Init, StateMoves, MovesAreLegal, MovesConnect, EndsInState
<1>2. LogInv /\ Accounted /\ [Next]_vars => Accounted'
  <2> SUFFICES ASSUME LogInv, Accounted, [Next]_vars, NEW id \in Ids
               PROVE  MovesAreLegal(id)' /\ MovesConnect(id)' /\ EndsInState(id)'
    OBVIOUS
  <2>1. CASE scenarios'[id] = scenarios[id] /\ trail'[id] = trail[id]
    BY <2>1 DEF StateMoves, MovesAreLegal, MovesConnect, EndsInState
  <2>2. ASSUME NEW entry \in Entry, Recorded(id, entry),
               trail' = [trail EXCEPT ![id] = Append(@, entry)]
        PROVE  MovesAreLegal(id)' /\ MovesConnect(id)' /\ EndsInState(id)'
    BY <2>2, StateKept DEF LogInv
  <2> QED BY <2>1, <2>2, LogSteps
<1>3. Accounted => AuditAccountsForState
  BY DEF MovesAreLegal, MovesConnect, EndsInState, AuditAccountsForState
<1> QED BY <1>1, <1>2, <1>3, LogSafety, PTL DEF Spec

\* The audit log accounts for the key, the result and the replay flag, although
\* a replay updates its scenario without a condition.
THEOREM AuditAccountsForEvidenceHolds == Spec => []AuditAccountsForEvidence
<1> DEFINE Accounted == \A id \in Ids : EvidenceOnRecord(id) /\ FlagOnRecord(id)
<1>1. Init => Accounted
  BY DEF Init, EvidenceOnRecord, FlagOnRecord
<1>2. LogInv /\ Accounted /\ [Next]_vars => Accounted'
  <2> SUFFICES ASSUME LogInv, Accounted, [Next]_vars, NEW id \in Ids
               PROVE  EvidenceOnRecord(id)' /\ FlagOnRecord(id)'
    OBVIOUS
  <2>1. CASE scenarios'[id] = scenarios[id] /\ trail'[id] = trail[id]
    <3>1. \A action, i : Last(id, action, i)' <=> Last(id, action, i)
      BY <2>1 DEF Last
    <3>2. EvidenceOnRecord(id)'
      BY <2>1 DEF EvidenceOnRecord, Last
    <3>3. FlagOnRecord(id)'
      BY <2>1, ZenonT(60) DEF FlagOnRecord, Last
    <3> QED BY <3>2, <3>3
  <2>2. ASSUME NEW entry \in Entry, Recorded(id, entry),
               trail' = [trail EXCEPT ![id] = Append(@, entry)]
        PROVE  EvidenceOnRecord(id)' /\ FlagOnRecord(id)'
    BY <2>2, EvidenceKept, FlagKept DEF LogInv
  <2> QED BY <2>1, <2>2, LogSteps
<1>3. Accounted => AuditAccountsForEvidence
  BY DEF EvidenceOnRecord, FlagOnRecord, AuditAccountsForEvidence
<1> QED BY <1>1, <1>2, <1>3, LogSafety, PTL DEF Spec

=============================================================================
