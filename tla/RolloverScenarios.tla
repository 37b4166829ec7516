-------------------------- MODULE RolloverScenarios --------------------------
(***************************************************************************)
(* The rollover scenario API: the handlers that create, simulate,          *)
(* transition and replay a scenario, run concurrently by the goroutines    *)
(* of the HTTP server over one database                                    *)
(* (backend/internal/service/rollover_scenario_service.go and the          *)
(* repository, handler, router, dto and model files of the same name).     *)
(*                                                                         *)
(* A handler reads the scenario in one statement, decides, and commits its *)
(* update together with its audit record in one transaction.  Reads take   *)
(* no lock, so each read and each commit is a step of its own and other    *)
(* handlers act in between.  A transaction either commits both writes or   *)
(* rolls both back.                                                        *)
(***************************************************************************)
EXTENDS Access, ScenarioStates, Integers, Sequences

CONSTANTS
    Workers,     \* goroutines that serve requests
    Users,       \* authenticated users
    RoleOf,      \* the role of each user, from its token
    Ids,         \* identifiers of scenarios
    Inputs,      \* frozen inputs a creation request can lead to
    Keys,        \* values of the Idempotency-Key header
    Builds,      \* releases of the simulation algorithm
    NoUser, NoInput, NoKey, NoBuild,
    SeedId, SeedUser, SeedInput, SeedKey, SeedBuild,  \* the seeded scenario
    MaxWrites    \* bound on committed transactions

ASSUME RolesAssumption == RoleOf \in [Users -> Roles]

ASSUME NullAssumption ==
    /\ NoUser \notin Users
    /\ NoInput \notin Inputs
    /\ NoKey \notin Keys       \* the empty header is refused, the column starts as ''
    /\ NoBuild \notin Builds

ASSUME SeedAssumption ==
    /\ SeedId \in Ids /\ SeedInput \in Inputs /\ SeedKey \in Keys
    /\ SeedUser \in Users /\ SeedBuild \in Builds

ASSUME MaxWritesAssumption == MaxWrites \in Nat

VARIABLES
    scenarios,   \* the table: a row for every id
    trail,       \* per scenario, its rows of the audit log in order
    requests,    \* what each goroutine is doing
    build,       \* the release that is deployed
    writes       \* committed transactions so far

vars == <<scenarios, trail, requests, build, writes>>

-----------------------------------------------------------------------------
(* Rows of the scenario table.  The result stands for the four columns a   *)
(* simulation fills: simulating a frozen input is deterministic, so the    *)
(* release that computed a result identifies it among those of one input.  *)

Row ==
    [scenarioState  : ScenarioStateValues \cup {"absent"},
     createdBy      : Users \cup {NoUser},
     input          : Inputs \cup {NoInput},
     version        : Builds \cup {NoBuild},
     idempotencyKey : Keys \cup {NoKey},
     result         : Builds \cup {NoBuild},
     verifiedBy     : Users \cup {NoUser},
     replayVerified : BOOLEAN]

AbsentRow ==
    [scenarioState |-> "absent", createdBy |-> NoUser, input |-> NoInput,
     version |-> NoBuild, idempotencyKey |-> NoKey, result |-> NoBuild,
     verifiedBy |-> NoUser, replayVerified |-> FALSE]

Draft(user, input) ==
    [AbsentRow EXCEPT !.scenarioState = "draft", !.createdBy = user,
                      !.input = input, !.version = build]

SeedRow ==
    [AbsentRow EXCEPT !.scenarioState = "simulated", !.createdBy = SeedUser,
                      !.input = SeedInput, !.version = SeedBuild,
                      !.idempotencyKey = SeedKey, !.result = SeedBuild]

Exists(id) == scenarios[id].scenarioState # "absent"
Existing == {id \in Ids : Exists(id)}

(* An audit record: who did what, and the scenario before and after as     *)
(* the handler saw it.                                                     *)
Operations == {"create", "simulate", "transition", "replay"}
Entry == [action : Operations, actor : Users, before : Row, after : Row]

-----------------------------------------------------------------------------
(* Requests.  An answer is "ok", "reused" or named after its error.  Of an  *)
(* answered request only what a property mentions is kept.                 *)

Answers ==
    {"none", "ok", "reused", "forbidden", "notFound", "illegalTransition",
     "reviewerConflict", "onlyDraft", "keyBoundElsewhere", "nothingToReplay",
     "identicalExists", "changedConcurrently", "replayDiffers", "internal",
     "keyViolation"}

Request ==
    [pc     : {"idle", "findKey", "commit", "respond", "answered"},
     op     : Operations,
     user   : Users \cup {NoUser},
     id     : Ids,
     input  : Inputs \cup {NoInput},
     key    : Keys \cup {NoKey},
     to     : RequestableStates,
     row    : Row,              \* the scenario as this handler read it
     answer : Answers,
     repeat : BOOLEAN]          \* history: the key had already simulated id

Idle ==
    [pc |-> "idle", op |-> "create", user |-> NoUser, id |-> SeedId,
     input |-> NoInput, key |-> NoKey, to |-> "draft", row |-> AbsentRow,
     answer |-> "none", repeat |-> FALSE]

\* A new request arrives only while the bound allows it to commit.
Free(w) == requests[w].pc = "idle" /\ writes < MaxWrites

Start(w, request) ==
    /\ requests' = [requests EXCEPT ![w] = request]
    /\ UNCHANGED <<scenarios, trail, build, writes>>

Answered(request, answer) ==
    [request EXCEPT !.pc = "answered", !.answer = answer,
                    !.user = NoUser, !.to = "draft", !.row = AbsentRow]

\* An answer of which only the kind is kept.
Outcome(answer) == Answered(Idle, answer)

Proceed(request, pc) == [request EXCEPT !.pc = pc]

Answer(w, answer) ==
    requests' = [requests EXCEPT ![w] = Answered(requests[w], answer)]

Owns_Anyone(user, row) == TRUE  \* fault: no ownership check
Owns(user, row) ==
    \/ RoleOf[user] \in PKIAdministrators
    \/ row.createdBy = user

ReviewerSeparated_NotAdmin(user, row) ==  \* fault: administrators are exempt
    RoleOf[user] = "admin" \/ row.createdBy # user
ReviewerSeparated(user, row) == row.createdBy # user

\* history: a simulation of id under key has been recorded
Simulated(id, key) ==
    \E i \in DOMAIN trail[id] :
        /\ trail[id][i].action = "simulate"
        /\ trail[id][i].after.idempotencyKey = key

-----------------------------------------------------------------------------
(* The first step of each handler: permissions of the route, the read of   *)
(* the scenario and every check made on it.                                *)

\* POST /rollover-scenarios.  The input is frozen from earlier reads.
StartCreate(w) ==
    /\ Free(w)
    /\ \E user \in Users, input \in Inputs :
          /\ HasPermission(RoleOf[user], "scenario.write")
          /\ Start(w, [Idle EXCEPT !.pc = "commit", !.user = user,
                                   !.input = input])

\* POST /rollover-scenarios/:id/simulate
LoadForSimulate(w) ==
    /\ Free(w)
    /\ \E user \in Users, id \in Ids, key \in Keys :
          LET row == scenarios[id]
              request == [Idle EXCEPT !.op = "simulate", !.user = user, !.id = id,
                                      !.key = key, !.row = row,
                                      !.repeat = Simulated(id, key)]
          IN  /\ HasPermission(RoleOf[user], "scenario.run")
              /\ \/ /\ ~Exists(id)
                    /\ Start(w, Outcome("notFound"))
                 \/ /\ Exists(id) /\ ~Owns(user, row)
                    /\ Start(w, Outcome("forbidden"))
                 \/ /\ Exists(id) /\ Owns(user, row)
                    /\ Start(w, Proceed(request, "findKey"))

\* The second read of a simulation: which scenario holds the key?
FindByIdempotencyKey(w) ==
    LET request == requests[w]
        holders == {id \in Existing :
                        scenarios[id].idempotencyKey = request.key}
    IN  /\ request.pc = "findKey"
        /\ \/ /\ holders = {}
              /\ request.row.scenarioState # "draft"
              /\ Answer(w, "onlyDraft")
           \/ /\ holders = {}
              /\ request.row.scenarioState = "draft"
              /\ requests' = [requests EXCEPT ![w].pc = "commit"]
           \/ /\ \E prior \in holders : prior # request.id
              /\ Answer(w, "keyBoundElsewhere")
           \/ /\ request.id \in holders
              /\ requests' = [requests EXCEPT ![w] =
                    [Answered(request, "reused") EXCEPT
                        !.row = scenarios[request.id]]]
        /\ UNCHANGED <<scenarios, trail, build, writes>>

\* POST /rollover-scenarios/:id/transition
LoadForTransition(w) ==
    /\ Free(w)
    /\ \E user \in Users, id \in Ids, to \in RequestableStates :
          LET row == scenarios[id]
              role == RoleOf[user]
              permission == IF to = "verified" THEN "scenario.verify"
                                               ELSE "scenario.write"
              permitted == HasPermission(role, permission)
              owned == to = "verified" \/ Owns(user, row)
              legal == CanTransitionScenario(row.scenarioState, to)
              separated == to # "verified" \/ ReviewerSeparated(user, row)
              request == [Idle EXCEPT !.op = "transition", !.user = user,
                                      !.id = id, !.to = to, !.row = row]
              Reply(answer) == Start(w, Outcome(answer))
          IN  /\ RequireAnyPermission(role, {"scenario.write", "scenario.verify"})
              /\ \/ /\ ~permitted /\ to # "verified"
                    /\ Reply("forbidden")
                 \/ /\ ~permitted /\ to = "verified" /\ Exists(id)
                    /\ Reply(IF row.createdBy = user THEN "reviewerConflict"
                                                     ELSE "forbidden")
                 \/ /\ permitted \/ to = "verified"
                    /\ ~Exists(id)
                    /\ Reply("notFound")
                 \/ /\ permitted /\ Exists(id) /\ ~owned
                    /\ Reply("forbidden")
                 \/ /\ permitted /\ Exists(id) /\ owned /\ ~legal
                    /\ Reply("illegalTransition")
                 \/ /\ permitted /\ Exists(id) /\ owned /\ legal /\ ~separated
                    /\ Reply("reviewerConflict")
                 \/ /\ permitted /\ Exists(id) /\ owned /\ legal /\ separated
                    /\ Start(w, Proceed(request, "commit"))

\* POST /rollover-scenarios/:id/replay
LoadForReplay(w) ==
    /\ Free(w)
    /\ \E user \in Users, id \in Ids :
          LET row == scenarios[id]
              request == [Idle EXCEPT !.op = "replay", !.user = user, !.id = id,
                                      !.row = row]
          IN  /\ HasPermission(RoleOf[user], "scenario.run")
              /\ \/ /\ ~Exists(id)
                    /\ Start(w, Outcome("notFound"))
                 \/ /\ Exists(id) /\ ~Owns(user, row)
                    /\ Start(w, Outcome("forbidden"))
                 \/ /\ Exists(id) /\ Owns(user, row)
                    /\ row.scenarioState = "draft"
                    /\ Start(w, Outcome("nothingToReplay"))
                 \/ /\ Exists(id) /\ Owns(user, row)
                    /\ row.scenarioState # "draft"
                    /\ Start(w, Proceed(request, "commit"))

-----------------------------------------------------------------------------
(* The transaction of each handler.                                        *)

\* Both writes commit: the row of id becomes row, and the audit record says
\* that the request turned before into after.
Commit(w, id, row, before, after) ==
    /\ writes < MaxWrites
    /\ scenarios' = [scenarios EXCEPT ![id] = row]
    /\ trail' = [trail EXCEPT ![id] =
           Append(@, [action |-> requests[w].op, actor |-> requests[w].user,
                      before |-> before, after |-> after])]
    /\ writes' = writes + 1
    /\ UNCHANGED build

Pending(w, op) == requests[w].pc = "commit" /\ requests[w].op = op

Fails(w, answer) ==
    /\ Answer(w, answer)
    /\ UNCHANGED <<scenarios, trail, build, writes>>

\* The unique indexes of the table: no two rows share a key (the empty one
\* included) or an input hash, which covers the algorithm version.
KeyTaken(id, key) ==
    \E other \in Existing \ {id} : scenarios[other].idempotencyKey = key

InputTaken(row) ==
    \E other \in Existing : /\ scenarios[other].input = row.input
                            /\ scenarios[other].version = row.version

CommitCreate(w) ==
    LET row == Draft(requests[w].user, requests[w].input)
    IN  /\ Pending(w, "create")
        /\ \E id \in Ids \ Existing :
              \/ /\ KeyTaken(id, NoKey) \/ InputTaken(row)
                 /\ Fails(w, "identicalExists")
              \/ /\ ~KeyTaken(id, NoKey) /\ ~InputTaken(row)
                 /\ Commit(w, id, row, AbsentRow, row)
                 /\ requests' = [requests EXCEPT ![w].pc = "respond",
                                                 ![w].id = id]

\* WHERE id = ? AND scenario_state = <from>
Matches_NoState(row, from) == TRUE  \* fault: WHERE id = ? only
Matches(row, from) == row.scenarioState = from

Complete(row, key) ==
    [row EXCEPT !.scenarioState = "simulated", !.idempotencyKey = key,
                !.result = build]

CommitSimulate(w) ==
    LET request == requests[w]
        current == scenarios[request.id]
    IN  /\ Pending(w, "simulate")
        /\ \/ /\ ~Matches(current, "draft")
              /\ Fails(w, "changedConcurrently")
           \/ /\ Matches(current, "draft")
              /\ KeyTaken(request.id, request.key)
              /\ Fails(w, "keyViolation")
           \/ /\ Matches(current, "draft")
              /\ ~KeyTaken(request.id, request.key)
              /\ Commit(w, request.id, Complete(current, request.key),
                        request.row, Complete(request.row, request.key))
              /\ requests' = [requests EXCEPT ![w].pc = "respond"]

\* faults: the verifier is stored by role; a reset wipes the result only
Moved_RoleStored(row, to, user) ==
    [row EXCEPT !.scenarioState = to,
                !.verifiedBy = IF to = "verified" THEN RoleOf[user] ELSE @]
Moved_ResultWiped(row, to, user) ==
    [row EXCEPT !.scenarioState = to,
                !.result = IF to = "draft" THEN NoBuild ELSE @,
                !.verifiedBy = IF to = "verified" THEN user ELSE @]
Moved(row, to, user) ==
    [row EXCEPT !.scenarioState = to,
                !.verifiedBy = IF to = "verified" THEN user ELSE @]

CommitTransition(w) ==
    LET request == requests[w]
        current == scenarios[request.id]
    IN  /\ Pending(w, "transition")
        /\ \/ /\ ~Matches(current, request.row.scenarioState)
              /\ Fails(w, "changedConcurrently")
           \/ /\ Matches(current, request.row.scenarioState)
              /\ Commit(w, request.id, Moved(current, request.to, request.user),
                        request.row,
                        Moved(request.row, request.to, request.user))
              /\ requests' = [requests EXCEPT ![w].pc = "respond"]

\* fault: the whole row is saved as it was read
Replayed_RowSaved(current, read, passed) ==
    [read EXCEPT !.replayVerified = passed]
Replayed(current, read, passed) == [current EXCEPT !.replayVerified = passed]

\* UPDATE ... WHERE id = ?, whatever has happened to the scenario since
CommitReplay(w) ==
    LET request == requests[w]
        passed == request.row.result = build
    IN  /\ Pending(w, "replay")
        /\ Commit(w, request.id,
                  Replayed(scenarios[request.id], request.row, passed),
                  request.row, [request.row EXCEPT !.replayVerified = passed])
        /\ requests' = [requests EXCEPT ![w] =
              IF passed THEN Proceed(request, "respond")
                        ELSE Outcome("replayDiffers")]

\* fault: without a transaction the move stays although its audit record fails
Abort_MoveStays(w) ==
    /\ requests[w].pc = "commit"
    /\ Answer(w, "internal")
    /\ scenarios' = [scenarios EXCEPT ![requests[w].id] =
           IF requests[w].op = "transition"
           THEN Moved(@, requests[w].to, requests[w].user) ELSE @]
    /\ UNCHANGED <<trail, build, writes>>

\* The transaction fails (audit insert, database, cancelled context) and
\* nothing of it remains.
Abort(w) ==
    /\ requests[w].pc = "commit"
    /\ Fails(w, "internal")

\* After its commit a handler reads the scenario again for the response.
Respond(w) ==
    /\ requests[w].pc = "respond"
    /\ \/ Answer(w, "internal")
       \/ requests' = [requests EXCEPT ![w] = Outcome("ok")]
    /\ UNCHANGED <<scenarios, trail, build, writes>>

\* The client has its answer, the goroutine ends.
Finish(w) ==
    /\ requests[w].pc = "answered"
    /\ requests' = [requests EXCEPT ![w] = Idle]
    /\ UNCHANGED <<scenarios, trail, build, writes>>

\* The server crashes or is redeployed, perhaps with another release of the
\* algorithm.  Requests in flight are lost, what has committed remains.
Restart ==
    /\ requests' = [w \in Workers |-> Idle]
    /\ build' \in Builds
    /\ UNCHANGED <<scenarios, trail, writes>>

-----------------------------------------------------------------------------
Init ==
    /\ scenarios = [id \in Ids |-> IF id = SeedId THEN SeedRow ELSE AbsentRow]
    /\ trail = [id \in Ids |-> << >>]
    /\ requests = [w \in Workers |-> Idle]
    /\ build = SeedBuild
    /\ writes = 0

Step(w) ==
    \/ StartCreate(w) \/ CommitCreate(w)
    \/ LoadForSimulate(w) \/ FindByIdempotencyKey(w) \/ CommitSimulate(w)
    \/ LoadForTransition(w) \/ CommitTransition(w)
    \/ LoadForReplay(w) \/ CommitReplay(w)
    \/ Abort(w) \/ Respond(w) \/ Finish(w)

Next == Restart \/ \E w \in Workers : Step(w)

Spec == Init /\ [][Next]_vars

-----------------------------------------------------------------------------
(* Properties.                                                             *)

\* Every variable keeps its type.
TypeOK ==
    /\ scenarios \in [Ids -> Row]
    /\ trail \in [Ids -> Seq(Entry)]
    /\ requests \in [Workers -> Request]
    /\ build \in Builds
    /\ writes \in Nat

\* Whatever two handlers do between each other's read and commit, a verified
\* scenario was verified by a user with that permission who did not create it,
\* and no other scenario names a verifier (Transition in the service, its
\* check ReviewerSeparated and the conditional update).
ReviewerSeparation ==
    \A id \in Ids :
        LET row == scenarios[id]
        IN  /\ row.scenarioState = "verified" <=> row.verifiedBy # NoUser
            /\ row.verifiedBy # NoUser =>
                  /\ row.verifiedBy # row.createdBy
                  /\ HasPermission(RoleOf[row.verifiedBy], "scenario.verify")

\* A scenario that is past draft holds the result of a simulation and the key
\* it ran under: no interleaving of resets, runs and promotions leads to a
\* ready, executing or verified rehearsal without evidence.
EvidenceBeforeApproval ==
    \A id \in Ids :
        scenarios[id].scenarioState \notin {"absent", "draft"} =>
            /\ scenarios[id].result # NoBuild
            /\ scenarios[id].idempotencyKey # NoKey

StateMoves(id) == {i \in DOMAIN trail[id] : trail[id][i].action # "replay"}

LegalMove(entry) ==
    CASE entry.action = "create" ->
            /\ entry.before.scenarioState = "absent"
            /\ entry.after.scenarioState = "draft"
      [] entry.action \in {"simulate", "transition"} ->
            CanTransitionScenario(entry.before.scenarioState,
                                  entry.after.scenarioState)
      [] OTHER -> TRUE

\* The audit log accounts for every change of state: each record is a legal
\* move, begins where the previous one of that scenario ended, and the last
\* one ends in the state the scenario is in.  Audit snapshots are taken from a
\* read made before the transaction, so this rests on the conditional updates
\* of CompleteSimulation and Transition.
AuditAccountsForState ==
    \A id \in Ids :
        /\ \A i \in StateMoves(id) : LegalMove(trail[id][i])
        /\ \A i, j \in StateMoves(id) :
              (i < j /\ \A k \in StateMoves(id) : k <= i \/ j <= k) =>
                  trail[id][j].before.scenarioState =
                  trail[id][i].after.scenarioState
        /\ \A i \in StateMoves(id) :
              (\A k \in StateMoves(id) : k <= i) =>
                  scenarios[id].scenarioState = trail[id][i].after.scenarioState

Last(id, action, i) ==
    /\ i \in DOMAIN trail[id] /\ trail[id][i].action = action
    /\ \A k \in DOMAIN trail[id] : trail[id][k].action = action => k <= i

\* The audit log also accounts for the evidence: the key and result a scenario
\* holds are those its last simulation recorded, and the replay flag is what its
\* last replay recorded, although a replay updates its scenario without a
\* condition (SetReplayVerified) and a reset to draft leaves all three in place.
AuditAccountsForEvidence ==
    \A id \in Ids : \A i \in DOMAIN trail[id] :
        LET recorded == trail[id][i].after
        IN  /\ Last(id, "simulate", i) =>
                  /\ scenarios[id].idempotencyKey = recorded.idempotencyKey
                  /\ scenarios[id].result = recorded.result
            /\ Last(id, "replay", i) =>
                  scenarios[id].replayVerified = recorded.replayVerified

\* The result a scenario was promoted with is the result it keeps: once ready
\* it cannot be simulated again, nor its frozen input, creator or key change,
\* without going back to draft first.
ApprovedResultIsFrozen ==
    [][\A id \in Ids :
          scenarios[id].scenarioState \in
                {"ready", "executing", "verified", "rollback"} =>
              /\ scenarios'[id].createdBy = scenarios[id].createdBy
              /\ scenarios'[id].input = scenarios[id].input
              /\ scenarios'[id].version = scenarios[id].version
              /\ scenarios'[id].idempotencyKey = scenarios[id].idempotencyKey
              /\ scenarios'[id].result = scenarios[id].result]_vars

\* A repeated simulation is answered without running it only for a scenario
\* that did run under that key (FindByIdempotencyKey): the answer shows the
\* stored result.
ReuseHasResult ==
    \A w \in Workers :
        requests[w].answer = "reused" =>
            /\ requests[w].row.result # NoBuild
            /\ \/ requests[w].id = SeedId /\ requests[w].key = SeedKey
               \/ Simulated(requests[w].id, requests[w].key)

LastActor(id) ==
    IF trail[id] = << >> THEN NoUser ELSE trail[id][Len(trail[id])].actor

\* The lifecycle of a scenario as its users know it.
Lifecycle ==
    INSTANCE ScenarioLifecycle
    WITH stage     <- [id \in Ids |-> scenarios[id].scenarioState],
         author    <- [id \in Ids |-> scenarios[id].createdBy],
         approver  <- [id \in Ids |-> scenarios[id].verifiedBy],
         lastActor <- [id \in Ids |-> LastActor(id)]

\* Handlers that read without locks and commit later implement the lifecycle
\* of the README: one legal move at a time, on record as made by a user who
\* was entitled to it when it took effect, not only when it was checked.
ImplementsLifecycle == Lifecycle!Spec

(* Statements of the documentation that this code does not meet.           *)

\* A refused creation was refused because of a scenario with the same frozen
\* input: "an identical frozen scenario already exists".
RefusedCreationIsIdentical ==
    \A w \in Workers :
        requests[w].answer = "identicalExists" =>
            \E id \in Existing : scenarios[id].input = requests[w].input

\* "repeated requests with the same key return the stored result": a key that
\* had already simulated this scenario is not answered with a conflict.
RepeatReturnsStoredResult ==
    \A w \in Workers :
        requests[w].repeat =>
            requests[w].answer \notin
                {"onlyDraft", "changedConcurrently", "keyBoundElsewhere"}

=============================================================================
