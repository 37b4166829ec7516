--------------------------- MODULE DependencyGraph ---------------------------
(***************************************************************************)
(* The dependent services and the graph of their dependencies: the         *)
(* handlers that register, change and deactivate a service, run            *)
(* concurrently over one database                                          *)
(* (backend/internal/service/dependent_service_service.go and the          *)
(* repository, handler, router, dto and model files of the same name).     *)
(*                                                                         *)
(* A handler makes up to three reads, each a step of its own: the service, *)
(* all services to validate the references, all services again to look for *)
(* a cycle.  Then it commits its update with its audit record.  A service  *)
(* is named by its code, which is unique and never changes.                *)
(***************************************************************************)
EXTENDS Access, CycleDetection, Integers, Sequences

CONSTANTS
    Workers,     \* goroutines that serve requests
    Users,       \* authenticated users
    RoleOf,      \* the role of each user
    Teams,       \* teams that own services
    TeamOf,      \* the team of each user
    Ids,         \* service codes
    EdgeSets,    \* sets of dependencies a request can name
    NoUser, NoTeam,
    InitialTeam, \* the services that exist at first and their teams
    InitialEdges,\* and their dependencies
    ReadsFail,   \* whether the reads of a handler may fail
    MaxWrites    \* bound on committed transactions

ASSUME RolesAssumption ==
    RoleOf \in [Users -> Roles] /\ TeamOf \in [Users -> Teams]

ASSUME NullAssumption == NoUser \notin Users /\ NoTeam \notin Teams

ASSUME GraphAssumption ==
    Ids # {} /\ EdgeSets \subseteq SUBSET Ids /\ {} \in EdgeSets

ASSUME InitialAssumption ==
    /\ DOMAIN InitialTeam \subseteq Ids
    /\ InitialTeam \in [DOMAIN InitialTeam -> Teams]
    /\ InitialEdges \in [DOMAIN InitialTeam -> EdgeSets]
    /\ \A id \in DOMAIN InitialTeam : InitialEdges[id] \subseteq DOMAIN InitialTeam \ {id}
    /\ ~Cyclic(InitialEdges)

ASSUME BoundsAssumption == MaxWrites \in Nat /\ ReadsFail \in BOOLEAN

VARIABLES
    services,    \* the table: a row for every code
    trail,       \* per service, its rows of the audit log in order
    requests,    \* what each goroutine is doing
    writes       \* committed transactions so far

vars == <<services, trail, requests, writes>>

-----------------------------------------------------------------------------
(* Rows.  Name, environment, protocol and the chain a service presents are *)
(* left out: nothing here decides on them.                                 *)

Row ==
    [serviceState    : {"absent", "active", "inactive"},
     ownerTeam       : Teams \cup {NoTeam},
     dependencyEdges : EdgeSets]

AbsentRow ==
    [serviceState |-> "absent", ownerTeam |-> NoTeam, dependencyEdges |-> {}]

Active(team, edges) ==
    [serviceState |-> "active", ownerTeam |-> team, dependencyEdges |-> edges]

Known == {id \in Ids : services[id].serviceState # "absent"}

Operations == {"create", "update", "deactivate"}
Entry == [action : Operations, actor : Users, before : Row, after : Row]

-----------------------------------------------------------------------------
(* Requests.                                                               *)

Answers ==
    {"none", "ok", "forbidden", "notFound", "cannotTransfer", "invalidReference",
     "dependsOnItself", "cyclic", "codeExists", "alreadyInactive",
     "changedConcurrently", "internal"}

Request ==
    [pc        : {"idle", "validate", "check", "commit", "respond", "answered"},
     op        : Operations,
     user      : Users \cup {NoUser},
     id        : Ids,
     team      : Teams \cup {NoTeam},
     edges     : EdgeSets,
     row       : Row,        \* the service as this handler read it
     answer    : Answers,
     overtaken : BOOLEAN]    \* history: the cycle check is not of this graph

Idle ==
    [pc |-> "idle", op |-> "create", user |-> NoUser,
     id |-> CHOOSE id \in Ids : TRUE, team |-> NoTeam, edges |-> {},
     row |-> AbsentRow, answer |-> "none", overtaken |-> FALSE]

\* A new request arrives only while the bound allows it to commit.
Free(w) == requests[w].pc = "idle" /\ writes < MaxWrites

Become(w, request) ==
    /\ requests' = [requests EXCEPT ![w] = request]
    /\ UNCHANGED <<services, trail, writes>>

Outcome(answer) == [Idle EXCEPT !.pc = "answered", !.answer = answer]

Refuse(w, answer) == Become(w, Outcome(answer))

OwnsService(user, team) ==
    \/ RoleOf[user] \in PKIAdministrators
    \/ RoleOf[user] = "service_owner" /\ TeamOf[user] = team

\* fault: owners may hand their service to another team
KeepsTeam_Transfers(user, team) == TRUE
KeepsTeam(user, team) == RoleOf[user] = "service_owner" => team = TeamOf[user]

-----------------------------------------------------------------------------
(* The reads of each handler and the checks made on them.                  *)

\* POST /dependent-services
StartCreate(w) ==
    /\ Free(w)
    /\ \E user \in Users, id \in Ids, team \in Teams, edges \in EdgeSets :
          /\ HasPermission(RoleOf[user], "dependency.write")
          /\ \/ /\ ~OwnsService(user, team)
                /\ Refuse(w, "forbidden")
             \/ /\ OwnsService(user, team)
                /\ Become(w, [Idle EXCEPT !.pc = "validate", !.user = user,
                                 !.id = id, !.team = team, !.edges = edges])

\* PUT /dependent-services/:id
LoadForUpdate(w) ==
    /\ Free(w)
    /\ \E user \in Users, id \in Ids, team \in Teams, edges \in EdgeSets :
          LET row == services[id]
              request == [Idle EXCEPT !.pc = "validate", !.op = "update",
                              !.user = user, !.id = id, !.team = team,
                              !.edges = edges, !.row = row]
          IN  /\ HasPermission(RoleOf[user], "dependency.write")
              /\ \/ /\ id \notin Known
                    /\ Refuse(w, "notFound")
                 \/ /\ id \in Known /\ ~OwnsService(user, row.ownerTeam)
                    /\ Refuse(w, "forbidden")
                 \/ /\ id \in Known /\ OwnsService(user, row.ownerTeam)
                    /\ ~KeepsTeam(user, team)
                    /\ Refuse(w, "cannotTransfer")
                 \/ /\ id \in Known /\ OwnsService(user, row.ownerTeam)
                    /\ KeepsTeam(user, team)
                    /\ Become(w, request)

\* POST /dependent-services/:id/deactivate
LoadForDeactivate(w) ==
    /\ Free(w)
    /\ \E user \in Users, id \in Ids :
          LET row == services[id]
              request == [Idle EXCEPT !.pc = "commit", !.op = "deactivate",
                              !.user = user, !.id = id, !.row = row]
          IN  /\ HasPermission(RoleOf[user], "dependency.write")
              /\ \/ /\ id \notin Known
                    /\ Refuse(w, "notFound")
                 \/ /\ id \in Known /\ ~OwnsService(user, row.ownerTeam)
                    /\ Refuse(w, "forbidden")
                 \/ /\ id \in Known /\ OwnsService(user, row.ownerTeam)
                    /\ row.serviceState # "active"
                    /\ Refuse(w, "alreadyInactive")
                 \/ /\ id \in Known /\ OwnsService(user, row.ownerTeam)
                    /\ row.serviceState = "active"
                    /\ Become(w, request)

\* The chain, the trust anchors and the dependencies a request names exist.
\* Chains and anchors are not part of this module: the reads of them may fail.
Referable_Anything(edges) == TRUE  \* fault: dependencies are not looked up
Referable(edges) == edges \subseteq Known

DependsOnItself(request) == request.op = "update" /\ request.id \in request.edges

ValidateReferences(w) ==
    LET request == requests[w]
    IN  /\ request.pc = "validate"
        /\ \/ Refuse(w, "invalidReference")
           \/ /\ DependsOnItself(request)
              /\ Refuse(w, "dependsOnItself")
           \/ /\ ~DependsOnItself(request) /\ Referable(request.edges)
              /\ Become(w, [request EXCEPT !.pc = "check"])

\* A registration adds a service nobody depends on yet, so it only asks about
\* the graph as it is; an update asks about the graph with its own edges.
Candidate(request, read) ==
    [id \in read |-> IF request.op = "update" /\ id = request.id
                     THEN request.edges ELSE services[id].dependencyEdges]

\* A failing read is ignored: the check then sees no services at all.  It
\* also refuses a dependency on a service it does not see.
Rejected_OnlySelf(request, read) == request.id \in request.edges  \* fault
Rejected(request, read) ==
    LET graph == Candidate(request, read)
    IN  \/ Cyclic(graph)
        \/ \E id \in read : ~(graph[id] \subseteq read)
        \/ request.op = "create" /\ ~(request.edges \subseteq read)

CheckForCycle(w) ==
    LET request == requests[w]
    IN  /\ request.pc = "check"
        /\ \E read \in {Known} \cup (IF ReadsFail THEN {{}} ELSE {}) :
              \/ /\ Rejected(request, read)
                 /\ Refuse(w, "cyclic")
              \/ /\ ~Rejected(request, read)
                 /\ Become(w, [request EXCEPT !.pc = "commit",
                                              !.overtaken = read # Known])

-----------------------------------------------------------------------------
(* The transaction of each handler.                                        *)

Pending(w, op) == requests[w].pc = "commit" /\ requests[w].op = op

\* Both writes commit.  Other handlers that wait to commit may have checked a
\* graph that is no longer the stored one.
Commit(w, row, before, after) ==
    LET request == requests[w]
        id == request.id
    IN  /\ writes < MaxWrites
        /\ services' = [services EXCEPT ![id] = row]
        /\ trail' = [trail EXCEPT ![id] =
               Append(@, [action |-> request.op, actor |-> request.user,
                          before |-> before, after |-> after])]
        /\ writes' = writes + 1
        /\ requests' = [v \in Workers |->
               IF v = w THEN [Idle EXCEPT !.pc = "respond"]
               ELSE [requests[v] EXCEPT
                       !.overtaken = \/ @
                                     \/ /\ requests[v].pc = "commit"
                                        /\ services'[id].dependencyEdges #
                                           services[id].dependencyEdges]]

\* The code of a service is unique.
CommitCreate(w) ==
    LET request == requests[w]
        row == Active(request.team, request.edges)
    IN  /\ Pending(w, "create")
        /\ \/ /\ request.id \in Known
              /\ Refuse(w, "codeExists")
           \/ /\ request.id \notin Known
              /\ Commit(w, row, AbsentRow, row)

\* UPDATE ... WHERE id = ?: every column a request carries, whatever has
\* happened to the service since it was read.
Updated(row, request) ==
    [row EXCEPT !.ownerTeam = request.team, !.dependencyEdges = request.edges]

CommitUpdate(w) ==
    LET request == requests[w]
    IN  /\ Pending(w, "update")
        /\ Commit(w, Updated(services[request.id], request),
                  request.row, Updated(request.row, request))

\* WHERE id = ? AND service_state = 'active'
StillActive_Unchecked(id) == TRUE  \* fault: WHERE id = ? only
StillActive(id) == services[id].serviceState = "active"

Deactivated_Disabled(row) == [row EXCEPT !.serviceState = "disabled"]  \* fault
Deactivated(row) == [row EXCEPT !.serviceState = "inactive"]

CommitDeactivate(w) ==
    LET request == requests[w]
    IN  /\ Pending(w, "deactivate")
        /\ \/ /\ ~StillActive(request.id)
              /\ Refuse(w, "changedConcurrently")
           \/ /\ StillActive(request.id)
              /\ Commit(w, Deactivated(services[request.id]),
                        request.row, Deactivated(request.row))

\* The transaction fails and nothing of it remains.
Abort(w) == requests[w].pc = "commit" /\ Refuse(w, "internal")

\* After its commit a handler reads the service again for the response.
Respond(w) ==
    /\ requests[w].pc = "respond"
    /\ \E answer \in {"ok", "internal"} : Refuse(w, answer)

Finish(w) == requests[w].pc = "answered" /\ Become(w, Idle)

\* The server crashes: requests in flight are lost, what has committed stays.
Restart ==
    /\ requests' = [w \in Workers |-> Idle]
    /\ UNCHANGED <<services, trail, writes>>

-----------------------------------------------------------------------------
Init ==
    /\ services = [id \in Ids |-> IF id \in DOMAIN InitialTeam
                                  THEN Active(InitialTeam[id], InitialEdges[id])
                                  ELSE AbsentRow]
    /\ trail = [id \in Ids |-> << >>]
    /\ requests = [w \in Workers |-> Idle]
    /\ writes = 0

Step(w) ==
    \/ StartCreate(w) \/ LoadForUpdate(w) \/ LoadForDeactivate(w)
    \/ ValidateReferences(w) \/ CheckForCycle(w)
    \/ CommitCreate(w) \/ CommitUpdate(w) \/ CommitDeactivate(w)
    \/ Abort(w) \/ Respond(w) \/ Finish(w)

Next == Restart \/ \E w \in Workers : Step(w)

Spec == Init /\ [][Next]_vars

-----------------------------------------------------------------------------
(* Properties.                                                             *)

Stored == [id \in Known |-> services[id].dependencyEdges]

\* Every variable keeps its type.
TypeOK ==
    /\ services \in [Ids -> Row]
    /\ trail \in [Ids -> Seq(Entry)]
    /\ requests \in [Workers -> Request]
    /\ writes \in Nat

\* Whatever is registered, changed and lost on the way, a service depends on
\* services that exist and never on itself (validateReferences reads the table
\* long before the update, but services are never deleted).
GraphIsClosed ==
    \A id \in Known : services[id].dependencyEdges \subseteq Known \ {id}

\* An update closes a cycle only when its handler checked another graph than
\* the stored one: an edge changed between its check and its commit, or the
\* read of the check failed (Update ignores that error).
CyclesNeedAnOvertakenCheck ==
    [][~Cyclic(Stored) /\ Cyclic(Stored)' =>
          \E w \in Workers : /\ Pending(w, "update")
                             /\ requests[w].overtaken
                             /\ requests'[w].pc = "respond"]_vars

\* An inactive service stays inactive, also under updates that were checked
\* while it was active, and its audit log says exactly once who deactivated it.
DeactivatedOnce ==
    \A id \in Ids :
        LET deactivations == {i \in DOMAIN trail[id] :
                                 trail[id][i].action = "deactivate"}
        IN  /\ services[id].serviceState = "inactive" <=> deactivations # {}
            /\ \A i, j \in deactivations : i = j

\* This step commits a service owner's request.
CommitsForOwner(w) ==
    /\ requests[w].pc = "commit" /\ requests'[w].pc = "respond"
    /\ RoleOf[requests[w].user] = "service_owner"

\* A service owner never gives a service away: after a service owner registers
\* or changes a service it belongs to the owner's team, whoever it belonged to
\* when the change took effect.
OwnersDoNotTransfer ==
    [][\A w \in Workers :
          LET request == requests[w]
          IN  request.op # "deactivate" /\ CommitsForOwner(w) =>
                 services'[request.id].ownerTeam = TeamOf[request.user]]_vars

(* A statement of the code that its handlers do not meet.                  *)

\* A request that would close a cycle is refused: "dependency graph would be
\* cyclic".
StoredGraphIsAcyclic == ~Cyclic(Stored)

=============================================================================
