-------------------------- MODULE ScenarioLifecycle --------------------------
(***************************************************************************)
(* What the API promises about the life of rollover scenarios, without     *)
(* requests, reads, transactions or an audit log: every step moves one     *)
(* scenario along the documented state machine, or replays it, and is on   *)
(* record as made by a user who is entitled to make it.  RolloverScenarios *)
(* implements it.                                                          *)
(***************************************************************************)
EXTENDS Access, ScenarioStates

CONSTANTS Users, RoleOf, Ids, NoUser, SeedId, SeedUser

VARIABLES
    stage,      \* the state of each scenario, "absent" before it is created
    author,     \* who created it
    approver,   \* who verified it
    lastActor   \* who is on record for the last change

lifecycle == <<stage, author, approver, lastActor>>

Manages(user, id) ==
    \/ RoleOf[user] \in PKIAdministrators
    \/ author[id] = user

MoveTo(id, to) == stage' = [stage EXCEPT ![id] = to]
SignedBy(user, id) == lastActor' = [lastActor EXCEPT ![id] = user]

Create(id, user) ==
    /\ stage[id] = "absent"
    /\ HasPermission(RoleOf[user], "scenario.write")
    /\ MoveTo(id, "draft")
    /\ SignedBy(user, id)
    /\ author' = [author EXCEPT ![id] = user]
    /\ UNCHANGED approver

\* A simulation, a promotion, a rollback or a reset to draft.
Advance(id, user, to) ==
    /\ stage[id] # "absent" /\ to # "verified"
    /\ CanTransitionScenario(stage[id], to)
    /\ Manages(user, id)
    /\ HasPermission(RoleOf[user], "scenario.write")
    /\ MoveTo(id, to)
    /\ SignedBy(user, id)
    /\ UNCHANGED <<author, approver>>

Verify(id, user) ==
    /\ stage[id] = "executing"
    /\ author[id] # user
    /\ HasPermission(RoleOf[user], "scenario.verify")
    /\ MoveTo(id, "verified")
    /\ SignedBy(user, id)
    /\ approver' = [approver EXCEPT ![id] = user]
    /\ UNCHANGED author

\* Recomputes the stored result; the scenario stays where it is.
Replay(id, user) ==
    /\ stage[id] # "absent"
    /\ Manages(user, id)
    /\ HasPermission(RoleOf[user], "scenario.run")
    /\ SignedBy(user, id)
    /\ UNCHANGED <<stage, author, approver>>

Init ==
    /\ stage = [id \in Ids |-> IF id = SeedId THEN "simulated" ELSE "absent"]
    /\ author = [id \in Ids |-> IF id = SeedId THEN SeedUser ELSE NoUser]
    /\ approver = [id \in Ids |-> NoUser]
    /\ lastActor = [id \in Ids |-> NoUser]

Next ==
    \E id \in Ids, user \in Users :
        \/ Create(id, user)
        \/ \E to \in ScenarioStateValues : Advance(id, user, to)
        \/ Verify(id, user)
        \/ Replay(id, user)

Spec == Init /\ [][Next]_lifecycle

=============================================================================
