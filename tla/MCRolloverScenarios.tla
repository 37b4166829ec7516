------------------------- MODULE MCRolloverScenarios -------------------------
(* Instances of RolloverScenarios for TLC.                                 *)
EXTENDS RolloverScenarios, TLC

CONSTANTS operator, admin, owner, reviewer, w1, w2

MCRoleOf ==
    [u \in Users |-> CASE u = operator -> "pki_operator"
                       [] u = admin    -> "admin"
                       [] u = owner    -> "service_owner"
                       [] u = reviewer -> "security_reviewer"]

\* Goroutines are interchangeable.
WorkerSymmetry == Permutations({w1, w2})

=============================================================================
