------------------------- MODULE MCDependencyGraph -------------------------
(* Two seeded services, once their dependencies have been removed, and two *)
(* of the seeded accounts, for TLC.  The other services depend on neither. *)
EXTENDS DependencyGraph, TLC

CONSTANTS operator, owner, w1, w2,  \* accounts and goroutines
          platform, payments,       \* the two teams that own services
          auth, api, extra          \* EDGE-AUTH, PAYMENTS-API, a new one

MCRoleOf == (operator :> "pki_operator") @@ (owner :> "service_owner")
MCTeamOf == (operator :> platform) @@ (owner :> payments)

MCInitialTeam == (auth :> platform) @@ (api :> payments)
MCInitialEdges == (auth :> {}) @@ (api :> {})

MCEdgeSets == {{}, {auth}, {api}, {extra}}

WorkerSymmetry == Permutations(Workers)

=============================================================================
