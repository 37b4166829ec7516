------------------------------- MODULE Access -------------------------------
(***************************************************************************)
(* Roles and permissions of the API                                        *)
(* (backend/internal/constants/roles.go, backend/internal/middleware/      *)
(* rbac.go).  A route names the permissions it accepts; a request whose    *)
(* role has none of them is refused with 403 before any handler runs.      *)
(***************************************************************************)

Roles ==
    {"admin", "pki_operator", "service_owner", "security_reviewer", "auditor"}

\* Every permission but the ones that verify and that read the audit log.
OperatorPermissions ==
    {"read", "anchor.write", "chain.write", "dependency.write",
     "scenario.write", "scenario.run"}

Permissions == OperatorPermissions \cup {"scenario.verify", "audit.read"}

permissions ==
    [admin             |-> Permissions,
     pki_operator      |-> OperatorPermissions,
     service_owner     |-> {"read", "dependency.write", "scenario.write",
                            "scenario.run"},
     security_reviewer |-> {"read", "scenario.verify", "audit.read"},
     auditor           |-> {"read", "audit.read"}]

HasPermission(role, permission) == permission \in permissions[role]

RequireAnyPermission(role, accepted) ==
    \E permission \in accepted : HasPermission(role, permission)

\* The roles that may manage what other users created.
PKIAdministrators == {"admin", "pki_operator"}

=============================================================================
