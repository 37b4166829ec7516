\* Violated: two concurrent updates close a cycle.
CONSTANTS
    operator = operator
    owner = owner
    w1 = w1
    w2 = w2
    platform = platform
    payments = payments
    auth = auth
    api = api
    extra = extra
    Workers = {w1, w2}
    Users = {operator, owner}
    RoleOf <- MCRoleOf
    Teams = {platform, payments}
    TeamOf <- MCTeamOf
    Ids = {auth, api, extra}
    EdgeSets <- MCEdgeSets
    NoUser = NoUser
    NoTeam = NoTeam
    InitialTeam <- MCInitialTeam
    InitialEdges <- MCInitialEdges
    ReadsFail = FALSE
    MaxWrites = 2
SPECIFICATION Spec
SYMMETRY WorkerSymmetry
INVARIANTS
    StoredGraphIsAcyclic
