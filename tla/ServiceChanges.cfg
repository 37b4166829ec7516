\* Two concurrent changes of the seeded graph and registrations.
CONSTANTS
    operator = operator
    owner = owner
    w1 = w1
    w2 = w2
    platform = platform
    payments = payments
    auth = auth
    api = api
    extra = extra
    Workers = {w1, w2}
    Users = {operator, owner}
    RoleOf <- MCRoleOf
    Teams = {platform, payments}
    TeamOf <- MCTeamOf
    Ids = {auth, api, extra}
    EdgeSets <- MCEdgeSets
    NoUser = NoUser
    NoTeam = NoTeam
    InitialTeam <- MCInitialTeam
    InitialEdges <- MCInitialEdges
    ReadsFail = TRUE
    MaxWrites = 2
SPECIFICATION Spec
SYMMETRY WorkerSymmetry
INVARIANTS
    TypeOK
    GraphIsClosed
    DeactivatedOnce
PROPERTIES
    CyclesNeedAnOvertakenCheck
    OwnersDoNotTransfer
