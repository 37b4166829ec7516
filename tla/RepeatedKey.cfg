\* Violated: a key that simulated the scenario is answered with a conflict.
CONSTANTS
    operator = operator
    admin = admin
    owner = owner
    reviewer = reviewer
    w1 = w1
    w2 = w2
    Workers = {w1}
    Users = {operator}
    RoleOf <- MCRoleOf
    Ids = {s1}
    Inputs = {i1}
    Keys = {k1, k2, k3}
    Builds = {b1}
    NoUser = NoUser
    NoInput = NoInput
    NoKey = NoKey
    NoBuild = NoBuild
    SeedId = s1
    SeedUser = operator
    SeedInput = i1
    SeedKey = k1
    SeedBuild = b1
    MaxWrites = 6
SPECIFICATION Spec
INVARIANTS
    RepeatReturnsStoredResult
