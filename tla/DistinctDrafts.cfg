\* Violated: a second draft with another input is refused as identical.
CONSTANTS
    operator = operator
    admin = admin
    owner = owner
    reviewer = reviewer
    w1 = w1
    w2 = w2
    Workers = {w1, w2}
    Users = {operator}
    RoleOf <- MCRoleOf
    Ids = {s1, s2, s3}
    Inputs = {i1, i2, i3}
    Keys = {k1}
    Builds = {b1}
    NoUser = NoUser
    NoInput = NoInput
    NoKey = NoKey
    NoBuild = NoBuild
    SeedId = s1
    SeedUser = operator
    SeedInput = i1
    SeedKey = k1
    SeedBuild = b1
    MaxWrites = 2
SPECIFICATION Spec
SYMMETRY WorkerSymmetry
INVARIANTS
    RefusedCreationIsIdentical
