\* The administrator alone may both write and verify, so the seeded scenario,
\* which four writes take to verified, is the administrator's here.  (The code
\* seeds it for an operator, who may not verify anything.)
CONSTANTS
    operator = operator
    admin = admin
    owner = owner
    reviewer = reviewer
    w1 = w1
    w2 = w2
    Workers = {w1, w2}
    Users = {admin, owner, reviewer}
    RoleOf <- MCRoleOf
    Ids = {s1, s2}
    Inputs = {i1}
    Keys = {k1, k2}
    Builds = {b1, b2}
    NoUser = NoUser
    NoInput = NoInput
    NoKey = NoKey
    NoBuild = NoBuild
    SeedId = s1
    SeedUser = admin
    SeedInput = i1
    SeedKey = k1
    SeedBuild = b1
    MaxWrites = 4
SPECIFICATION Spec
SYMMETRY WorkerSymmetry
INVARIANTS
    TypeOK
    ReviewerSeparation
    AuditAccountsForState
    AuditAccountsForEvidence
    EvidenceBeforeApproval
    ReuseHasResult
PROPERTIES
    ApprovedResultIsFrozen
    ImplementsLifecycle
