\* Two concurrent requests on anchors and chains while time passes.
CONSTANTS
    operator = operator
    w1 = w1
    w2 = w2
    legacy = legacy
    next = next
    partner = partner
    tlsLegacy = tlsLegacy
    tlsNext = tlsNext
    tlsA = tlsA
    tlsB = tlsB
    oldRoot = oldRoot
    newRoot = newRoot
    oldLeaf = oldLeaf
    newLeaf = newLeaf
    otherRoot = otherRoot
    leaf = leaf
    issuing = issuing
    crossed = crossed
    Workers = {w1, w2}
    Users = {operator}
    RoleOf <- MCRoleOf
    Anchors = {legacy, next, partner}
    Chains = {tlsLegacy, tlsNext, tlsA, tlsB}
    Certificates = {oldRoot, newRoot, oldLeaf, newLeaf, otherRoot, leaf, issuing, crossed}
    Content <- MCContent
    Notice = 3
    AnchorImports <- MCAnchorImports
    ChainImports <- MCChainImports
    NoUser = NoUser
    NoCertificate = NoCertificate
    NoAnchor = NoAnchor
    FirstAnchors <- MCFirstAnchors
    FirstChains <- MCFirstChains
    Instants = {36, 40}
    MaxWrites = 3
SPECIFICATION Spec
SYMMETRY WorkerSymmetry
INVARIANTS
    TypeOK
    AuditAccountsForAnchors
    AuditAccountsForChains
    OverlapIsVerified
    BundlesAreStoredOnce
PROPERTIES
    RevocationIsFinal
    ShownStateOnlyWorsens
    RestoreWasOvertaken
