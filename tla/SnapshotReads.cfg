\* One creation after another while up to three commits overtake them.
CONSTANTS
    AnchorIds = {1, 2, 3}
    ChainIds = {1, 2, 3, 4}
    ServiceIds = {1, 2, 3}
    Requests <- MCRequests
    Times = {5, 10, 20}
    PageSize = 2
    FirstAnchors <- MCFirstAnchors
    FirstChains <- MCFirstChains
    FirstServices <- MCFirstServices
    MaxCommits = 3
SPECIFICATION Spec
INVARIANTS
    TypeOK
    MissingChainsExpireLast
    QuietSnapshotIsTheModel
