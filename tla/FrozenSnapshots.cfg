\* Every snapshot of small tables, every order of the search.
CONSTANTS
    api = api
    worker = worker
    AnchorIds = {1, 2}
    ChainIds = {1, 2}
    ServiceIds = {1, 2, 3}
    LeafSubjects = {api, worker}
    Configs <- MCConfigs
    ChainTables <- MCChainTables
    ServiceTables <- MCServiceTables
SPECIFICATION Spec
INVARIANTS
    SearchDecidesCycles
    EvidenceIsExact
    BrokenPathsAreWitnesses
    OverlapBreaksNothing
PROPERTIES
    SearchEnds
CHECK_DEADLOCK FALSE
