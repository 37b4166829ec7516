\* A gap between the times that are evaluated.
CONSTANTS
    api = api
    worker = worker
    AnchorIds = {1, 2}
    ChainIds = {1, 2}
    ServiceIds = {1, 2, 3}
    LeafSubjects = {api, worker}
    Configs <- MCConfigs
    ChainTables <- MCChainTables
    ServiceTables <- MCServiceTables
SPECIFICATION Spec
INVARIANTS
    SilenceMeansReachable
CHECK_DEADLOCK FALSE
