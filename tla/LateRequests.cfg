\* Requests that are counted up to half a minute after they read the clock.
CONSTANTS
    trustAnchorImport = trustAnchorImport
    here = here
    there = there
    w1 = w1
    w2 = w2
    Workers = {w1, w2}
    Scopes = {trustAnchorImport}
    Clients = {here, there}
    ConfiguredLimit = 2
    Minute = 2
    MaxDelay = 1
    MaxTime = 5
    MaxRequests = 8
SPECIFICATION Spec
SYMMETRY Symmetry
INVARIANTS
    TypeOK
    AdmissionsAreBounded
    TableIsSwept
PROPERTIES
    RefusalIsEarned
