\* A server that is killed, fails, is stopped and started again.
CONSTANTS
    r1 = r1
    r2 = r2
    Requests = {r1, r2}
    Accounts = 2
    MaxOpenConns = 1
    MaxIncidents = 4
SPECIFICATION Spec
INVARIANTS
    TypeOK
    SeededBeforeServing
    ChangesAreDurable
PROPERTIES
    RequestsEnd
    StartsAndStops
CHECK_DEADLOCK FALSE
