CONSTANTS
    Requests = {r1}
    Updates = {u1}
    Bridged = {r1}
    Scenarios <- MCScenarios
    MaxConn = 2
SPECIFICATION Spec
INVARIANTS NoOrphanedRequest NoLeakedPromise  OneShot
CHECK_DEADLOCK FALSE
