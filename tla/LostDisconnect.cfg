CONSTANTS
    Requests = {}
    Updates = {}
    Bridged = {}
    Scenarios <- MCReaderFails
    MaxConn = 2
SPECIFICATION FairSpec
PROPERTY Reconnects
CHECK_DEADLOCK FALSE
