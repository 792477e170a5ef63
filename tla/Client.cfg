CONSTANTS
    Requests = {}
    Updates = {}
    Bridged = {}
    Scenarios <- MCScenarios
    MaxConn = 3
SPECIFICATION ClientSpec
PROPERTIES Reconnects DisconnectIsExit
CHECK_DEADLOCK FALSE
