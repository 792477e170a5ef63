CONSTANTS
    MaxVersion = 3
    MaxAttempts = 3
    Absent = Absent
    Configs <- MCConfigs
SPECIFICATION Spec
INVARIANTS UpdateRestarts
CHECK_DEADLOCK FALSE
