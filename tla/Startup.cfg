CONSTANTS
    MaxVersion = 3
    MaxAttempts = 3
    Absent = Absent
    Configs <- MCConfigs
SPECIFICATION FairSpec
INVARIANTS TypeOK ExecutableSound HandlersFindServices
PROPERTIES NeverDowngraded RestartKeepsToken ChecksEnd
CHECK_DEADLOCK FALSE
