CONSTANTS
    MaxSize = 2
    MaxMsgs = 3
SPECIFICATION FairSpec
INVARIANTS TypeOK InOrder CleanIsComplete FailureAnnounced
PROPERTIES ImplementsTransfer Finishes
CHECK_DEADLOCK FALSE
