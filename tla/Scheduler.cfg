CONSTANTS
    Sources = {s1}
    Threads = {t1}
    MaxConsecutive = 2
    MaxLen = 1
    MaxConn = 3
SPECIFICATION FairSpec
INVARIANTS TypeOK NotStranded
PROPERTIES MediumServed
CHECK_DEADLOCK FALSE
