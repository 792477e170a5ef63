CONSTANTS
    NoThread = NoThread
    Threads = {t1, t2}
    BundleHashes = {b1, b2}
    CallbackBundles = {b1}
    MaxCalls = 2
SPECIFICATION FairSpec
PROPERTIES CallbackLoads
CHECK_DEADLOCK FALSE
