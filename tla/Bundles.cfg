CONSTANTS
    NoThread = NoThread
    NoBundle = NoBundle
    Threads = {t1, t2}
    BundleHashes = {b1, b2}
    CallbackBundles = {b1}
    MaxCalls = 2
SPECIFICATION CallsFairSpec
INVARIANTS CallsTypeOK LoadedOnce GilReleased ReferencesBalanced ErrorsHandled LinesAttributed
PROPERTIES CallsReturn
CHECK_DEADLOCK FALSE
