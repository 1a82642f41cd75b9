\* Shutting down a pool that has a core worker.
CONSTANTS
    Callers = {c1}
    NoCall = NoCall
    min_threads = 1
    max_threads = 2
    Events = {"shutdown"}
SPECIFICATION FairSpec
PROPERTIES ShutdownReturns
CHECK_DEADLOCK FALSE
