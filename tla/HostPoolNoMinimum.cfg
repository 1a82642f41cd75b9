\* An entirely elastic pool.
CONSTANTS
    Callers = {c1}
    NoCall = NoCall
    min_threads = 0
    max_threads = 1
    Events = {}
SPECIFICATION FairSpec
PROPERTIES CallReturns
CHECK_DEADLOCK FALSE
