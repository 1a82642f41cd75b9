\* Two invocations, three host calls, and everything that users of the library
\* may do.
CONSTANTS
    Invocations = {i1, i2}
    NoCall = NoCall
    MaxHostCalls = 3
    Events = {"join", "detach", "yield", "refuse", "early", "register",
              "no_dispatcher"}
SPECIFICATION Spec
INVARIANTS
    TypeOK
    OpenCallHasSender
    NeverWaitsInVain
    ResolvedByOwnAnswer
\* The guest may trap, or loop in exhaust_tasks with nothing to poll.
CHECK_DEADLOCK FALSE
