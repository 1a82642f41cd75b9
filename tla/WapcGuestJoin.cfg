\* One task with two host calls in flight.
CONSTANTS
    Invocations = {i1}
    NoCall = NoCall
    MaxHostCalls = 2
    Events = {"join"}
SPECIFICATION FairSpec
PROPERTIES InvocationAnswered
CHECK_DEADLOCK FALSE
