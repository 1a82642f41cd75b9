\* Tasks that await one host call at a time.
CONSTANTS
    Invocations = {i1, i2}
    NoCall = NoCall
    MaxHostCalls = 3
    Events = {}
SPECIFICATION FairSpec
INVARIANTS
    NeverTraps
    QuietAtHost
PROPERTIES
    InvocationAnswered
    KeepsProtocol
\* All invocations are answered.
CHECK_DEADLOCK FALSE
