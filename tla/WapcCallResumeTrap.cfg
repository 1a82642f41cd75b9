\* The guest traps when the handler calls it back.
CONSTANTS
    Payload = {empty, p}
    Empty = empty
    None = None
    MaxHostCalls = 2
    Faults = {"resume_trap"}
SPECIFICATION FairSpec
PROPERTIES
    CallReturnsEventually
CHECK_DEADLOCK FALSE
