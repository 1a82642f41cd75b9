\* A guest that does not trap when it is called back; callbacks answer or panic.
CONSTANTS
    Payload = {empty, p}
    Empty = empty
    None = None
    MaxHostCalls = 2
    Faults = {"cancel", "callback_panic", "call_panic"}
SPECIFICATION FairSpec
PROPERTIES
    CallReturnsEventually
    HandlerEnds
    KeepsProtocol
CHECK_DEADLOCK FALSE
