\* Every fault at once, two host calls, an empty and a non-empty answer.
CONSTANTS
    Payload = {empty, p}
    Empty = empty
    None = None
    MaxHostCalls = 2
    Faults = {"cancel", "resume_trap", "callback_panic", "call_panic",
              "resume_panic"}
SPECIFICATION Spec
INVARIANTS
    TypeOK
    GuestNotReentered
    NotifiedIsStored
    NotifiedExactlyOnce
    OpenInvocationInTable
    ResultMatchesGuest
PROPERTIES HostReplyStable
\* A guest that traps in the handler or a callback that panics leaves the
\* caller waiting for ever.
CHECK_DEADLOCK FALSE
