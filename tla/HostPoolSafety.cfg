\* One core worker and room for one more; four calls, so that two of them can
\* find room to grow while both the channel and the worker are occupied.
CONSTANTS
    Callers = {c1, c2, c3, c4}
    NoCall = NoCall
    min_threads = 1
    max_threads = 2
    Events = {"cancel", "panic", "nested", "shutdown"}
SYMMETRY CallerSymmetry
SPECIFICATION Spec
INVARIANTS
    TypeOK
    ExactlyOnce
\* All calls are made, or a call waits on a pool that has no worker left.
CHECK_DEADLOCK FALSE
