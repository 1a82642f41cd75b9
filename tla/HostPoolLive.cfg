\* Two core workers, so that one can be lost and both can wait for nested calls,
\* and room for one more; three calls, so that two of them can find room to grow
\* while the first is in the channel.
CONSTANTS
    Callers = {c1, c2, c3}
    NoCall = NoCall
    min_threads = 2
    max_threads = 3
    Events = {"panic", "nested"}
SPECIFICATION FairSpec
PROPERTIES
    CallsAnswered
    ReceivedIsAnswered
    ShrinksToMinimum
\* All calls are made, or a call waits on a pool that has no worker left.
CHECK_DEADLOCK FALSE
