SPECIFICATION FairSpec
CONSTANTS
    c1 = c1
    c2 = c2
    Clients = {c1, c2}
    None = None
    Workers = 2
    MaxQueued = 1
    MaxPerCycle = 1
    TimeLimited = TRUE
INVARIANT QueueLimit
INVARIANT NoLostWakeup
INVARIANT QueueAlive
INVARIANT NothingHidden
PROPERTY EventuallyAnswered
PROPERTY ShutdownTerminates
CHECK_DEADLOCK FALSE
