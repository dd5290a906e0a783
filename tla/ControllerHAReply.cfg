\* A handler of REQUEST_CONTROL gives up waiting only when nothing else can
\* bring the broadcast it waits for.
SPECIFICATION Spec
CONSTANTS
    N = 3
    Working = {{0, 1}, {1, 2}}
    SlurmctldTimeout = 4
    PingTimeout = 1
    SetupTime = 1
    Patient = TRUE
    Punctual = TRUE
    MaxFaults = 1
PROPERTY ReplyAfterRelease
