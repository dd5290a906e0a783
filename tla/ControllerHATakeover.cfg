\* The default times in units of ten seconds: a timeout of 120 s, a beat every 30 s,
\* a round of pings every 40 s, of which each may take 10 s.
SPECIFICATION Spec
CONSTANTS
    N = 3
    Working = {{1, 2}}
    SlurmctldTimeout = 12
    PingTimeout = 1
    SetupTime = 1
    Patient = TRUE
    Punctual = TRUE
    MaxFaults = 1
PROPERTY NoTakeoverFromLive
