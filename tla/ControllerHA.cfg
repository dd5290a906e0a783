SPECIFICATION FairSpec
CONSTANTS
    N = 3
    Working = {{0, 1}, {1, 2}}
    SlurmctldTimeout = 4
    PingTimeout = 1
    SetupTime = 1
    Patient = FALSE
    Punctual = TRUE
    MaxFaults = 1
INVARIANT TypeOK
INVARIANT OwnSignalSpent
PROPERTY ControlEventually
PROPERTY SplitBrainEnds
