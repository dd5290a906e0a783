SPECIFICATION FairSpec
CONSTANTS
    t1 = t1
    Changers = {t1}
    NKinds = 2
    Required = {1}
    MaxVersion = 1
    MaxFailures = 1
INVARIANT TypeOK
INVARIANT NoChangeForgotten
INVARIANT StopSavesAll
INVARIANT OneGoodCopy
PROPERTY EventuallySaved
PROPERTY EventuallyStops
CHECK_DEADLOCK FALSE
