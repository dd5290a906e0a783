SPECIFICATION Spec
CONSTANTS
    t1 = t1
    Changers = {t1}
    NKinds = 1
    Required = {1}
    MaxVersion = 1
    MaxFailures = 1
PROPERTY RestartRecovers
CHECK_DEADLOCK FALSE
