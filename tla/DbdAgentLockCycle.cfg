SPECIFICATION Spec
CONSTANTS
    r1 = r1
    Requesters = {r1}
    JobLocked = {r1}
    SendTypes = {"start"}
    ScriptReplies = TRUE
    MaxDbdMsgs = 3
    MaxDbdMsgAction = "exit"
    MaxBatch = 2
    MaxId = 2
    MaxFaults = 0
    MaxCrashes = 0
    MaxReqs = 1
    MaxOpens = 1
INVARIANT NoLockCycle
