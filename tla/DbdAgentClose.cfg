SPECIFICATION Spec
CONSTANTS
    r1 = r1
    Requesters = {r1}
    JobLocked = {}
    SendTypes = {"start"}
    ScriptReplies = FALSE
    MaxDbdMsgs = 3
    MaxDbdMsgAction = "exit"
    MaxBatch = 2
    MaxId = 2
    MaxFaults = 0
    MaxCrashes = 0
    MaxReqs = 0
    MaxOpens = 1
INVARIANT AgentHasConn
