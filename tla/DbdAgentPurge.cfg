SPECIFICATION Spec
CONSTANTS
    r1 = r1
    Requesters = {r1}
    JobLocked = {}
    SendTypes = {"step", "start"}
    ScriptReplies = FALSE
    MaxDbdMsgs = 3
    MaxDbdMsgAction = "discard"
    MaxBatch = 2
    MaxId = 4
    MaxFaults = 0
    MaxCrashes = 0
    MaxReqs = 1
    MaxOpens = 1
INVARIANT InFlightQueued
