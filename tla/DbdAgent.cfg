SPECIFICATION FairSpec
CONSTANTS
    r1 = r1
    Requesters = {r1}
    JobLocked = {}
    SendTypes = {"start"}
    ScriptReplies = TRUE
    MaxDbdMsgs = 2
    MaxDbdMsgAction = "exit"
    MaxBatch = 2
    MaxId = 2
    MaxFaults = 1
    MaxCrashes = 1
    MaxReqs = 1
    MaxOpens = 2
INVARIANT TypeOK
INVARIANT InFlightQueued
INVARIANT NothingVanishes
INVARIANT HaltedAgentHasWaker
INVARIANT InOrder
PROPERTY SendQueuesOrExits
PROPERTY QueueBounded
PROPERTY ImplementsAcctQueue
PROPERTY EventuallySettled
PROPERTY CloseTerminates
PROPERTY HaltedAgentResumes
