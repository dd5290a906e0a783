SPECIFICATION Spec
CONSTANTS
    n1 = n1
    n2 = n2
    s1 = s1
    a1 = a1
    a2 = a2
    Node = {n1, n2}
    Plain = {}
    Signals = {s1}
    AgentThreadCount = 1
    MaxServerThreads = 4
    MaxMailThreads = 1
    LotsOfAgents = 1
    ReturnToService = TRUE
    Patience = 1
    Slot = {a1, a2}
    MaxListed = 0
SYMMETRY Symmetry
INVARIANT TypeOK
INVARIANT ThreadBudget
INVARIANT WaiterHasWaker
INVARIANT PingsCounted
INVARIANT SignalAfterProlog
PROPERTY HealthyNotDown
