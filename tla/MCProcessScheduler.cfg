SPECIFICATION Spec
CONSTANTS
    idle = idle
    low = low
    p1 = p1
    p2 = p2
    Process = {idle, low, p1, p2}
    s1 = s1
    s2 = s2
    Semaphore = {s1, s2}
    NumPriorities = 2
    priority <- MCPriority
    IdleProcess = idle
    MaxSmallInteger = 1
    NumContexts = 2
    NilContext = NilContext
INVARIANTS
    InOnePlace
    HighestPriorityRuns
    NoWaiterWhileSignalled
    NeverOutOfProcesses
    OwnContext
PROPERTIES
    ContinuationKept
    SignalsConserved
    NoOvertaking
