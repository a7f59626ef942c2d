SPECIFICATION ISpec
CONSTANTS
    idle = idle
    p1 = p1
    Process = {idle, p1}
    p2 = p2
    sT = sT
    sX = sX
    Semaphore = {sT, sX}
    NumPriorities = 2
    priority <- MCPriority
    IdleProcess = idle
    MaxSmallInteger = 1
    NumContexts = 1
    NilContext = NilContext
    nilObj = nilObj
    externalObjects <- MCExternalObjects
    Index = {1, 3}
    SemaphoresToSignalSize = 2
    CheckInterval = 2
    MaxFinalizations = 1
    SemaphoreArgs = {sT, nilObj}
    theFinalizationSemaphore = sT
INVARIANTS
    OwedIsBuffered
    PendingForcesCheck
PROPERTIES
    Spec
    WaiterWakes
    TimerWakes
