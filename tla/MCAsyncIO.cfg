SPECIFICATION Spec
CONSTANTS
    MaxDescriptor = 2
    Null = Null
    File = {f1}
    MaxTransfer = 2
    Socket = {s1, s2}
    CloseResults = {"done"}
    TransfersUnconnected = FALSE

INVARIANTS
    RightOwner
    NoStrayCall
    AwaitedIsArmed
    SignalledOnce
PROPERTIES
    TransferSignalled
    EventTold
