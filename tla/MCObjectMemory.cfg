SPECIFICATION Spec
CONSTANTS
    S = S
    M = M
    N = N
    B = B
    W = W
    A = A
    C = C
    theSender = theSender
    theHome = theHome
    theStack = theStack
    var = var
    weak = weak
    MoreSlots = {}
    Object = {S, M, W, A}
    Slot = {theSender, theHome, theStack, var, weak}
    WeakSlots = {weak}
    Context = {M}
    SenderSlot = theSender
    HomeSlot = theHome
    nilObj = nilObj
    specialObjectsOop = S
    Image = {S, M}
    FirstContext = M
    RootTableRedZone = 2
    RootTableSize = 3
    AllocationsBetweenGCs = 2
    TenuringThreshold = 1
    BecomeWithFullTable = FALSE
    BlockSendersRead = FALSE
    SlotsOf <- MCSlotsOf

INVARIANTS
    OldPointersKnown
PROPERTIES
    FinalizationOwed
    Implements
