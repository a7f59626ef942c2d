SPECIFICATION Spec
CONSTANTS
    S = S
    M = M
    N = N
    B = B
    W = W
    A = A
    C = C
    theSender = theSender
    theHome = theHome
    theStack = theStack
    var = var
    weak = weak
    MoreSlots = {}
    Object = {S, M, N, B}
    Slot = {theSender, theHome, theStack, var}
    WeakSlots = {}
    Context = {M, N, B}
    SenderSlot = theSender
    HomeSlot = theHome
    nilObj = nilObj
    specialObjectsOop = S
    Image = {S, M}
    FirstContext = M
    RootTableRedZone = 1
    RootTableSize = 2
    AllocationsBetweenGCs = 1
    TenuringThreshold = 1
    BecomeWithFullTable = FALSE
    BlockSendersRead = FALSE
    SlotsOf <- MCSlotsOf

INVARIANTS
    TypeOK
    ContextsRooted
    NoDangling
PROPERTY
    Implements
