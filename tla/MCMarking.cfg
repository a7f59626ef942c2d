SPECIFICATION Spec
CONSTANTS
    R = R
    W = W
    K = K
    Object = {R, W, K}
    Young = {W, K}
    Compact = {K}
    Large = {K}
    Weak = {R, W}
    EntryLists <- MCEntryLists
    lastPointerOf <- MClastPointerOf
    FixedFields <- MCFixedFields
    SmallInteger = SmallInteger
    GCTopMarker = GCTopMarker
INVARIANTS
    WayBackKept
    MarksReachable
PROPERTY
    MarkingEnds
