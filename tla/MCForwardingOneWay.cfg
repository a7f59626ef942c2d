SPECIFICATION Spec
CONSTANTS
    Null = Null
    MemoryLimits = {16, 20}
    MaxChunks = 4
    MaxObjects = 3
    WordSizes = {}
    OneWayWordSizes = {8}

INVARIANT
    ObjectsKept
CHECK_DEADLOCK FALSE
