SPECIFICATION Spec
CONSTANTS
    Null = Null
    MemoryLimits = {16, 20}
    MaxChunks = 4
    MaxObjects = 3
    WordSizes = {4, 8}
    OneWayWordSizes = {4}

INVARIANTS
    ReferencesRight
    ObjectsKept
    FreeBlockLast
PROPERTIES
    CompactionEnds
CHECK_DEADLOCK FALSE
