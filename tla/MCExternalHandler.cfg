SPECIFICATION Spec
CONSTANTS
    socket = socket
    sound = sound
    Caller = {socket, sound}
    Polled = {}
    Handler = {socket, sound}
    SemaphoresToSignalSize = 2
    Calls = 3
    Free = Free
INVARIANTS
    WritesInBounds
PROPERTIES
    RecordedIsSignalled
CHECK_DEADLOCK FALSE
