SPECIFICATION Spec
CONSTANTS
    socket = socket
    sound = sound
    Caller = {socket, sound}
    Polled = {socket}
    Handler = {sound}
    SemaphoresToSignalSize = 2
    Calls = 2
    Free = Free
PROPERTIES
    RecordedIsSignalled
CHECK_DEADLOCK FALSE
