SPECIFICATION Spec
CONSTANTS
    ClockPeriod = 6
    MaxDelay = 4
    TimeSlice = 2
    MaxTime = 15
    WrapSeenFirst = TRUE
INVARIANTS
    NeverEarly
    NeverOversleeps
PROPERTIES
    NeverMissed
