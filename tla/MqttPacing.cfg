CONSTANTS
    Interval = 6
    MinInterval = 2
    Values <- MCValues
    None = None
    Deadband = 1
    MaxWrite = 1
    ClockSteps <- MCClockSteps
    MaxSteps = 1
SPECIFICATION Spec
INVARIANTS CeilingKept FloorKept ChangesShow
