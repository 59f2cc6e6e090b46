CONSTANTS
    Ring = 2
    Millisecond = 2
    Slack = 10
    MaxDelay = 20
    Delays = {0, 3}
    ClockSteps <- SmallAndLarge
    Null = Null
    MaxSteps = 2
    MaxFlight = 2
SPECIFICATION ClockSpec
INVARIANT EstimateSound
