SPECIFICATION Spec
CONSTANTS
    MaxAttempts = 2
    MaxPolls = 2
    MaxFlight = 2
    MaxWire = 1
    MaxVer = 2
    MaxFaults = 3
INVARIANT TypeOK
INVARIANT OneAttempt
INVARIANT NeverDark
PROPERTY Converges
PROPERTY IntervalsEnd
CHECK_DEADLOCK FALSE
