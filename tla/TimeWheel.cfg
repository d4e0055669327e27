SPECIFICATION Spec
CONSTANTS
    Counts <- MCCounts
    Timers = {a, b}
    Delays = {0, 1, 2, 3, 4, 5, 6, 7, 8, 9, 10, 11, 12}
    CbDelays = {0, 1, 2, 4, 5, 7, 8, 11}
    Uses = {"removeWaiting"}
    MaxTick = 16
SYMMETRY MCSymmetry
INVARIANTS
    FiresOnTime
    RemovedIsSilent
    RegistrationIsExact
