\* Two requests that one outage makes fail, the second once the ban of the first has expired.
SPECIFICATION OutgoingSpec
CONSTANTS
    Calls = {c1, c2}
    None = None
    BaseBanTime = 1
    BanTimeIncreaseFactor = 2
    MaxBanTime = 2
    Timeout = 3
    MaxClock = 5
    MaxAttempts = 2
    MaxBanRestarts = 1
INVARIANT
    SimultaneousFailuresCountOnce
CHECK_DEADLOCK FALSE
