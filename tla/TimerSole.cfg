\* A timer with one job of any kind, threads faster than the clock: on time.
CONSTANTS
    j1 = j1  j2 = j2
    Jobs = {j1}
    Kinds = {"once", "every", "interval"}
    Durations = {1, 3, 9}
    Absolute = {4, 9}
    TicksPerSecond = 2
    LargerGap = 6
    LastBuild = 4
    MaxTime = 24
    PoolBound = 2
    Prompt = TRUE
SPECIFICATION FairSpec
INVARIANTS OnTime
PROPERTIES BuiltIsLaunched
