\* Two jobs of any kinds, threads of any speed.
CONSTANTS
    j1 = j1  j2 = j2
    Jobs = {j1, j2}
    Kinds = {"once", "every", "interval"}
    Durations = {1, 2}
    Absolute = {2}
    TicksPerSecond = 2
    LargerGap = 2
    LastBuild = 1
    MaxTime = 3
    PoolBound = 1
    Prompt = FALSE
SPECIFICATION Spec
INVARIANTS TypeOK IteratorsValid ScheduledOnce
PROPERTIES NothingLeavesEarly KeepsSchedule
SYMMETRY Symmetry
