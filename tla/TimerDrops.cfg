\* Two once-only jobs: expected to lose one.
CONSTANTS
    j1 = j1  j2 = j2
    Jobs = {j1, j2}
    Kinds = {"once"}
    Durations = {1, 3}
    Absolute = {}
    TicksPerSecond = 2
    LargerGap = 6
    LastBuild = 4
    MaxTime = 14
    PoolBound = 1
    Prompt = TRUE
SPECIFICATION Spec
PROPERTIES NothingDropped
