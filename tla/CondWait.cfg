\* Two waiters, two setters, the three kinds of use the library has.
CONSTANTS
    w1 = w1  w2 = w2  s1 = s1  s2 = s2
    Waiters = {w1, w2}
    Setters = {s1, s2}
    Objects <- LibraryObjects
    Apis = {"wait", "wait_for", "wait_for_max", "wait_until", "wait_until_max"}
    SetsPerSetter = 2
    Width = 16
    TicksPerHour = 3600
SPECIFICATION FairSpec
INVARIANTS TypeOK NoStrandedWaiter
PROPERTIES WaitsReturn
