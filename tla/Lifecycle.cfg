\* A timer, or a copy of one, stopped by clear(), twice, and by its destructor.
CONSTANTS
    v1 = v1  v2 = v2
    Workers = {v1, v2}
    Births = {"spawn", "open"}
    Clears = 2
SPECIFICATION FairSpec
INVARIANTS FirstStopIsSafe MembersOutliveUsers StoppedMeansQuiet
PROPERTIES StopReturns
