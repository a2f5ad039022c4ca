\* Three workers, two clients, three tasks.
CONSTANTS
    v1 = v1  v2 = v2  v3 = v3  c1 = c1  c2 = c2  t1 = t1  t2 = t2  t3 = t3
    NoTask = NoTask
    Workers = {v1, v2, v3}
    Clients = {c1, c2}
    Tasks = {t1, t2, t3}
SPECIFICATION FairSpec
INVARIANTS Drained
PROPERTIES KeepsPromise AcceptedTaskRuns DestructorReturns
