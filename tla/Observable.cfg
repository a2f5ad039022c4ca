SPECIFICATION FairSpec
CONSTANTS
    t1 = t1  t2 = t2  o1 = o1  o2 = o2
    Threads = {t1, t2}
    Observers = {o1, o2}
    NoObserver = NoObserver
    Nobody = Nobody
    Forms <- SafeForms
    MaxCalls = 3
    MaxEntries = 2
PROPERTIES QuietAfterRemove KeepsPromise CallsReturn
