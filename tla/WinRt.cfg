SPECIFICATION Spec
CONSTANTS
    t1 = t1
    t2 = t2
    g1 = g1
    g2 = g2
    Threads = {t1, t2}
    Guids = {g1, g2}
    Loads <- MCLoads
    MaxCalls = 2
INVARIANT TypeOK
INVARIANT RemoveRestores
INVARIANT RecordsSound
INVARIANT RedirectionComplete
PROPERTY CallsReturn
