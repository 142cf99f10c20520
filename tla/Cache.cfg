SPECIFICATION FairSpec
CONSTANTS
    k1 = k1
    k2 = k2
    v1 = v1
    Keys = {k1, k2}
    Visitors = {v1}
    RedisTtl = 0
    Fresh = 0
    Stale = 1
    Revalidate = 0
    MaxEntries = 1
    MaxHandlers = 2
    Changing = {k1}
    MaxChanges = 1
    MaxFailures = 1
INVARIANTS TypeOK
PROPERTIES  FailOpen
