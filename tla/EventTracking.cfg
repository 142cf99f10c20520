SPECIFICATION FairSpec
CONSTANTS
    r1 = r1  r2 = r2  s1 = s1  s2 = s2  n1 = n1
    NoSession = NoSession
    Requests <- TwoRequests
    Sessions <- OneSession
    Skills <- TwoSkills
    Keys <- OneKey
    KeyOf <- SharedKey
    Window = 3
    Skew = 1
    MaxDelay = 1
    MaxTime = 4
    MaxEvents = 2
    MaxFailures = 1
CHECK_DEADLOCK FALSE
INVARIANTS TypeOK FavoriteOnce PopularityIsDerived ViewSpacing
PROPERTY RequestsEnd
