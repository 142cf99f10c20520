SPECIFICATION FairSpec
CONSTANTS
    r1 = r1  r2 = r2  a1 = a1  a2 = a2
    Requests <- TwoRequests
    Admins <- TwoAdmins
    Limit = 1
    Expiry = 1
    DayOf <- MCDayOf
    MonthOf <- MCMonthOf
    MaxMinute = 1
    MaxServed = 2
    MaxChanges = 3
    MaxFailures = 1
CHECK_DEADLOCK FALSE
INVARIANTS TypeOK RateLimit UsageIsServed
PROPERTIES DeadStaysDead EverythingEnds
