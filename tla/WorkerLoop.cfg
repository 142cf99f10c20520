SPECIFICATION FairSpec
CONSTANTS
    w1 = w1  t1 = t1  m1 = m1  m2 = m2  k1 = k1  k2 = k2  k3 = k3
    None = None
    Workers <- OneWorker
    Tasks <- OneTask
    Admins <- TwoAdmins
    Asked <- MCAsked
    Unsummarized <- MCUnsummarized
    Summarizable <- BothDescribed
    BackfillLimit = 1
    MaxEvents = 1
    MaxReports = 1
    MaxFailures = 1
    MaxPatches = 2
    MaxTouches = 1
INVARIANTS TypeOK LogEndsInPhase OutcomeShown SettingsAddUp
PROPERTIES OffIsObeyed SummaryComes
