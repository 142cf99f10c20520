SPECIFICATION FairSpec
CONSTANTS
    w1 = w1  w2 = w2  t1 = t1  f1 = f1  f2 = f2  c1 = c1  c2 = c2
    None = None
    Workers <- TwoWorkers
    Tasks <- NoTasks
    Files <- OneFile
    Contents <- TwoTexts
    GateVerdicts <- MCVerdicts
    MetadataIsMapping = FALSE
    BatchLimit = 2
    MaxRows = 2
    MaxEdits = 0
    MaxFailures = 0
    MaxRequeues = 1
    MaxToggles = 0
PROPERTIES BacklogDrains
