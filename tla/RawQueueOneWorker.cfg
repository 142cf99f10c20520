SPECIFICATION FairSpec
CONSTANTS
    w1 = w1  w2 = w2  t1 = t1  f1 = f1  f2 = f2  c1 = c1  c2 = c2
    None = None
    Workers <- OneWorker
    Tasks <- NoTasks
    Files <- TwoFiles
    Contents <- TwoTexts
    GateVerdicts <- MCVerdicts
    MetadataIsMapping = FALSE
    BatchLimit = 1
    MaxRows = 3
    MaxEdits = 1
    MaxFailures = 1
    MaxRequeues = 1
    MaxToggles = 1
INVARIANTS TypeOK ParsedIsCurrent RawUnique StatusMeansVerdict
PROPERTIES BacklogDrains Converges KeepsContract
