SPECIFICATION FairSpec
CONSTANTS
    r1 = r1  r2 = r2  n1 = n1  t1 = t1
    None = None
    Runs <- TwoRuns
    Docs <- TwoDocs
    Names <- OneName
    Tags <- OneTag
    TagsOf <- AllTagged
    Payloads <- MCPayloads
    FillLimit = 1
    MetadataIsMapping = TRUE
    MaxSkills = 5
    MaxEdits = 2
    MaxRequests = 1
    MaxFailures = 1
INVARIANTS TypeOK CopiesBounded OverrideHolds
PROPERTIES EveryDocLands TrustIsFilled
CHECK_DEADLOCK FALSE
