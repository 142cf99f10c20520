SPECIFICATION FairSpec
CONSTANTS
    a = a
    b = b
    c = c
    a1 = a1
    b1 = b1
    b2 = b2
    c1 = c1
    d1 = d1
    index = index
    child = child
    p1 = p1
    p2 = p2
    p3 = p3
    p4 = p4
    worker = worker
    request = request
    Nobody = Nobody
    Files = {a1, b1, b2, c1, d1}
    SourceList <- MCSources
    Config <- MCConfig
    RepoOrder <- MCRepos
    RepoFiles <- MCFiles
    Profile <- MCProfile
    Locs <- MCLocs
    PageRepos <- MCPages
    Foreign <- MCForeign
    Runs = {worker, request}
    Asked <- MCAsked
    Looping <- MCLooping
    MaxRequests = 1
    MaxFailures = 2
INVARIANTS TypeOK CleanCrawlIsComplete OneHomeEach
PROPERTIES FilesArrive
