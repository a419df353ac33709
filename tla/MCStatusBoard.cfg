CONSTANTS
    NVMs = 2
    Clients = {client}
    Loop = Loop
    Nobody = Nobody
    FanOut = 1
    Interval = 2
    MaxAge <- MCMaxAge
    MaxGap = 2
    OtherCounts <- MCOtherCounts
    MaxTime = 3
    MaxBytes <- MCMaxBytes
    r1 = r1
    r2 = r2
    Repos = {r1, r2}
    Paths <- MCPaths
    Ages = {23, 26, 27, 49, 170, 800}
    Sizes = {1}
    NoFile = NoFile
    Torn = Torn
    Branches = {"6.12", "7.1"}
    Patches = {1, 5, 12}
    Used = {0, 1, 2}
    DiskSize = 3
    Gaps = {2, 3}
    Cutoff = 9
SPECIFICATION BoardSpec
INVARIANTS
    RoundsBounded
    ReportTrue
    FetchedTrue
PROPERTIES
    ServedInOrder
    Answered
    ReleasesKept
