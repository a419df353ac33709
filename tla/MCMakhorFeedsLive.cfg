CONSTANTS
    g1 = g1
    g2 = g2
    Feeds = {f1, f2}
    NoFeed = NoFeed
    Guids = {g1, g2}
    NoGuid = NoGuid
    Docs <- MCOneItem
    Limits = {1}
    Reqs = {}
    Loop = Loop
    MaxPosts = 1
SPECIFICATION FairSpec
PROPERTIES
    StopTerminates
    FeedsArePolled
