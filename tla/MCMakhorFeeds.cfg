CONSTANTS
    g1 = g1
    g2 = g2
    Feeds = {f1}
    NoFeed = NoFeed
    Guids = {g1, g2}
    NoGuid = NoGuid
    Docs <- MCDocs
    Limits = {0, 1}
    Reqs = {r1}
    Loop = Loop
    MaxPosts = 2
SPECIFICATION Spec
INVARIANTS
    ImportsTrue
