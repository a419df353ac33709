SPECIFICATION ContentSpec
CONSTANTS
    TagUsers = {root, ann, bot}
    SiteAdmins = {root}
    RootUser = root
    Bot = bot
    NoUser = NoUser
    Names <- MCNames
    DefaultTags <- MCDefault
    Posts = {1}
    Sites = {d1}
    LinkOf <- MCLinkOf
    NoLink = NoLink
    Feeds = {11}
    NoTag = NoTag
    Gone = Gone
    TagReqs = {r1, r2}
    MaxServed = 4
    Owners = {o1, o2}
    NoOwner = NoOwner
    MaxColl = 2
    CollTags = {k1, k2}
    CollItems = {k1, k2}
    TagsOf <- MCTagsOf
    Windows = {r1, r2}
    Docs = {1, 2}
    Texts = {x, y}
    NoText = NoText
    Users = {o1, o2}
    Items = {k1, k2}
    Reqs = {r1, r2, r3}
    Nobody = Nobody
    NoReply = NoReply
SYMMETRY MCSymmetry
INVARIANTS
    
    ListingsAgree
    CollectionsAsChosen
    SearchTrue
    VotesConsistent
PROPERTY
    ImplementsVoteCount
CHECK_DEADLOCK FALSE
