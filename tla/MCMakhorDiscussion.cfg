SPECIFICATION DiscussionSpec
CONSTANTS
    ann = ann
    p1 = p1
    Writers = {ann}
    SiteMods = {}
    TagMods <- MCTagMods
    Threads = {p1, p2}
    Deleters = {d1}
    MaxComments = 3
    Members = {m1, m2}
    Labels = {l1, l2}
    Clients = {c1, c2}
    MaxHats = 2
    MaxWorks = 1
    MaxRevokes = 2
    Drafts = {a, b, c}
    Original = a
    NoDraft = NoDraft
    Editors = {c1, c2}
    MaxEdits = 4
    test = test
    other = other
    alias = alias
    deep = deep
    Groups = {test, other, alias, deep}
    Made <- MCMade
    Deep = {deep}
    NoGroup = NoGroup
    Welcome = test
    Msgs = {w, m, x}
    WelcomeMsg = w
    Posts = {m, x}
    Blank = {x}
    Newsgroups <- MCNewsgroups
    Sessions = {c1, c2}
    NoSession = NoSession
    Nothing = Nothing
    Cut = Cut
    MaxNum = 2
    MaxFailures = 1
SYMMETRY MCSymmetry
INVARIANTS
    ThreadsConsistent
    HatsInOrder
    HistoryKept
    NewsKept
CHECK_DEADLOCK FALSE
