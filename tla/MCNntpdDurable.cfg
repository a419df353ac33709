CONSTANTS
    test = test
    other = other
    Groups = {test, other}
    NoGroup = NoGroup
    Made <- MCMade
    Deep = {}
    Welcome = test
    Msgs = {w, m, b}
    WelcomeMsg = w
    Posts = {m, b}
    Blank = {b}
    Newsgroups <- MCNewsgroups
    Sessions = {s1, s2}
    NoSession = NoSession
    Nothing = Nothing
    Cut = Cut
    MaxNum = 2
    MaxFailures = 1
SPECIFICATION NewsSpec
SYMMETRY MCSymmetry
INVARIANT
    Durable
