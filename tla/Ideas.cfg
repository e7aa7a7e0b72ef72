SPECIFICATION IdeasSpec
CONSTANTS
    None = None
    Manual = Manual
    i1 = i1
    s1 = s1
    s2 = s2
    m1 = m1
    m2 = m2
    c1 = c1
    c2 = c2
    Ideas = {i1}
    Meetings = {s1, s2}
    Members = {m1, m2}
    Scores = {6, 8}
    Threshold = 7
    MaxProposals = 1
    Clients = {c1, c2}
SYMMETRY Symmetry
INVARIANTS
    VerdictFollowsSheets
    OrderHasProposal
CHECK_DEADLOCK FALSE
