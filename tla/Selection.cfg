SPECIFICATION Spec
CHECK_DEADLOCK FALSE
CONSTANTS
    p1 = p1
    p2 = p2
    c1 = c1
    c2 = c2
    Proposals = {p1, p2}
    Calls = {c1, c2}
    NoCall = NoCall
    Fits <- MCFits
    Published = {c2}
    NeedsUnit = {c1}
    r1 = r1
    r2 = r2
    Requests = {r1, r2}
SYMMETRY Symmetry
INVARIANTS
    LockedIsComplete
    ToldStands
    DecisionsAreTold

