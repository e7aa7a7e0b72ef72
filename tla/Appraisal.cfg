SPECIFICATION Spec
CONSTANTS
    None = None
    m1 = m1
    m2 = m2
    r = r
    s1 = s1
    s2 = s2
    o1 = o1
    o2 = o2
    Outlines = {o1, o2}
    Sessions = {s1, s2}
    Councils = {{m1}}
    Reviewers = {r}
    Days = {1}
    Team <- MCTeam
SYMMETRY Symmetry
INVARIANTS
    BallotsComplete
    ResultMatchesMinutes
    OneLiveSession
    DefendedHasSession
PROPERTIES
    DecisionStands
CHECK_DEADLOCK FALSE
