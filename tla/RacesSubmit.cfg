SPECIFICATION FairRacesSpec
CONSTANTS
    owner = owner
    u1 = u1
    u2 = u2
    s1 = s1
    s2 = s2
    Accounts = {owner, u1}
    Externals = {}
    Owner = owner
    ProposalTeam = {}
    MaxRows = 3
    MaxPanel = 3
    Totals = {4999, 5000}
    Slots = {s1, s2}
    MayCrash = TRUE
INVARIANTS
    NoSubmissionForgotten
PROPERTIES
    FullPanelEventuallyAggregated
CHECK_DEADLOCK FALSE
