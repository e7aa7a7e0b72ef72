SPECIFICATION Spec
CONSTANTS
    None = None
    Undated = Undated
    Keep = Keep
    Slots = {1}
    Midpoint = 0
    Start = 0
    LastDay = 2
    RemindDays = {1}
    Runs = {web, command}
    MaxRows = 2
    Forms <- MCForms
    Contracts <- MCContracts
    Desks = {d1, d2}
    MaxApprovals = 2
    MayCrash = TRUE
CONSTRAINT MCBound
SYMMETRY MCSymmetry
INVARIANTS
    AppendicesChain
    SecondExtensionConfirmed
    DueDatesFollowPlan
    RemindedOnce
CHECK_DEADLOCK FALSE
