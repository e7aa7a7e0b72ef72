SPECIFICATION Spec
CONSTANTS
    owner = owner
    u1 = u1
    u2 = u2
    x = x
    Accounts = {owner, u1, u2}
    Externals = {x}
    Owner = owner
    ProposalTeam = {}
    MaxRows = 3
    MaxPanel = 2
    Totals = {4999, 5000}
SYMMETRY Symmetry
INVARIANTS
    BlindUntilComplete
    AverageOfTheSheets
    IndependentReviewers
CHECK_DEADLOCK FALSE
