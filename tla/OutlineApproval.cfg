SPECIFICATION ApprovalSpec
CONSTANTS
    MaxText = 2
    MaxVersions = 4
    MaxLost = 2
INVARIANTS
    RevisedAsConfirmed
    GateMatchesStatus
    AnswersOneBaseline
PROPERTY
    DecisionStands
CHECK_DEADLOCK FALSE
