SPECIFICATION FairSpec
CONSTANTS
    t1 = t1
    ann = ann
    bob = bob
    Tasks = {t1}
    People = {ann, bob}
    Owner <- MCOwner
    Nobody = Nobody
    Clerks = {k1}
    MayCrash = TRUE
INVARIANTS
    AssignedIsAccepted
    OutlineFollowsTask
    ToldStands
    EveryDecisionIsTold
PROPERTY AssignmentCompletes
