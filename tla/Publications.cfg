SPECIFICATION Spec
CONSTANTS
    a = a
    b = b
    NoOne = NoOne
    Office = Office
    Profiles = {a, b}
    Female = {a}
    Types <- MCTypes
    Rule <- MCRule
    Works <- MCWorks
    Lists <- MCLists
    MaxRows = 4
    MaxSent = 3
    Requests = {q1, q2}
    q1 = q1
    q2 = q2
    MayCrash = TRUE
SYMMETRY Symmetry
INVARIANTS
    OwnerHasOwnShare
    
    
CHECK_DEADLOCK FALSE
