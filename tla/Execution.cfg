SPECIFICATION Spec
CONSTANTS
    None = None
    a = a
    p = p
    q = q
    m1 = m1
    m2 = m2
    m3 = m3
    l1 = l1
    l2 = l2
    f1 = f1
    f2 = f2
    Payments = {a, p}
    Purchases = {q}
    Advances = {a}
    Lines = {l1, l2}
    LineOf <- MCLineOf
    Amount <- MCAmount
    Officers = {f1}
    Members = {m1, m2, m3}
    Panels = {{m1, m2}, {m1, m3}}
    Declarations <- MCDeclarations
INVARIANTS
    PaidOnce
    SignedAsConfirmed
    AcceptedProperly
PROPERTIES
    VarianceAcknowledged
    ClosesAsPromised
CHECK_DEADLOCK FALSE
