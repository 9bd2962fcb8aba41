SPECIFICATION Spec
CONSTANTS
    p = p
    q = q
    d = d
    s1 = s1
    s2 = s2
    s3 = s3
    prov = prov
    Proc = {p, q, d}
    Session = {s1, s2, s3}
    HomeOf <- ThreeHomes
    Quotas = {prov}
    QuotaLimit <- TwoSlots
    NeedOf <- AllNeed
    WeightOf <- Light
    Limits = {1}
    StartLimit = 1
    Crashing = {d}
    Failing = {}
    Observed <- BoxByP
    Failures = {}
    MaxFailures = 0
INVARIANT SlotInv
PROPERTY CeilingHolds
CHECK_DEADLOCK FALSE
