SPECIFICATION FairSpec
CONSTANTS
    p = p
    q = q
    d = d
    s1 = s1
    s2 = s2
    s3 = s3
    prov = prov
    Proc = {p, d}
    Session = {s1, s2, s3}
    HomeOf <- Homes
    Quotas = {prov}
    QuotaLimit <- OneSlot
    NeedOf <- Shared
    WeightOf <- Light
    Limits = {1, 2}
    StartLimit = 2
    Crashing = {d}
    Failing = {d}
    Observed <- BoxByP
    Failures = {"throw", "scan", "keep", "read", "stall"}
    MaxFailures = 1
INVARIANT SlotInv
PROPERTIES CeilingHolds CapacityReturns
CHECK_DEADLOCK FALSE
