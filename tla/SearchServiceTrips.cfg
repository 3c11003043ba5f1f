SPECIFICATION Spec
CONSTANTS
    p1 = p1
    p2 = p2
    out = out
    back = back
    qz1 = qz1
    jt1 = jt1
    jt2 = jt2
    eco = eco
    biz = biz
    Absent = Absent
    Legs = {out, back}
    Providers = {p1}
    Inventory <- TwoSellers
    ProviderTimeout = 1
    OverallTimeout = 2
    Flaky = {p1}
    Searches = {s1, s2}
    Requests <- Trips
    MaxLegs = 2
    TTL = 1
    Horizon = 0
    MaxTime = 1
INVARIANTS OnlyTotalFailureIs502 HitMeansNoCalls
PROPERTY EverySearchIsAnswered
