SPECIFICATION Spec
CONSTANTS
    p1 = p1
    p2 = p2
    out = out
    back = back
    qz1 = qz1
    jt1 = jt1
    jt2 = jt2
    eco = eco
    biz = biz
    Absent = Absent
    Legs = {out, back}
    Providers = {p1, p2}
    Inventory <- TwoSellers
    ProviderTimeout = 1
    OverallTimeout = 2
    Flaky = {p1}
    Searches = {s1, s2}
    Requests <- OneWays
    MaxLegs = 1
    TTL = 1
    Horizon = 3
    MaxTime = 4
SYMMETRY Symmetry
INVARIANTS TypeOK AnswersMatchRequest OutageIsNotCached CacheIsUnfiltered ResultsConserved AnswersAreRecent BackInBudget OnlyTotalFailureIs502
PROPERTY ImplementsFlightSearch
