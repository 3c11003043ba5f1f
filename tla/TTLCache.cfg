SPECIFICATION Spec
CONSTANTS
    Procs = {p1, p2}
    Keys = {k1, k2}
    Values = {v1}
    Absent = Absent
    TTL = 1
    MaxTime = 3
SYMMETRY Symmetry
INVARIANTS TypeOK HitIsFresh
PROPERTY ReapSparesFreshEntries
