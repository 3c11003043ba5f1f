SPECIFICATION Spec
CONSTANTS
    Procs = {p1, p2}
    Rate = 2
    Burst = 2
    Unit = 3
    MaxTime = 5
INVARIANTS TypeOK QuotaHolds
PROPERTIES DeadContextIsDenied DeadlineEndsWait LoneWaitEnds
