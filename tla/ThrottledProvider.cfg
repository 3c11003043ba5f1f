SPECIFICATION Spec
CONSTANTS
    Procs = {p1, p2}
    Rate = 1
    Burst = 1
    Unit = 2
    MaxTime = 5
    Policy <- TwoAttempts
    Smallest = 1
    Latencies = {1}
    Timeout = 3
SYMMETRY Symmetry
INVARIANTS FetchesArePaidFor BackByDeadline
