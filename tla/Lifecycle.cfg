SPECIFICATION Spec
CONSTANTS
    Clients = {c1, c2}
    ReadTimeout = 5
    WriteTimeout = 10
    ShutdownTimeout = 10
    SearchTime = 2
    PollInterval = 1
    Horizon = 2
    MaxTime = 18
INVARIANT ShutdownIsGraceful
PROPERTY ServerStops
