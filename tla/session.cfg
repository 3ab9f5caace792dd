CONSTANTS
    Callers = {c1, c2}
    NoTask = NoTask
    HasTarget = FALSE
    Budget <- MCBudget
    Connects = 1
    Disconnects = 1
    Writes = 1
    Rounds = 1
    CallsBack = FALSE
    Interrupts = 1
    Garbage = 0
    OtherKinds = {"ack", "stranger", "foreign"}
    Others = 1
SPECIFICATION PromptSpec
INVARIANTS TypeOK IdentityBeforeRequests FailureWakesWaiters NoStrayKeepalive ReadyIsWatched
PROPERTIES DisconnectReleases
SYMMETRY Symmetry
