CONSTANTS
    Callers = {c1, c2}
    NoTask = NoTask
    HasTarget = FALSE
    Budget <- MCBudget
    Connects = 2
    Disconnects = 1
    Writes = 0
    Rounds = 2
    CallsBack = TRUE
    Interrupts = 0
    Garbage = 1
    OtherKinds = {}
    Others = 1
SPECIFICATION PromptPatientSpec
INVARIANTS CleanupExclusive TransportReleased FailedIsDisconnected SessionIsolation NotifierNeverTearsDown WorkerDrains LostOncePerSession ReadyHasReport
PROPERTIES SessionEndsForCause ContractKept
SYMMETRY Symmetry
CHECK_DEADLOCK FALSE
