CONSTANTS
    Callers = {c1, c2}
    NoTask = NoTask
    HasTarget = FALSE
    Budget <- MCBudget
    Connects = 1
    Disconnects = 1
    Writes = 1
    Rounds = 1
    CallsBack = FALSE
    Interrupts = 0
    Garbage = 0
    OtherKinds = {}
    Others = 1
SPECIFICATION Spec
INVARIANTS CloseWakesWaiters
