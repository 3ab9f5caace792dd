CONSTANTS
    Callers = {c1}
    NoTask = NoTask
    HasTarget = FALSE
    Budget <- MCBudget
    Connects = 1
    Disconnects = 0
    Writes = 0
    Rounds = 1
    CallsBack = FALSE
    Interrupts = 0
    Garbage = 1
    OtherKinds = {}
    Others = 1
SPECIFICATION Spec
PROPERTIES ConnectReturnsReady
