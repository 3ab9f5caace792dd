CONSTANTS
    Callers = {c1}
    NoTask = NoTask
    HasTarget = FALSE
    Budget <- MCBudget
    Connects = 2
    Disconnects = 0
    Writes = 0
    Rounds = 2
    CallsBack = FALSE
    Interrupts = 0
    Garbage = 0
    OtherKinds = {}
    Others = 1
SPECIFICATION PromptSpec
PROPERTIES SessionEndsForCause
