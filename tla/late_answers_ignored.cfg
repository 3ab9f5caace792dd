CONSTANTS
    Callers = {c1, c2}
    Properties = {inputLimit, outputLimit}
    Reserved = 5
    FullReports = FALSE
    Resends = TRUE
    Budget <- MCBudget
    Calls = 2
    Reads = 0
    Reports = 0
    Openings = 1
SPECIFICATION Spec
PROPERTIES LateAnswersIgnored
