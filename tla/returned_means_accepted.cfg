CONSTANTS
    Callers = {c1}
    Properties = {inputLimit, outputLimit}
    Reserved = 5
    FullReports = TRUE
    Resends = FALSE
    Budget <- MCBudget
    Calls = 1
    Reads = 0
    Reports = 1
    Openings = 1
SPECIFICATION Spec
PROPERTIES ReturnedMeansAccepted
