CONSTANTS
    Callers = {c1, c2}
    Properties = {inputLimit, outputLimit}
    Reserved = 5
    FullReports = TRUE
    Resends = FALSE
    Budget <- MCBudget
    Calls = 3
    Reads = 1
    Reports = 1
    Openings = 2
SPECIFICATION Spec
INVARIANTS TypeOK IdsFresh WritesSerialized
PROPERTIES ContractKept
SYMMETRY Symmetry
