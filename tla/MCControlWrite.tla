--------------------------- MODULE MCControlWrite ---------------------------
EXTENDS ControlWrite, TLC

CONSTANTS Calls, Reads, Reports, Openings

MCBudget ==
    [calls |-> Calls, reads |-> Reads, reports |-> Reports,
     sessions |-> Openings]

Symmetry == Permutations(Callers)
=============================================================================
