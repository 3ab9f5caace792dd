CONSTANTS
    None = None
    MODEL_LIMITS <- MCModelLimits
    lower <- MClower
    Products = {"BC8B7F", "Small"}
    Known <- MCKnown
    Overrides <- MCOverrides
    Devices <- MCDevices
    upper <- MCupper
    Requests <- MCRequests
    MaxInterrupts = 2
    MaxTasks = 1
    Backlog = 2
SPECIFICATION Spec
INVARIANTS TypeOK FoundIsTarget NothingLeft NothingSpilled ExitMeansRestored ChangesAccounted SilentMeansRestored
