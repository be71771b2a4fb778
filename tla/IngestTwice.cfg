SPECIFICATION Spec
CONSTANTS
    c1 = c1
    c2 = c2
    NoJob = NoJob
    Confirm <- TwoConfirms
    Kind = "bag"
    Ops <- Crons
    Faults = TRUE
    MaxCrashes = 0
INVARIANTS OkIsStored
CHECK_DEADLOCK FALSE
