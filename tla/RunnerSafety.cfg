SPECIFICATION Spec
CONSTANTS
    a1 = a1
    Action <- OneAction
    NoAction = NoAction
    MaxCrashes = 2
    Foreign = TRUE
    Faults = TRUE
INVARIANTS TypeOK DoneMeansExitZero KeyScoped ZombieIsMarked StartsOnce
PROPERTIES KillJustified 
CHECK_DEADLOCK FALSE
