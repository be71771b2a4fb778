SPECIFICATION FairSpec
CONSTANTS
    a1 = a1
    Action <- OneAction
    NoAction = NoAction
    MaxCrashes = 1
    Foreign = FALSE
    Faults = FALSE
PROPERTIES Settles ZombieReaped
CHECK_DEADLOCK FALSE
