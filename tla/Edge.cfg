SPECIFICATION FairSpec
CONSTANTS
    MaxSegment = 3
    MaxLaunch = 2
    MaxAttempts = 2
    MaxFails = 2
    MaxCrashes = 1
INVARIANTS TypeOK NothingDropped 
PROPERTIES SignalEnds FinishedLeaves
CHECK_DEADLOCK FALSE
