SPECIFICATION FairSpec
CONSTANTS
    c1 = c1
    c2 = c2
    NoJob = NoJob
    Confirm <- OneConfirm
    Kind = "bag"
    Ops <- Requests
    Faults = TRUE
    MaxCrashes = 1
INVARIANTS TypeOK NotStuck CanceledIsFinal
PROPERTIES TicketSettles
CHECK_DEADLOCK FALSE
