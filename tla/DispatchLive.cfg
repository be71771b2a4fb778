SPECIFICATION FairSpec
CONSTANTS
    a1 = a1
    a2 = a2
    w1 = w1
    w2 = w2
    w3 = w3
    backend = backend
    consumer = consumer
    Action <- OneAction
    Worker <- ThreeWorkers
    Process <- OneProcess
    Backend = backend
    NoAction = NoAction
    NoWorker = NoWorker
    MaxCrashes = 1
    Lapses = FALSE
    Overlap = TRUE
PROPERTIES Answered
CHECK_DEADLOCK FALSE
