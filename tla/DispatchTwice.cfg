SPECIFICATION Spec
CONSTANTS
    a1 = a1
    a2 = a2
    w1 = w1
    w2 = w2
    w3 = w3
    backend = backend
    consumer = consumer
    Action <- OneAction
    Worker <- ThreeWorkers
    Process <- TwoProcesses
    Backend = backend
    NoAction = NoAction
    NoWorker = NoWorker
    MaxCrashes = 1
    Lapses = FALSE
    Overlap = TRUE
INVARIANTS NoDoubleRun
CHECK_DEADLOCK FALSE
