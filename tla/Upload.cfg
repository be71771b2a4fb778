SPECIFICATION FairSpec
CONSTANTS
    u1 = u1
    u2 = u2
    w = w
    a = a
    b = b
    Cli <- TwoClis
    Web <- OneWeb
    Batch <- Compete
    Unsupported <- Bad
    MaxUploadRetries = 2
    MaxAttempts = 2
    MaxRow = 5
    MaxDelete = 1
    Faults = TRUE
INVARIANTS TypeOK UploadedIsMine
PROPERTIES UploadEnds UploadingEnds
CHECK_DEADLOCK FALSE
