SPECIFICATION FairSpec
CONSTANTS
    t1 = t1
    b1 = b1
    b2 = b2
    m1 = m1
    m2 = m2
    n1 = n1
    n2 = n2
    e1 = e1
    h1 = h1
    p1 = p1
    Backend <- Backends
    Trigger <- One
    Mission <- Missions
    Name <- Names
    Change <- Changes
    Hook <- Hooks
    Patch <- Patches
    Phases = 3
    LastTick = 2
    Setting <- Settings
    Attempts = 2
    MaxFaults = 2
    MaxRequests = 2
INVARIANTS TypeOK RunsOnce
 
CHECK_DEADLOCK FALSE
