SPECIFICATION FairSpec
CONSTANTS
    a = a
    b = b
    t1 = t1
    t2 = t2
    t3 = t3
    t4 = t4
    None = None
    Owner = a
    Mine <- All
    Group <- Two
    Update <- Both
    Add <- Third
    Remove <- Fourth
    Levels <- Top
INVARIANTS TypeOK
PROPERTIES GivesItsList RequestEnds
CHECK_DEADLOCK FALSE
