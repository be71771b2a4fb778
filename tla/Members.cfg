SPECIFICATION FairSpec
CONSTANTS
    u1 = u1
    u2 = u2
    u3 = u3
    r1 = r1
    User <- Users
    Request <- One
    Founder = u1
    Overlap = FALSE
    Expiry = FALSE
INVARIANTS TypeOK 
PROPERTIES ExtendedIsMember ExpiredEnds
