SPECIFICATION Spec
CONSTANTS
    p1 = p1
    p2 = p2
    b1 = b1
    issuer = issuer
    wallet = wallet
    nobody = nobody
INVARIANTS
    StepsOnce OffersKept
PROPERTIES
    FiledStays 
CHECK_DEADLOCK FALSE
