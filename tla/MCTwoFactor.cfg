CONSTANTS
    Requests = {r1,r2}
    Sessions = {s1,s2}
    Batches = {b1,b2}
    CodesPerBatch = 1
    MaxCrashes = 1
    NoSession = NoSession
    NoBatch = NoBatch
    NoCode = NoCode
SPECIFICATION MCSpec
SYMMETRY Symmetry
INVARIANTS TypeOK NotLockedOut AcceptedOnce SecondFactorPassed OneOffer
CHECK_DEADLOCK FALSE
