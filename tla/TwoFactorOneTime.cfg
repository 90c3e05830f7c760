CONSTANTS
    Requests = {r1,r2}
    Sessions = {s1,s2}
    Batches = {b1}
    CodesPerBatch = 1
    MaxCrashes = 1
    NoSession = NoSession
    NoBatch = NoBatch
    NoCode = NoCode
SPECIFICATION MCSpec
INVARIANT OneTimeUse
CHECK_DEADLOCK FALSE
