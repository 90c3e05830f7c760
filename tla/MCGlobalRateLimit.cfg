SPECIFICATION Spec
CONSTANTS
    Capacity = 3
    Period = 4
    MaxTime = 12
INVARIANTS
    PeriodBound
    AverageRate
PROPERTY
    ImplementsBucket
