CONSTANTS
    Tenants = {t1, t2}
    Series = {s1, s2}
    Calls = {w1, w2}
    SerialModulus = 3
    MaxUnits = 2
    MaxCalls = 3
    MaxFailures = 1
    Invalid = Invalid
SPECIFICATION Spec
SYMMETRY CallSymmetry
CHECK_DEADLOCK FALSE
INVARIANTS
    TypeOK
    NumbersContiguous
    SeriesHasOneTenant
    ReportedOnce
    CreatedIsTraced
PROPERTY
    ImplementsLedger
