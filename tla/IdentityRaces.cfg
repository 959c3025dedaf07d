CONSTANTS
    Documents = {d1, d2}
    People = {p1, p2}
    Contents = {c1, c2}
    Editors = {e1, e2}
    MaxSaves = 4
    MaxFailures = 2
    None = None
SPECIFICATION Spec
SYMMETRY EditSymmetry
CHECK_DEADLOCK FALSE
INVARIANTS
    TypeOK
    HistoryGapless
PROPERTY
    ImplementsJournal
