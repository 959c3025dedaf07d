CONSTANTS
    Assets = {a1, a2, a3}
    Clients = {c1}
    Classes = {K1, K2}
    K1 = K1
    Statuses = {Active, Disposed}
    Active = Active
    Blank = Blank
    Times = {1, 2, 3}
    Numbers = {0, 2, 3}
    Filters <- SomeFilters
    DefaultLimit = 1
    MaxLimit = 2
SPECIFICATION Spec
SYMMETRY Symmetry
INVARIANTS
    TypeOK
    PagesMissNothing
    RepeatsFollowCreations
    PageFitsTotal
