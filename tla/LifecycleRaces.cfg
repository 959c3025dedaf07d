CONSTANTS
    Locations = {l0, l1, l2}
    Origin = l0
    Calls = {w1, w2, w3}
    MaxCalls = 4
    MaxFailures = 2
    None = None
SPECIFICATION Spec
SYMMETRY CallSymmetry
CHECK_DEADLOCK FALSE
INVARIANTS
    TypeOK
    TrailExplainsAsset
PROPERTIES
    DisposalSettles
