CONSTANTS
    Locations = {l0, l1}
    Origin = l0
    Calls = {w1, w2}
    MaxCalls = 2
    MaxFailures = 0
    None = None
SPECIFICATION Spec
CHECK_DEADLOCK FALSE
PROPERTIES
    TransferKeepsStatus
