CONSTANTS
    Calls = {c1}
    Documents <- MCDocuments
    MaxDocumentPages = 2
    Births = {birth}
    Expiries = {expiry}
    Values = {"name", "number", "F", "M", Unclear}
    Unclear = Unclear
    None = None
    PageReadings <- MCPageReadings
    RegionReadings <- MCRegionReadings
    MaxFailures = 1
SPECIFICATION Spec
INVARIANTS
    TypeOK
    ExpiryIsNotBirth
PROPERTY
    CancelledEnds
