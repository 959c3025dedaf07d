CONSTANTS
    Raws = {r1, r2}
    Persons = {p1, p2}
    Resolvers = {w1}
    Readers = {q1}
    LookupFields = {"email"}
    Fields = {"nationalId", "email"}
    Values = {a, b}
    Refs = {k}
    a = a
    b = b
    k = k
    None = None
    Payloads <- ConsistentPayloads
    Times = {1, 2}
    BatchSize = 1
    MaxFailures = 2
SPECIFICATION LookupFairSpec
INVARIANTS
    NoDuplicatePerson
    LookupFindsResolved
PROPERTIES
    PendingDrains
