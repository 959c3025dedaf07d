CONSTANTS
    Raws = {r1, r2}
    Persons = {p1, p2, p3}
    Resolvers = {w1, w2}
    Fields = {"nationalId", "email"}
    Values = {a, b}
    Refs = {k}
    a = a
    b = b
    k = k
    None = None
    Payloads <- ConsistentPayloads
    Times = {1}
    BatchSize = 2
    MaxFailures = 0
SPECIFICATION Spec
INVARIANTS
    NoDuplicatePerson
