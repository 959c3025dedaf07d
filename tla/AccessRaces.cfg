CONSTANTS
    acme = acme
    zen = zen
    Slugs = {acme, zen}
    Spellings <- MCSpellings
    DisplayNames = {n1, n2}
    KeyIds = {k1, k2}
    Sessions = {t1, t2}
    Jwts <- MCJwts
    Calls = {c1, c2}
    TTL = 1
    Leeway = 1
    MaxTime = 2
    MaxCalls = 4
    None = None
SPECIFICATION Spec
SYMMETRY AccessSymmetry
CHECK_DEADLOCK FALSE
INVARIANTS
    TypeOK
    RevokedKeyAdmitsNothingNew
    WrittenForOwnTenant
    AdmittedSessionWasLive
    EndedSessionsStayEnded
PROPERTY
    ImplementsAuthority
