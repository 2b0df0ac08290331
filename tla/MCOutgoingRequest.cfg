SPECIFICATION OutgoingSpec

CONSTANTS
    a = a
    b = b
    c = c
    r1 = r1
    r2 = r2
    r3 = r3
    client = client
    proxy1 = proxy1
    proxy2 = proxy2
    v = v
    w = w
    Callers <- MCCallers
    Offered <- MCOffered
    IndexLimit = 4
    NoIndex = NoIndex
    MaxDraws = 6
    Addresses <- MCAddresses
    Trusted <- MCTrusted
    Garbage = Garbage
    MaxHops = 3
    Spellings <- MCSpellings
    Canonical <- MCCanonical
    Reserved <- MCReserved
    Values <- MCValues
    Absent = Absent
    XForwardedFor = "x-forwarded-for"
    MaxPath = 3
    MaxSupplied = 3

SYMMETRY Symmetry

INVARIANTS
    SpreadIsEven
    ForwardsTruePath
    HeadersAsConfigured
