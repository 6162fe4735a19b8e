CONSTANTS
    a = a
    b = b
    Clerk = {a, b}
    Script <- AppendAndGet
    NServers = 2
    MaxTerm = 2
    MaxLog = 2
    MaxTroubles = 1
SPECIFICATION Spec
CHECK_DEADLOCK FALSE
INVARIANTS StoreExact AckedKept GetsFresh
