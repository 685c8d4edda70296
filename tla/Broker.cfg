SPECIFICATION Spec
CONSTANTS
    t1 = t1
    t2 = t2
    w1 = w1
    w2 = w2
    p1 = p1
    p2 = p2
    Blank = Blank
    None = None
    Tenants = {t1, t2}
    Wallets = {w1, w2}
    Publishers = {p1, p2}
    Cap = 1
    MaxSubs = 2
    MaxEvents = 2
    AuthEnabled = TRUE
SYMMETRY Symmetries
CHECK_DEADLOCK FALSE
INVARIANTS
    NoSendOnClosedChannel
    InOrder
    NothingVanishes
    TenantIsolation
PROPERTIES
    ImplementsEventStream
