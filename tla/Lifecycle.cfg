SPECIFICATION LifecycleLive
CONSTANTS
    t1 = t1
    w1 = w1
    w2 = w2
    p1 = p1
    p2 = p2
    c1 = c1
    Blank = Blank
    None = None
    Tenants = {t1}
    Wallets = {w1, w2}
    Publishers = {p1, p2}
    Calls = {c1}
    Cap = 1
    MaxSubs = 1
    MaxEvents = 2
    MaxTries = 1
    AuthEnabled = TRUE
INVARIANTS
    StoresOpenWhileServing
    EndsThroughDefers
PROPERTIES
    PublisherNeverStalls
    CancelledStreamReturns
    StopCompletes
