SPECIFICATION Spec
CONSTANTS
    c1 = c1
    c2 = c2
    t1 = t1
    w1 = w1
    w2 = w2
    Blank = Blank
    None = None
    Torn = Torn
    Clients = {c1, c2}
    Tenants = {t1}
    Wallets = {w1, w2}
    Methods = {"create", "refresh", "wallet", "stream", "node", "unlisted", "reflection"}
    AccessTTL = 1
    RefreshTTL = 2
    MaxTime = 3
    MaxDraws = 3
SYMMETRY Symmetries
INVARIANTS
    OneOwner
    SecretsOutliveUse
    ServedWithinSession
PROPERTIES
    RefreshedInTime
