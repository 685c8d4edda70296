CONSTANTS
    c1 = c1
    c2 = c2
    t1 = t1
    t2 = t2
    w1 = w1
    w2 = w2
    Calls = {c1, c2}
    Requests <- MCRequests
    Provisioned <- MCProvisioned
    Tenants = {t1, t2}
    Wallets = {w1, w2}
    Blank = Blank
    None = None
    Node = Node
    Boot = Boot
SPECIFICATION Spec
INVARIANTS ReachesOwnWalletsOnly CodeTellsEffect
