SPECIFICATION LiveSpec
CONSTANTS
    c1 = c1
    c2 = c2
    w1 = w1
    None = None
    Beat = Beat
    Stats = Stats
    Calls = {c1, c2}
    Wallets = {w1}
    Cap = 1
    MaxBlocks = 3
CHECK_DEADLOCK FALSE
INVARIANTS
    OneWalkPerWallet
    GuardHasOwner
    StatsCloseWholeWalk
PROPERTIES
    CancelledRescanReturns
    SlowClientNeverStallsWalk
