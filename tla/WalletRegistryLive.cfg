SPECIFICATION LiveSpec
CONSTANTS
    k1 = k1
    k2 = k2
    k3 = k3
    h1 = h1
    h2 = h2
    Main = Main
    None = None
    Torn = Torn
    Keys = {k1}
    Handlers = {h1, h2}
    Ops = {"create", "new", "spend"}
    MaxSeed = 1
    MaxIndex = 2
    MaxBatch = 2
    Faults = {"save", "snapshot", "attach"}
    InitFile <- NoFile
INVARIANTS
    AddressIssuedOnce
    StoresMatchWallets
PROPERTIES
    EveryCallReturns
    ShutdownCompletes
