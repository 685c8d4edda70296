SPECIFICATION Spec
CONSTANTS
    k1 = k1
    k2 = k2
    k3 = k3
    h1 = h1
    h2 = h2
    Main = Main
    None = None
    Torn = Torn
    Keys = {k1, k2, k3}
    Handlers = {h1, h2}
    Ops = {"create", "restore"}
    MaxSeed = 2
    MaxIndex = 1
    MaxBatch = 1
    Faults = {"save", "snapshot", "attach"}
    InitFile <- LegacyFile
SYMMETRY HandlerSymmetry
INVARIANTS
    TypeOK
    AckedWalletDurable
    RegistryConsistent
    NoPlaintextWhileServing
PROPERTIES
    StateFileNeverLoses
