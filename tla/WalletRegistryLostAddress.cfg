SPECIFICATION Spec
CONSTANTS
    k1 = k1
    k2 = k2
    k3 = k3
    h1 = h1
    h2 = h2
    Main = Main
    None = None
    Torn = Torn
    Keys = {k1}
    Handlers = {h1, h2}
    Ops = {"new"}
    MaxSeed = 0
    MaxIndex = 1
    MaxBatch = 1
    Faults = {"snapshot"}
    InitFile <- OneWalletFile
INVARIANTS
    AddressesSurviveRestart
