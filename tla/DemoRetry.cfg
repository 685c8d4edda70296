SPECIFICATION Spec
CONSTANTS
    None = None
    MaxHeight = 1
    Reward = 4
    Seed = 2
    Fees = {0}
    MaxRuns = 1
    Ranks = {1, 10}
    Lines = {0}
    DefaultBet = 1
    MaxTries = 1
    MaxHands = 1
INVARIANT
    RetriesOnlyWithoutPeers
