SPECIFICATION Spec
CONSTANTS
    None = None
    MaxHeight = 2
    Reward = 5
    Seed = 3
    Fees = {1, 2}
    MaxRuns = 2
    Ranks = {1, 6, 10}
    Lines = {0, 4}
    DefaultBet = 1
    MaxTries = 1
    MaxHands = 1
INVARIANTS
    OnlyFeesAreShort
    ToldHeightHasTx
    SettledByTheRules
    ReportedIsPaid
    GamePlaysRealCoins
PROPERTIES
    FundedWhenDone
