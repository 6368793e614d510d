CONSTANTS
    a1 = a1
    a2 = a2
    a3 = a3
    auth = auth
    Authority = auth
    Pool = pool
    NoItem = NoItem
    NoPull = NoPull
    Seeds = {s1, s2}
    Assets = {a1, a2, a3}
    Wallets = {auth}
    MaxCount = 2
    MaxTiers = 2
    MaxU64 = 100
    Supply = 8
    Terms <- OneTerm
    Amounts = {}
    Quotes <- NoQuotes
    UnixTime <- SlotTime
    MaxPositions = 3
    MaxPurchases = 2
    WordSize = 3
    MaxSlot = 3
    Outputs <- TwoOutputs
    OpeningStock <- TwoPrizes
    OpeningVault = 2
    FirstBatch = 1
    Batch = 2
SPECIFICATION RelaySpec
INVARIANTS
    RefusedOnlyWhenOvertaken
    FailsOnlyWhenOvertaken
PROPERTIES
    SignedStock
