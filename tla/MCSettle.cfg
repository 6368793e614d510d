CONSTANTS
    s1 = s1
    auth = auth
    Authority = auth
    Pool = pool
    NoItem = NoItem
    NoPull = NoPull
    Seeds = {s1}
    Assets = {0, 1, 2, 3}
    Wallets = {auth}
    MaxCount = 2
    MaxTiers = 2
    MaxU64 = 100
    Supply = 10
    Terms <- NoTerms
    Amounts = {}
    Quotes <- NoQuotes
    UnixTime <- SlotTime
    MaxPositions = 4
    MaxPurchases = 1
    WordSize = 4
    Weights <- TwoWeights
    MaxSlot = 1
SPECIFICATION SettleSpec
INVARIANTS
    DrawsReachable
    PlannedDrawsExact
CHECK_DEADLOCK FALSE
