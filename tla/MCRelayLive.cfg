CONSTANTS
    a1 = a1
    a2 = a2
    a3 = a3
    auth = auth
    Authority = auth
    Pool = pool
    NoItem = NoItem
    NoPull = NoPull
    Seeds = {s1}
    Assets = {a1, a2, a3}
    Wallets = {auth}
    MaxCount = 3
    MaxTiers = 1
    MaxU64 = 100
    Supply = 9
    Terms <- OneTerm
    Amounts = {}
    Quotes <- NoQuotes
    UnixTime <- SlotTime
    MaxPositions = 3
    MaxPurchases = 1
    WordSize = 3
    MaxSlot = 3
    Outputs <- TwoOutputs
    OpeningStock <- ThreePrizes
    OpeningVault = 5
    FirstBatch = 1
    Batch = 2
SPECIFICATION RelayLiveSpec
PROPERTIES
    DeliveryRecovers
