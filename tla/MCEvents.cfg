CONSTANTS
    a1 = a1
    a2 = a2
    auth = auth
    alice = alice
    Authority = auth
    Pool = pool
    NoItem = NoItem
    NoPull = NoPull
    Seeds = {s1, s2}
    Assets = {a1, a2}
    Wallets = {auth, alice}
    MaxCount = 2
    MaxTiers = 2
    MaxU64 = 100
    Supply = 6
    Terms <- OneTerm
    Amounts = {3}
    Quotes <- OneQuote
    UnixTime <- SlotTime
    MaxPositions = 4
    MaxPurchases = 2
    MaxSlot = 3
SPECIFICATION EventSpec
INVARIANTS
    IndexerAgrees
    LoggedHeadResolvable
