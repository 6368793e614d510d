CONSTANTS
    a1 = a1
    a2 = a2
    a3 = a3
    auth = auth
    alice = alice
    bob = bob
    Seeds = {s1, s2}
    Assets = {a1, a2, a3}
    Wallets = {auth, alice}
    Authority = auth
    Pool = pool
    NoItem = NoItem
    NoPull = NoPull
    MaxCount = 2
    MaxTiers = 2
    MaxU64 = 100
    Supply = 6
    Terms <- OneTerm
    Amounts = {2}
    Quotes <- NoQuotes
    UnixTime <- SlotTime
    MaxPositions = 3
    MaxPurchases = 2
    WordSize = 4
    MaxSlot = 3
SYMMETRY AssetSymmetry
SPECIFICATION Spec
INVARIANTS
    TypeOK
    Solvency
    PendingDrawsCounted
    FIFOQueue
    ReservedPrefix
    StockAgrees
    Custody
    HeadResolvable
    UnsoldReclaimable
PROPERTIES
    PinnedCandidates
    AwardsPinned
    AwardsKept
    CustodyRelease
    RetiredOnlyDrains
