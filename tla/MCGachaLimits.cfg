CONSTANTS
    a1 = a1
    a2 = a2
    a3 = a3
    auth = auth
    alice = alice
    bob = bob
    Authority = auth
    Pool = pool
    NoItem = NoItem
    NoPull = NoPull
    Seeds = {s1, s2}
    Assets = {a1, a2, a3}
    Wallets = {auth}
    MaxCount = 2
    MaxTiers = 2
    MaxU64 = 7
    Supply = 7
    Terms <- BoundaryTerms
    Amounts = {1, 3}
    Quotes <- NoQuotes
    UnixTime <- SlotTime
    MaxPositions = 3
    MaxPurchases = 2
    WordSize = 4
    MaxSlot = 2
SYMMETRY AssetSymmetry
SPECIFICATION Spec
INVARIANTS
    Solvency
    HeadResolvable
