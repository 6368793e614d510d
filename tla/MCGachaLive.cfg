CONSTANTS
    a1 = a1
    a2 = a2
    a3 = a3
    auth = auth
    alice = alice
    bob = bob
    Authority = auth
    Pool = pool
    NoItem = NoItem
    NoPull = NoPull
    Seeds = {s1, s2}
    Assets = {a1, a2}
    Wallets = {auth, alice}
    MaxCount = 2
    MaxTiers = 1
    MaxU64 = 100
    Supply = 5
    Terms <- OneTierTerm
    Amounts = {2}
    Quotes <- NoQuotes
    UnixTime <- SlotTime
    MaxPositions = 2
    MaxPurchases = 2
    WordSize = 4
    MaxSlot = 3
SPECIFICATION LiveSpec
PROPERTIES
    PurchasesResolve
    RetirementDrains
