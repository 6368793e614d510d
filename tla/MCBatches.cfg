CONSTANTS
    pool = pool
    core = core
    asset1 = asset1
    asset2 = asset2
    Payer = payer
    Shapes <- FiveShapes
    MaxLen = 4
    Base = 3
    KeySize = 3
    Overhead = 1
    Limit = 32
SPECIFICATION BatchSpec
INVARIANTS
    NothingLost
    FewestTransactions
CHECK_DEADLOCK FALSE
