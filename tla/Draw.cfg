CONSTANTS
    TierCount = 3
    WordSize = 10
    MaxWeight = 3
    MaxStock = 2
SPECIFICATION Spec
INVARIANTS
    DrawsAlwaysLand
    ExactOdds
CHECK_DEADLOCK FALSE
