CONSTANTS
    BlockSize = 2
    MaxTiers = 1
    MaxBlocks = 5
SPECIFICATION Spec
INVARIANTS
    SearchExact
CHECK_DEADLOCK FALSE
