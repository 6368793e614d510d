CONSTANTS
    BlockSize = 2
    MaxTiers = 2
    MaxBlocks = 3
SPECIFICATION Spec
INVARIANTS
    NodesExact
    CountsExact
    SearchExact
PROPERTIES
    LinearSpec
CHECK_DEADLOCK FALSE
