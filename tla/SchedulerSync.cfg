CONSTANTS
    w1 = w1
    Slots = {1, 2}
    Mine = {1}
    Vanilla = {"scheduler", "bundles"}
    Workers = {w1}
    BLOCK_CLAIMED_BIT = 8
SPECIFICATION FairSpec
CHECK_DEADLOCK FALSE
INVARIANTS
    BlockExclusive
    BlockFirst
PROPERTIES
    ClaimResolved
    FallbackGranted
