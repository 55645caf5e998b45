CONSTANTS
    w1 = w1
    Slots = {1, 2}
    Mine = {1, 2}
    Vanilla = {"bundles"}
    Workers = {w1}
    BLOCK_CLAIMED_BIT = 8
SPECIFICATION Spec
CHECK_DEADLOCK FALSE
INVARIANT
    NoVanillaAfterBlock
