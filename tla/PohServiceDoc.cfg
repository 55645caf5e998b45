CONSTANTS
    hashes_per_tick = 3
    ticks_per_slot = 4
    hashes_per_batch = 1
    CAPACITY = 2
    Records <- MCRecords
    MaxSlot = 2
    ExitFrom = 9
SPECIFICATION Spec
INVARIANT ParentFrozen
CHECK_DEADLOCK FALSE
