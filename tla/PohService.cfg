CONSTANTS
    hashes_per_tick = 3
    ticks_per_slot = 3
    hashes_per_batch = 1
    CAPACITY = 2
    Records <- MCRecords
    MaxSlot = 2
    ExitFrom = 2
SPECIFICATION FairSpec
INVARIANTS LedgerValid PohInStep BankHandover RecordWhole SpeedrunHasBlock
PROPERTY BankEnds
CHECK_DEADLOCK FALSE
