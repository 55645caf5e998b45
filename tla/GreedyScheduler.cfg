CONSTANTS
    Thread = {0, 1}
    Account = {"A", "B"}
    Tx = {1, 2, 3}
    Writes <- MCWrites
    Reads <- MCReads
    Priority <- MCPriority
    Cost <- MCCost
    NoThread = NoThread
    Id = {0, 1, 2}
    capacity = 2
    EXTRA_CAPACITY = 1
    target_transactions_per_batch = 2
    target_cu_per_thread = 2
    max_scanned = 2
    Budgets = {3}
    MaxSlot = 2

SPECIFICATION FairSpec
INVARIANTS ConflictsOneThread BatchesDisjoint ContainerSound
PROPERTIES LocksSpec ComesBack
