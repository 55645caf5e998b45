CONSTANTS
    a1 = a1
    a2 = a2
    a3 = a3
    MaxTxs = 4
    Accounts <- MCAccounts
    Blocks <- MCBlocks
    MAX_COST = 2
    MAX_RANGE = 2
    LockMax = 7
SPECIFICATION Spec
INVARIANTS ConflictOrder ExactlyOnce ClosedForms
