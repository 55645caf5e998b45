CONSTANTS
    a1 = a1
    a2 = a2
    Accounts <- MCAccounts
    Blocks <- MCBlocks
    Others <- MCOthers
    MAX_COST = 5
    MAX_RANGE = 3
    LockMax = 9
    NUM_THREADS = 2
    FaultSets = {{"contention"}, {"timeout", "panic"}}
SPECIFICATION FairSpec
INVARIANTS SerialReads CommitLocked NothingLost
PROPERTIES SerialSpec BlockCompletes NoZombie
CHECK_DEADLOCK FALSE
