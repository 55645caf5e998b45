CONSTANTS
    a1 = a1
    a2 = a2
    Accounts <- MCAccounts
    Blocks <- MCBlocks
    Others <- MCOthers
    MAX_COST = 5
    MAX_RANGE = 3
    LockMax = 9
    NUM_THREADS = 2
    FaultSets = {{"timeout"}}
SPECIFICATION ConsumerSpec
INVARIANT RecordedIsExecuted
