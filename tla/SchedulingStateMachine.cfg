CONSTANTS
    a1 = a1
    a2 = a2
    Task = {1, 2, 3}
    Addr = {a1, a2}
    Usages <- MCUsages
    MaxRunning = 2
SPECIFICATION Spec
INVARIANTS RunnableExclusive ArrivalOrder NoDeadlock
CHECK_DEADLOCK FALSE
