CONSTANTS
    a1 = a1
    b1 = b1
    b2 = b2
    Task = {1, 2, 3}
    Addr = {a1}
    Usages <- MCUsages
    MaxRunning = 4
    Bank = {b1, b2}
    BankOf <- MCBankOf
    Handler = {h1, h2}
    MaxTimeouts <- MCMaxTimeouts
SPECIFICATION PoolFairSpec
INVARIANTS OnlyInItsBank ResultExact NoPanic
PROPERTY CallReturns
CHECK_DEADLOCK FALSE
