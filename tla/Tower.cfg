SPECIFICATION Spec
CONSTANTS
    MAX_LOCKOUT_HISTORY = 2
    MAX_ENTRIES = 2
    Slot <- MCSlot
    Forks <- MCForks
    MaxMishaps = 2
    MaxQueued = 1
INVARIANTS
    LockoutRespected
    VotesAccepted
    NoPanic
    RootsAgree
CHECK_DEADLOCK FALSE
