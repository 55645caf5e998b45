CONSTANTS
    s1 = s1
    s2 = s2
    Senders = {s1, s2}
    INSERTIONS = 4
    BANK_IDS = 3
    Records <- MCRecords
    Track = TRUE
    MaxIndex = 3
SPECIFICATION FairSpec
INVARIANTS CurrentBank Drained IndexMatches
PROPERTIES MessageHandled IsQueue
CHECK_DEADLOCK FALSE
