------------------------- MODULE MCUnifiedScheduler -------------------------
(* UnifiedScheduler for TLC: a block of two transactions, of which the      *)
(* first reads or writes the account the second reads, and a block of one.  *)
EXTENDS UnifiedScheduler

CONSTANTS b1, b2, a1

MCBankOf == [t \in Task |-> IF t = 3 THEN b2 ELSE b1]
MCUsages == [t \in Task |->
    {[a \in Addr |-> u] : u \in IF t = 1 THEN {"Readonly", "Writable"} ELSE {"Readonly"}}]
MCMaxTimeouts == [b \in Bank |-> IF b = b1 THEN 2 ELSE 0]
=============================================================================
