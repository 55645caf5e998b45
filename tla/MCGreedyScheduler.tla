-------------------------- MODULE MCGreedyScheduler --------------------------
(***************************************************************************)
(* The instance of GreedyScheduler: two workers and a container for two    *)
(* transactions, of three.  1 and 2 read the same account and may run on   *)
(* both workers at once; 3 writes what both read and what 2 writes, so it  *)
(* conflicts with one or with both of them.  The accounts that only one    *)
(* transaction uses (its fee payer) are left out.                          *)
(***************************************************************************)
EXTENDS GreedyScheduler

MCWrites(x) == CASE x = 1 -> {} [] x = 2 -> {"B"} [] x = 3 -> {"A", "B"}
MCReads(x)  == IF x = 3 THEN {} ELSE {"A"}
MCPriority(x) == x
MCCost(x) == 1
=============================================================================
