----------------------------- MODULE SerialBlock -----------------------------
(***************************************************************************)
(* What the execution of a block promises: transactions are committed in   *)
(* groups, each at once, and a group only after every earlier transaction  *)
(* that conflicts with one of its members.  An account then holds what the *)
(* last transaction of the block's order that wrote it left there.         *)
(***************************************************************************)
EXTENDS Integers, FiniteSets, FiniteSetsExt

CONSTANTS Accounts, Blocks

VARIABLES transactions,  \* the block
          committed,     \* its committed transactions
          processed,     \* those of them that were processed
          store          \* account values

vars == <<transactions, committed, processed, store>>

Txs == DOMAIN transactions

Conflict(i, j) ==
    \/ transactions[i].write \cap transactions[j].write # {}
    \/ transactions[i].write \cap transactions[j].read # {}
    \/ transactions[i].read \cap transactions[j].write # {}

LastWriter(P, a) ==
    LET W == {i \in P : a \in transactions[i].write} IN
    IF W = {} THEN 0 ELSE Max(W) + 1

Init ==
    /\ transactions = <<>>
    /\ committed = {} /\ processed = {}
    /\ store = [a \in Accounts |-> 0]

NewBlock(b) ==
    /\ transactions' = b
    /\ committed' = {} /\ processed' = {}
    /\ store' = [a \in Accounts |-> 0]

\* The group is free of conflicts itself.
CommitGroup(G) ==
    /\ committed' = committed \cup G
    /\ \A j \in G : \A i \in Txs : i < j /\ Conflict(i, j) => i \in committed
    /\ \E P \in SUBSET G : processed' = processed \cup P
    /\ store' = [a \in Accounts |-> LastWriter(processed', a)]
    /\ UNCHANGED transactions

Next ==
    \/ \E b \in Blocks : NewBlock(b)
    \/ \E G \in (SUBSET (Txs \ committed)) \ {{}} : CommitGroup(G)

Spec == Init /\ [][Next]_vars
=============================================================================
