-------------------------- MODULE MCBlockConsumer --------------------------
(* BlockConsumer for TLC: blocks of three transactions of four kinds       *)
(* over two accounts, and longer ones chosen so that ranges of several,    *)
(* skipped transactions, shared readers and chains of conflicts occur.     *)
(* The fee payer, which a transaction always writes, is left out where it  *)
(* is an account of the transaction's own.                                 *)
EXTENDS BlockConsumer

CONSTANTS a1, a2

MCAccounts == {a1, a2}

Tx(r, w) == [read |-> r, write |-> w, cost |-> 1]
FromZero(s) == [i \in 0 .. (Len(s) - 1) |-> s[i + 1]]

A  == Tx({}, {a1})
B  == Tx({}, {a2})
AB == Tx({}, {a1, a2})
BreadsA == Tx({a1}, {a2})
ReadsA == Tx({a1}, {})
ReadsB == Tx({a2}, {})

\* Dearer than a range may be: a range of its own.
Alone(t) == [t EXCEPT !.cost = 9]

\* What other stages may have in hand when the bank has ended.
MCOthers == {[read |-> {}, write |-> {a1}]}

\* Up to the names of the accounts; every block of three begins with a writer.
MCBlocks ==
    {b \in [0 .. 2 -> {A, AB, BreadsA, ReadsA}] : b[0] \in {A, BreadsA} /\ b[1] # AB}
    \cup {
    FromZero(<<A, ReadsA, ReadsA, A>>),
    FromZero(<<AB, BreadsA, ReadsB, A>>),
    FromZero(<<Alone(A), Alone(A), Alone(B), BreadsA>>),
    FromZero(<<Alone(ReadsA), Alone(ReadsA), AB>>) }
=============================================================================
