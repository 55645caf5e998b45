-------------------------- MODULE MCDevinScheduler --------------------------
(* DevinScheduler for TLC: every block of MaxTxs cheap transactions over two *)
(* accounts, and longer blocks chosen for their costs and lock chains.       *)
EXTENDS DevinScheduler

CONSTANTS a1, a2, a3, MaxTxs

MCAccounts == {a1, a2, a3}

Tx(r, w, c) == [read |-> r, write |-> w, cost |-> c]

\* A transaction writes at least the account of its fee payer.
CheapTxs == {t \in [read : SUBSET {a1, a2}, write : SUBSET {a1, a2}, cost : {1}] :
                t.read \cap t.write = {} /\ t.write # {}}

FromZero(s) == [i \in 0..(Len(s) - 1) |-> s[i + 1]]

A(c) == Tx({}, {a1}, c)
B(c) == Tx({}, {a2}, c)
C(c) == Tx({}, {a3}, c)
AB(c) == Tx({}, {a1, a2}, c)
BreadsA(c) == Tx({a1}, {a2}, c)
CreadsA(c) == Tx({a1}, {a3}, c)

LongBlocks == {
    FromZero(<<A(1), B(1), C(1), AB(1), B(1)>>),
    FromZero(<<A(3), B(1), C(1), B(3), AB(1)>>),
    FromZero(<<BreadsA(1), CreadsA(3), A(1), BreadsA(1), CreadsA(1)>>),
    FromZero(<<A(1), A(1), B(1), C(1), AB(1), C(1)>>),
    FromZero(<<CreadsA(1), BreadsA(1), B(1), A(1), C(1)>>) }

MCBlocks == [0..(MaxTxs - 1) -> CheapTxs] \cup LongBlocks
=============================================================================
