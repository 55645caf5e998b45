--------------------------- MODULE DevinScheduler ---------------------------
(***************************************************************************)
(* The scheduler that hands the transactions of a whole block to the      *)
(* block stage's worker threads (core/src/block_stage/devin_scheduler.rs). *)
(*                                                                         *)
(* The block is a sequence of transactions, numbered from 0.  pop() takes  *)
(* the next contiguous range whose accounts are free, finish() gives the   *)
(* accounts of a range back.  A transaction that is skipped locks its      *)
(* accounts too, so that no later transaction overtakes it.                *)
(*                                                                         *)
(* A transaction is the set of accounts it reads, the set it writes and    *)
(* its cost.  A Range<usize> is the set of the indices in it.  A lock map  *)
(* is a total function: an account without an entry has lock 0.            *)
(***************************************************************************)
EXTENDS Integers, Sequences, FiniteSets, FiniteSetsExt

CONSTANTS
    Accounts,   \* the account keys
    Blocks,     \* the transaction slices init() may be given
    MAX_COST,   \* batch cost after which pop() stops extending a range
    MAX_RANGE,  \* most transactions pop() looks at
    LockMax     \* u32::MAX, the lock value of a writer

VARIABLES
    transactions,   \* the slice all calls are about
    running_locks,  \* locks of the popped, unfinished transactions
    skipped_locks,  \* locks of the skipped, unpopped transactions
    indices,        \* the unpopped transactions, in order
    next,           \* how many of them are skipped
    completed,      \* how many transactions are finished
    finished,       \* all of them are
    running         \* the ranges popped and not finished (held by the caller)

vars == <<transactions, running_locks, skipped_locks, indices, next, completed,
          finished, running>>

Transaction == [read : SUBSET Accounts, write : SUBSET Accounts, cost : Nat]

Txs == DOMAIN transactions

(***************************************************************************)
(* Account keys of a transaction are distinct; reader counts stay below    *)
(* u32::MAX because a block has far fewer transactions than that.          *)
(***************************************************************************)
ASSUME BlocksAssumption ==
    \A b \in Blocks : \E n \in 0..(LockMax - 1) :
        /\ b \in [0..(n - 1) -> Transaction]
        /\ \A i \in 0..(n - 1) : b[i].read \cap b[i].write = {}

ASSUME LimitsAssumption ==
    LockMax \in Nat \ {0} /\ MAX_RANGE \in Nat \ {0} /\ MAX_COST \in Nat

-----------------------------------------------------------------------------
(* Lock maps *)

\* Transaction i needs an account that the lock map does not leave to it.
is_blocked(i, locks) ==
    \/ \E a \in transactions[i].read : locks[a] = LockMax
    \/ \E a \in transactions[i].write : locks[a] # 0

SaturatingAdd(v, k) == IF v + k > LockMax THEN LockMax ELSE v + k
SaturatingSub(v, k) == IF v < k THEN 0 ELSE v - k

Writers(S, a) == {i \in S : a \in transactions[i].write}
Readers(S, a) == {i \in S : a \in transactions[i].read}

\* The accounts of the transactions S added to (removed from) a lock map, one
\* transaction after the other: the order makes no difference.
lock_accounts(S, locks) ==
    [a \in Accounts |->
        IF Writers(S, a) # {} THEN LockMax
        ELSE SaturatingAdd(locks[a], Cardinality(Readers(S, a)))]

unlock_accounts(S, locks) ==
    [a \in Accounts |->
        IF Writers(S, a) # {} THEN 0
        ELSE SaturatingSub(locks[a], Cardinality(Readers(S, a)))]

NoLocks == [a \in Accounts |-> 0]

-----------------------------------------------------------------------------
(* pop() *)

\* The m-th transaction the loop looks at.
Candidate(m) == indices[next + m]

\* The first k of them.
Scanned(k) == {Candidate(m) : m \in 1..k}

Cost(S) == MapThenSumSet(LAMBDA i : transactions[i].cost, S)

\* Mutant: off by one in the test of the range size.
Reaches_OneMore(k) ==
    /\ k <= MAX_RANGE
    /\ next + k + 1 <= Len(indices)
    /\ k > 0 => /\ Candidate(k + 1) = Candidate(k) + 1
                /\ Cost(Scanned(k)) <= MAX_COST

\* The loop reaches candidate k + 1 having scheduled the k before it: there is
\* one within MAX_RANGE, it continues the range, and the cost is not used up.
Reaches(k) ==
    /\ k + 1 <= MAX_RANGE
    /\ next + k + 1 <= Len(indices)
    /\ k > 0 => /\ Candidate(k + 1) = Candidate(k) + 1
                /\ Cost(Scanned(k)) <= MAX_COST

\* Mutant: the locks of skipped transactions are not looked at.
BlockedAt_IgnoresSkipped(k) ==
    is_blocked(Candidate(k + 1), lock_accounts(Scanned(k), running_locks))

\* ... and finds it blocked by a running transaction (one of the k included) or
\* by a skipped one.
BlockedAt(k) ==
    \/ is_blocked(Candidate(k + 1), lock_accounts(Scanned(k), running_locks))
    \/ is_blocked(Candidate(k + 1), skipped_locks)

\* The loop schedules exactly the first k candidates.
Schedules(k) ==
    /\ \A m \in 0..(k - 1) : Reaches(m) /\ ~BlockedAt(m)
    /\ ~(Reaches(k) /\ ~BlockedAt(k))

\* Vec::drain: s without the k elements after position p.
Drain(s, p, k) ==
    [q \in 1..(Len(s) - k) |-> IF q <= p THEN s[q] ELSE s[q + k]]

\* The call that returns the range of the first k candidates; 0 is None.  The
\* range starts at position `next` of indices, where the loop found it.
pop(k) ==
    /\ Schedules(k)
    /\ running_locks' = lock_accounts(Scanned(k), running_locks)
    /\ IF Reaches(k)
       THEN /\ next' = next + 1
            /\ skipped_locks' =
                   lock_accounts({Candidate(k + 1)}, skipped_locks)
       ELSE UNCHANGED <<next, skipped_locks>>
    /\ indices' = Drain(indices, next, k)
    /\ running' = IF k = 0 THEN running ELSE running \cup {Scanned(k)}
    /\ UNCHANGED <<transactions, completed, finished>>

-----------------------------------------------------------------------------
(* finish() and init() *)

finish(range) ==
    /\ range \in running
    /\ running' = running \ {range}
    /\ completed' = completed + Cardinality(range)
    /\ running_locks' = unlock_accounts(range, running_locks)
    /\ skipped_locks' = NoLocks
    /\ next' = 0
    /\ finished' = (completed' = Cardinality(Txs))
    /\ UNCHANGED <<transactions, indices>>

\* Mutant: completed is not reset for the next block.
init_KeepsCompleted(txs) ==
    /\ transactions' = txs
    /\ running_locks' = NoLocks
    /\ skipped_locks' = NoLocks
    /\ indices' = [p \in 1..Cardinality(DOMAIN txs) |-> p - 1]
    /\ next' = 0
    /\ finished' = FALSE
    /\ running' = {}
    /\ UNCHANGED completed

\* The caller has dropped whatever the previous block left unfinished.
init(txs) ==
    /\ transactions' = txs
    /\ running_locks' = NoLocks
    /\ skipped_locks' = NoLocks
    /\ indices' = [p \in 1..Cardinality(DOMAIN txs) |-> p - 1]
    /\ next' = 0
    /\ completed' = 0
    /\ finished' = FALSE
    /\ running' = {}

-----------------------------------------------------------------------------
(* The specification *)

\* BlockConsumer::new(): an empty scheduler, and no slice yet.
Init ==
    /\ transactions = <<>>
    /\ running_locks = NoLocks
    /\ skipped_locks = NoLocks
    /\ indices = <<>>
    /\ next = 0
    /\ completed = 0
    /\ finished = FALSE
    /\ running = {}

Pop == \E k \in 0..(Len(indices) - next) : pop(k)
Finish == \E range \in running : finish(range)
InitBlock == \E b \in Blocks : init(b)

Next == Pop \/ Finish \/ InitBlock

Spec == Init /\ [][Next]_vars
-----------------------------------------------------------------------------
(* Properties *)

Waiting == {indices[p] : p \in 1..Len(indices)}
Running == UNION running
Done == Txs \ (Waiting \cup Running)

Conflict(i, j) ==
    \/ transactions[i].write \cap transactions[j].write # {}
    \/ transactions[i].write \cap transactions[j].read # {}
    \/ transactions[i].read \cap transactions[j].write # {}

(***************************************************************************)
(* The fields of DevinScheduler have their types.                          *)
(***************************************************************************)
TypeOK ==
    /\ transactions \in Blocks \cup {<<>>}
    /\ running_locks \in [Accounts -> 0..LockMax]
    /\ skipped_locks \in [Accounts -> 0..LockMax]
    /\ indices \in Seq(Txs)
    /\ next \in 0..Len(indices)
    /\ completed \in 0..Cardinality(Txs)
    /\ finished \in BOOLEAN
    /\ running \in SUBSET ((SUBSET Txs) \ {{}})

(***************************************************************************)
(* Parallel execution keeps the block's order: a transaction is handed out *)
(* by pop() only when every earlier transaction that touches one of its    *)
(* accounts (one of the two writing it) is finished.  In particular two    *)
(* conflicting transactions never run at the same time, and a transaction  *)
(* that was skipped is never overtaken by one that conflicts with it.      *)
(***************************************************************************)
ConflictOrder ==
    \A i, j \in Txs :
        i < j /\ Conflict(i, j) /\ j \notin Waiting => i \in Done

(***************************************************************************)
(* Every transaction is handed out exactly once: the waiting ones, the     *)
(* ranges in flight and the finished ones are disjoint, `completed` counts *)
(* the last, and `finished` is set exactly when the whole block is done.   *)
(***************************************************************************)
ExactlyOnce ==
    /\ \A p, q \in 1..Len(indices) : p < q => indices[p] < indices[q]
    /\ Waiting \cap Running = {}
    /\ \A r, s \in running : r # s => r \cap s = {}
    /\ completed = Cardinality(Done)
    /\ finished => Done = Txs
    /\ Done = Txs /\ Txs # {} => finished

(***************************************************************************)
(* The scheduler cannot starve itself: when nothing is in flight no lock   *)
(* is left behind and nothing is skipped, so the next pop() returns work   *)
(* as long as a transaction is waiting.                                    *)
(***************************************************************************)
IdleIsUnlocked ==
    running = {} => /\ next = 0
                    /\ running_locks = NoLocks
                    /\ skipped_locks = NoLocks
=============================================================================
