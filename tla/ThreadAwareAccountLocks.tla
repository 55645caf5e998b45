----------------------- MODULE ThreadAwareAccountLocks -----------------------
(***************************************************************************)
(* The account locks of the central schedulers, from scheduling-utils/src/ *)
(* thread_aware_account_locks.rs.  A lock belongs to a worker thread: a    *)
(* transaction may be queued behind a conflicting one as long as it goes   *)
(* to the thread that holds the locks.  For each account the code keeps    *)
(* the thread that writes it with a count of its write locks, and the set  *)
(* of threads that read it with a count for each.                          *)
(*                                                                         *)
(* The component by itself: a scheduler locks the accounts of a            *)
(* transaction for a thread it selects among the schedulable ones, and     *)
(* unlocks them for that thread later.  The keys of a transaction are      *)
(* distinct (receive_and_buffer.rs, validate_account_locks), so the loops  *)
(* over its accounts visit each account once.                              *)
(***************************************************************************)
EXTENDS Naturals, FiniteSets

CONSTANTS Thread,    \* 0 .. num_threads - 1
          Account,
          Tx,        \* transactions that may be locked
          Writes(_), \* the writable accounts of a transaction
          Reads(_),  \* its read-only accounts
          NoThread   \* None

ASSUME ThreadAssumption == NoThread \notin Thread

ASSUME TxAssumption ==
    /\ IsFiniteSet(Tx)
    /\ \A x \in Tx : /\ Writes(x) \subseteq Account
                     /\ Reads(x) \subseteq Account
                     /\ Writes(x) \cap Reads(x) = {}

VARIABLES locks,     \* the lock entry of each account
          holder     \* history: the thread a transaction is locked for

lock_vars == <<locks, holder>>

\* An account without an entry: no write locks, no read locks.
NoLocks == [writer |-> NoThread, write_count |-> 0,
            readers |-> {}, read_counts |-> [t \in Thread |-> 0]]

\* Mutant: only the writer counts; a writable account may be taken from its readers.
schedulable_threads_ReadsIgnored(a, write) ==
    IF locks[a].writer # NoThread THEN {locks[a].writer} ELSE Thread

\* Threads on which account a can be locked, for writing or for reading.
\* With both kinds of locks the code returns the readers and asserts that
\* they are the writer alone.
schedulable_threads(a, write) ==
    LET l == locks[a] IN
    CASE l.writer # NoThread /\ l.readers = {} -> {l.writer}
      [] l.writer # NoThread /\ l.readers # {} -> l.readers
      [] l.writer = NoThread /\ (l.readers = {} \/ ~write) -> Thread
      [] OTHER -> {t \in Thread : l.readers = {t}}

accounts_schedulable_threads(x) ==
    {t \in Thread : /\ \A a \in Writes(x) : t \in schedulable_threads(a, TRUE)
                    /\ \A a \in Reads(x) : t \in schedulable_threads(a, FALSE)}

write_lock_account(l, t) ==
    [writer |-> t, write_count |-> l.write_count + 1,
     readers |-> l.readers, read_counts |-> l.read_counts]

read_lock_account(l, t) ==
    [writer |-> l.writer, write_count |-> l.write_count,
     readers |-> l.readers \cup {t}, read_counts |-> [l.read_counts EXCEPT ![t] = @ + 1]]

lock_accounts(x, t) ==
    locks' = [a \in Account |->
                IF a \in Writes(x) THEN write_lock_account(locks[a], t)
                ELSE IF a \in Reads(x) THEN read_lock_account(locks[a], t)
                ELSE locks[a]]

write_unlock_account(l, t) ==
    [writer |-> IF l.write_count = 1 THEN NoThread ELSE l.writer,
     write_count |-> l.write_count - 1,
     readers |-> l.readers, read_counts |-> l.read_counts]

read_unlock_account(l, t) ==
    [writer |-> l.writer, write_count |-> l.write_count,
     readers |-> IF l.read_counts[t] = 1 THEN l.readers \ {t} ELSE l.readers,
     read_counts |-> [l.read_counts EXCEPT ![t] = @ - 1]]

Unlocked(x, t) ==
    [a \in Account |->
        IF a \in Writes(x) THEN write_unlock_account(locks[a], t)
        ELSE IF a \in Reads(x) THEN read_unlock_account(locks[a], t)
        ELSE locks[a]]
-----------------------------------------------------------------------------
\* The caller's allowed threads and its selector pick any schedulable thread.
try_lock_accounts(x) ==
    /\ holder[x] = NoThread
    /\ \E t \in accounts_schedulable_threads(x) :
          /\ lock_accounts(x, t)
          /\ holder' = [holder EXCEPT ![x] = t]

unlock_accounts(x) ==
    /\ holder[x] # NoThread
    /\ locks' = Unlocked(x, holder[x])
    /\ holder' = [holder EXCEPT ![x] = NoThread]

LocksInit ==
    /\ locks = [a \in Account |-> NoLocks]
    /\ holder = [x \in Tx |-> NoThread]

LocksNext == \E x \in Tx : try_lock_accounts(x) \/ unlock_accounts(x)

LocksSpec == LocksInit /\ [][LocksNext]_lock_vars
-----------------------------------------------------------------------------
Entry == [writer : Thread \cup {NoThread}, write_count : Nat,
          readers : SUBSET Thread, read_counts : [Thread -> Nat]]

LocksTypeOK ==
    /\ locks \in [Account -> Entry]
    /\ holder \in [Tx -> Thread \cup {NoThread}]

WritersOf(a, t) == {x \in Tx : holder[x] = t /\ a \in Writes(x)}
ReadersOf(a, t) == {x \in Tx : holder[x] = t /\ a \in Reads(x)}

\* The lock entries count exactly the transactions that are locked, thread by
\* thread: no lock outlives its transaction (the account would stay bound to
\* one thread for ever), and none is given up while another transaction of
\* the same thread still needs it.
LocksExact ==
    \A a \in Account :
        LET l == locks[a] IN
        /\ l.write_count = (IF l.writer = NoThread THEN 0
                            ELSE Cardinality(WritersOf(a, l.writer)))
        /\ l.readers = {t \in Thread : ReadersOf(a, t) # {}}
        /\ \A t \in Thread :
              /\ l.read_counts[t] = Cardinality(ReadersOf(a, t))
              /\ WritersOf(a, t) # {} <=> l.writer = t

Conflict(x, y) ==
    \/ Writes(x) \cap (Writes(y) \cup Reads(y)) # {}
    \/ Writes(y) \cap Reads(x) # {}

\* Transactions that conflict are locked for one and the same thread, which
\* executes its work in order; this is also what the assertions of
\* schedulable_threads, write_lock_account and read_lock_account need.
ConflictsOneThread ==
    \A x, y \in Tx :
        Conflict(x, y) /\ holder[x] # NoThread /\ holder[y] # NoThread
            => holder[x] = holder[y]
=============================================================================
