------------------------ MODULE GreedyScheduler_pool ------------------------
(***************************************************************************)
(* Lemmas for GreedyScheduler_proof, for any threads, accounts,            *)
(* transactions and limits.                                                *)
(*                                                                         *)
(* The account locks by themselves (ThreadAwareAccountLocks): the lock     *)
(* entries count exactly the locked transactions, and conflicting          *)
(* transactions are locked for one thread.                                 *)
(*                                                                         *)
(* The batches of the greedy scheduler are kept as a pool, a function from *)
(* the places a batch can be at to what is there.  Sending, taking up,     *)
(* answering and receiving a batch move it from place to place and leave   *)
(* its content alone; scheduling adds to it, and completing it empties     *)
(* its place.  The inductive invariant says of the pool that each taken    *)
(* entry of the container is in it once, locked for the thread of its      *)
(* batch.                                                                  *)
(***************************************************************************)
EXTENDS GreedyScheduler, FiniteCounting, TLAPS

\* Most steps need no arithmetic: Zenon proves them unless SMT is named.
USE ZenonT(40)
-----------------------------------------------------------------------------
(***************************************************************************)
(* The account locks by themselves.                                        *)
(***************************************************************************)
\* While an account is locked for writing, only the writing thread reads it.
WriterReadsAlone ==
    \A a \in Account : locks[a].writer # NoThread => locks[a].readers \subseteq {locks[a].writer}

\* The inductive invariant.
LocksIInv == LocksTypeOK /\ LocksExact /\ WriterReadsAlone

\* Sets of transactions are finite, and their sizes are what counting them
\* up and down gives.
LEMMA CountOne ==
    ASSUME Counting, NEW S \in SUBSET Tx, NEW x \in Tx
    PROVE  /\ Cardinality(S) \in Nat
           /\ Cardinality(S) = 0 <=> S = {}
           /\ x \notin S => Cardinality(S \cup {x}) = Cardinality(S) + 1
           /\ x \in S => Cardinality(S \ {x}) = Cardinality(S) - 1
<1>1. IsFiniteSet(S)
  BY TxAssumption DEF Counting, FiniteSubset
<1> QED
  BY <1>1 DEF Counting, FiniteSize, FiniteEmpty, FiniteAdd, FiniteRemove

\* The operations keep an entry an entry.
LEMMA EntryType ==
    ASSUME NEW l \in Entry, NEW t \in Thread
    PROVE  /\ write_lock_account(l, t) \in Entry
           /\ read_lock_account(l, t) \in Entry
           /\ l.write_count > 0 => write_unlock_account(l, t) \in Entry
           /\ l.read_counts[t] > 0 => read_unlock_account(l, t) \in Entry
<1>1. /\ l.writer \in Thread \cup {NoThread} /\ l.write_count \in Nat
      /\ l.readers \in SUBSET Thread /\ l.read_counts \in [Thread -> Nat]
  BY DEF Entry
<1>2. write_lock_account(l, t) \in Entry
  BY <1>1, SMTT(30) DEF Entry, write_lock_account
<1>3. read_lock_account(l, t) \in Entry
  BY <1>1, SMTT(30) DEF Entry, read_lock_account
<1>4. l.write_count > 0 => write_unlock_account(l, t) \in Entry
  BY <1>1, SMTT(30) DEF Entry, write_unlock_account
<1>5. l.read_counts[t] > 0 => read_unlock_account(l, t) \in Entry
  BY <1>1, SMTT(30) DEF Entry, read_unlock_account
<1> QED
  BY <1>2, <1>3, <1>4, <1>5

\* A thread that may lock x can take each of its accounts: nobody writes it on
\* another thread and, for a writable account, nobody reads it on another one.
LEMMA SchedulableFacts ==
    ASSUME LocksIInv, NEW x \in Tx, NEW t \in accounts_schedulable_threads(x)
    PROVE  /\ t \in Thread
           /\ \A a \in Writes(x) : /\ locks[a].writer \in {NoThread, t}
                                   /\ locks[a].readers \subseteq {t}
           /\ \A a \in Reads(x) : locks[a].writer \in {NoThread, t}
<1>1. t \in Thread
  BY DEF accounts_schedulable_threads
<1>2. ASSUME NEW a \in Writes(x)
      PROVE  locks[a].writer \in {NoThread, t} /\ locks[a].readers \subseteq {t}
  <2>1. a \in Account /\ t \in schedulable_threads(a, TRUE)
    BY TxAssumption DEF accounts_schedulable_threads
  <2> QED
    BY <1>1, <2>1 DEF schedulable_threads, LocksIInv, LocksTypeOK, Entry, WriterReadsAlone
<1>3. ASSUME NEW a \in Reads(x)
      PROVE  locks[a].writer \in {NoThread, t}
  <2>1. a \in Account /\ t \in schedulable_threads(a, FALSE)
    BY TxAssumption DEF accounts_schedulable_threads
  <2> QED
    BY <1>1, <2>1 DEF schedulable_threads, LocksIInv, LocksTypeOK, Entry, WriterReadsAlone
<1> QED
  BY <1>1, <1>2, <1>3

\* Locking x for thread t adds x to the writers or the readers on t of each of
\* its accounts, and changes no other set.
LEMMA LockedSets ==
    ASSUME NEW x \in Tx, NEW t \in Thread, holder \in [Tx -> Thread \cup {NoThread}],
           holder[x] = NoThread, holder' = [holder EXCEPT ![x] = t],
           NEW a \in Account, NEW u \in Thread
    PROVE  /\ x \notin WritersOf(a, u) /\ x \notin ReadersOf(a, u)
           /\ WritersOf(a, u)' = IF u = t /\ a \in Writes(x)
                                 THEN WritersOf(a, u) \cup {x} ELSE WritersOf(a, u)
           /\ ReadersOf(a, u)' = IF u = t /\ a \in Reads(x)
                                 THEN ReadersOf(a, u) \cup {x} ELSE ReadersOf(a, u)
BY ThreadAssumption DEF WritersOf, ReadersOf

\* Unlocking x removes it from those sets.
LEMMA UnlockedSets ==
    ASSUME NEW x \in Tx, holder \in [Tx -> Thread \cup {NoThread}],
           holder[x] # NoThread, holder' = [holder EXCEPT ![x] = NoThread],
           NEW a \in Account, NEW u \in Thread
    PROVE  /\ x \in WritersOf(a, u) <=> u = holder[x] /\ a \in Writes(x)
           /\ x \in ReadersOf(a, u) <=> u = holder[x] /\ a \in Reads(x)
           /\ WritersOf(a, u)' = WritersOf(a, u) \ {x}
           /\ ReadersOf(a, u)' = ReadersOf(a, u) \ {x}
BY ThreadAssumption DEF WritersOf, ReadersOf

\* What LocksExact and WriterReadsAlone say of one account.
Exact(a) ==
    LET l == locks[a] IN
    /\ l.write_count = (IF l.writer = NoThread THEN 0 ELSE Cardinality(WritersOf(a, l.writer)))
    /\ l.readers = {t \in Thread : ReadersOf(a, t) # {}}
    /\ \A t \in Thread : /\ l.read_counts[t] = Cardinality(ReadersOf(a, t))
                         /\ WritersOf(a, t) # {} <=> l.writer = t
    /\ l.writer # NoThread => l.readers \subseteq {l.writer}

\* LocksExact and WriterReadsAlone, account by account.
LEMMA ExactEach == LocksExact /\ WriterReadsAlone <=> \A a \in Account : Exact(a)
BY DEF LocksExact, WriterReadsAlone, Exact

\* try_lock_accounts keeps the invariant.
LEMMA LockStep ==
    ASSUME Counting, LocksIInv, NEW x \in Tx, try_lock_accounts(x)
    PROVE  LocksIInv'
<1> USE DEF LocksIInv
<1>1. PICK t \in accounts_schedulable_threads(x) :
          lock_accounts(x, t) /\ holder' = [holder EXCEPT ![x] = t]
  BY DEF try_lock_accounts
<1>2. t \in Thread /\ holder[x] = NoThread /\ holder \in [Tx -> Thread \cup {NoThread}]
  BY <1>1, SchedulableFacts DEF try_lock_accounts, LocksTypeOK
<1>3. ASSUME NEW a \in Account
      PROVE  /\ locks'[a] \in Entry
             /\ Exact(a)'
  <2>1. Exact(a)
    BY ExactEach
  <2>2. locks[a] \in Entry
    BY DEF LocksTypeOK
  <2>3. \A u \in Thread :
           /\ WritersOf(a, u)' = IF u = t /\ a \in Writes(x)
                                 THEN WritersOf(a, u) \cup {x} ELSE WritersOf(a, u)
           /\ ReadersOf(a, u)' = IF u = t /\ a \in Reads(x)
                                 THEN ReadersOf(a, u) \cup {x} ELSE ReadersOf(a, u)
    BY <1>1, <1>2, LockedSets
  <2>4. /\ Cardinality(WritersOf(a, t) \cup {x}) = Cardinality(WritersOf(a, t)) + 1
        /\ Cardinality(ReadersOf(a, t) \cup {x}) = Cardinality(ReadersOf(a, t)) + 1
        /\ Cardinality({}) = 0
    <3>1. WritersOf(a, t) \in SUBSET Tx /\ ReadersOf(a, t) \in SUBSET Tx
      BY DEF WritersOf, ReadersOf
    <3>2. x \notin WritersOf(a, t) /\ x \notin ReadersOf(a, t)
      BY <1>1, <1>2, LockedSets
    <3> QED
      BY <3>1, <3>2, CountOne DEF Counting, FiniteEmpty
  <2>5. CASE a \in Writes(x)
    <3>1. a \notin Reads(x) /\ locks[a].writer \in {NoThread, t} /\ locks[a].readers \subseteq {t}
      BY <1>1, <2>5, SchedulableFacts, TxAssumption
    <3>2. /\ locks'[a].writer = t
          /\ locks'[a].write_count = locks[a].write_count + 1
          /\ locks'[a].readers = locks[a].readers
          /\ locks'[a].read_counts = locks[a].read_counts
      BY <1>1, <2>5 DEF lock_accounts, write_lock_account
    <3>3. locks[a].write_count = Cardinality(WritersOf(a, t))
      BY <1>2, <2>1, <2>4, <3>1, ThreadAssumption DEF Exact
    <3>4. locks'[a] \in Entry
      BY <1>1, <1>2, <2>2, <2>5, EntryType DEF lock_accounts
    <3>5. \A u \in Thread : /\ ReadersOf(a, u)' = ReadersOf(a, u)
                            /\ WritersOf(a, u)' # {} <=> u = t
      BY <1>2, <2>1, <2>3, <2>5, <3>1, ThreadAssumption, SMTT(30) DEF Exact
    <3>6. Cardinality(WritersOf(a, t)') = locks'[a].write_count
      BY <1>2, <2>3, <2>4, <2>5, <3>2, <3>3
    <3> QED
      BY <1>2, <2>1, <3>1, <3>2, <3>4, <3>5, <3>6, ThreadAssumption, SMTT(30) DEF Exact
  <2>6. CASE a \in Reads(x)
    <3>1. a \notin Writes(x) /\ locks[a].writer \in {NoThread, t}
      BY <1>1, <2>6, SchedulableFacts, TxAssumption
    <3>2. /\ locks'[a].writer = locks[a].writer
          /\ locks'[a].write_count = locks[a].write_count
          /\ locks'[a].readers = locks[a].readers \cup {t}
          /\ locks'[a].read_counts = [locks[a].read_counts EXCEPT ![t] = @ + 1]
      BY <1>1, <2>6, <3>1 DEF lock_accounts, read_lock_account
    <3>3. locks'[a] \in Entry
      BY <1>1, <1>2, <2>2, <2>6, <3>1, EntryType DEF lock_accounts
    <3>4. \A u \in Thread : /\ locks'[a].read_counts[u] = Cardinality(ReadersOf(a, u)')
                            /\ WritersOf(a, u)' = WritersOf(a, u)
      <4>1. \A u \in Thread : locks[a].read_counts[u] = Cardinality(ReadersOf(a, u))
        BY <2>1 DEF Exact
      <4>2. locks[a].read_counts \in [Thread -> Nat]
        BY <2>2 DEF Entry
      <4> QED
        BY <1>2, <2>3, <2>4, <2>6, <3>1, <3>2, <4>1, <4>2
    <3>5. locks'[a].readers = {u \in Thread : ReadersOf(a, u)' # {}}
      BY <1>2, <2>1, <2>3, <2>6, <3>2, SMTT(30) DEF Exact
    <3> QED
      BY <1>2, <2>1, <2>2, <3>1, <3>2, <3>3, <3>4, <3>5, ThreadAssumption, SMTT(30) DEF Exact
  <2>7. CASE a \notin Writes(x) /\ a \notin Reads(x)
    <3>1. locks'[a] = locks[a]
      BY <1>1, <2>7 DEF lock_accounts
    <3> QED
      BY <2>1, <2>2, <2>3, <2>7, <3>1, ThreadAssumption, SMTT(30) DEF Exact, Entry
  <2> QED
    BY <2>5, <2>6, <2>7
<1>4. LocksTypeOK'
  BY <1>1, <1>2, <1>3 DEF LocksTypeOK, lock_accounts
<1>5. LocksExact' /\ WriterReadsAlone'
  BY <1>3 DEF LocksExact, WriterReadsAlone, Exact
<1> QED
  BY <1>4, <1>5

\* unlock_accounts keeps the invariant.
LEMMA UnlockStep ==
    ASSUME Counting, LocksIInv, NEW x \in Tx, unlock_accounts(x)
    PROVE  LocksIInv'
<1> USE DEF LocksIInv
<1>0. PICK t \in Thread : holder[x] = t
  BY DEF unlock_accounts, LocksTypeOK
<1>1. /\ holder[x] # NoThread /\ holder \in [Tx -> Thread \cup {NoThread}]
      /\ locks' = Unlocked(x, t) /\ holder' = [holder EXCEPT ![x] = NoThread]
  BY <1>0 DEF unlock_accounts, LocksTypeOK
<1>2. ASSUME NEW a \in Account
      PROVE  /\ locks'[a] \in Entry
             /\ Exact(a)'
  <2>1. Exact(a)
    BY ExactEach
  <2>2. locks[a] \in Entry
    BY DEF LocksTypeOK
  <2>3. \A u \in Thread :
           /\ x \in WritersOf(a, u) <=> u = t /\ a \in Writes(x)
           /\ x \in ReadersOf(a, u) <=> u = t /\ a \in Reads(x)
           /\ WritersOf(a, u)' = WritersOf(a, u) \ {x}
           /\ ReadersOf(a, u)' = ReadersOf(a, u) \ {x}
    BY <1>0, <1>1, UnlockedSets
  <2>4. \A u \in Thread : WritersOf(a, u) \in SUBSET Tx /\ ReadersOf(a, u) \in SUBSET Tx
    BY DEF WritersOf, ReadersOf
  <2>5. \A u \in Thread :
           /\ u # t \/ a \notin Writes(x) => WritersOf(a, u)' = WritersOf(a, u)
           /\ u # t \/ a \notin Reads(x) => ReadersOf(a, u)' = ReadersOf(a, u)
    <3>1. ASSUME NEW u \in Thread, u # t \/ a \notin Writes(x)
          PROVE  WritersOf(a, u)' = WritersOf(a, u)
      <4>1. x \notin WritersOf(a, u) /\ WritersOf(a, u)' = WritersOf(a, u) \ {x}
        BY <2>3, <3>1
      <4> QED
        BY <4>1
    <3>2. ASSUME NEW u \in Thread, u # t \/ a \notin Reads(x)
          PROVE  ReadersOf(a, u)' = ReadersOf(a, u)
      <4>1. x \notin ReadersOf(a, u) /\ ReadersOf(a, u)' = ReadersOf(a, u) \ {x}
        BY <2>3, <3>2
      <4> QED
        BY <4>1
    <3> QED
      BY <3>1, <3>2
  <2>6. CASE a \in Writes(x)
    <3>1. a \notin Reads(x) /\ x \in WritersOf(a, t) /\ locks[a].writer = t
      BY <1>1, <2>1, <2>3, <2>6, TxAssumption DEF Exact
    <3>2. /\ locks'[a].writer = (IF locks[a].write_count = 1 THEN NoThread ELSE t)
          /\ locks'[a].write_count = locks[a].write_count - 1
          /\ locks'[a].readers = locks[a].readers
          /\ locks'[a].read_counts = locks[a].read_counts
      BY <1>1, <2>6, <3>1 DEF Unlocked, write_unlock_account
    <3>3. /\ locks[a].write_count = Cardinality(WritersOf(a, t))
          /\ locks[a].write_count \in Nat \ {0}
          /\ Cardinality(WritersOf(a, t)') = locks[a].write_count - 1
          /\ WritersOf(a, t)' = {} <=> locks[a].write_count = 1
      <4>1. WritersOf(a, t)' = WritersOf(a, t) \ {x} /\ WritersOf(a, t)' \in SUBSET Tx
        BY <1>1, <2>3, <2>4
      <4>2. locks[a].write_count = Cardinality(WritersOf(a, t))
        BY <1>1, <2>1, <3>1, ThreadAssumption DEF Exact
      <4>3. /\ Cardinality(WritersOf(a, t)) \in Nat \ {0}
            /\ Cardinality(WritersOf(a, t) \ {x}) = Cardinality(WritersOf(a, t)) - 1
        BY <2>4, <3>1, CountOne
      <4>4. Cardinality(WritersOf(a, t)') = 0 <=> WritersOf(a, t)' = {}
        BY <4>1, CountOne
      <4> QED
        BY ONLY <4>1, <4>2, <4>3, <4>4, SMTT(30)
    <3>4. locks'[a] \in Entry
      <4>1. locks[a].write_count > 0
        BY ONLY <3>3, SMTT(30)
      <4>2. locks'[a] = write_unlock_account(locks[a], t)
        BY <1>1, <2>6 DEF Unlocked
      <4> QED
        BY <1>1, <2>2, <4>1, <4>2, EntryType
    <3> QED
      BY <1>1, <2>1, <2>5, <2>6, <3>1, <3>2, <3>3, <3>4, ThreadAssumption, SMTT(30) DEF Exact
  <2>7. CASE a \in Reads(x)
    <3>1. a \notin Writes(x) /\ x \in ReadersOf(a, t) /\ t \in locks[a].readers
      BY <1>1, <2>1, <2>3, <2>7, TxAssumption DEF Exact
    <3>2. /\ locks'[a].writer = locks[a].writer
          /\ locks'[a].write_count = locks[a].write_count
          /\ locks'[a].readers = (IF locks[a].read_counts[t] = 1
                                  THEN locks[a].readers \ {t} ELSE locks[a].readers)
          /\ locks'[a].read_counts = [locks[a].read_counts EXCEPT ![t] = @ - 1]
      BY <1>1, <2>7, <3>1 DEF Unlocked, read_unlock_account
    <3>3. /\ locks[a].read_counts[t] \in Nat \ {0}
          /\ Cardinality(ReadersOf(a, t)') = locks[a].read_counts[t] - 1
          /\ ReadersOf(a, t)' = {} <=> locks[a].read_counts[t] = 1
      <4>1. ReadersOf(a, t)' = ReadersOf(a, t) \ {x} /\ ReadersOf(a, t)' \in SUBSET Tx
        BY <1>1, <2>3, <2>4
      <4>2. locks[a].read_counts[t] = Cardinality(ReadersOf(a, t))
        BY <1>1, <2>1 DEF Exact
      <4>3. /\ Cardinality(ReadersOf(a, t)) \in Nat \ {0}
            /\ Cardinality(ReadersOf(a, t) \ {x}) = Cardinality(ReadersOf(a, t)) - 1
        BY <2>4, <3>1, CountOne
      <4>4. Cardinality(ReadersOf(a, t)') = 0 <=> ReadersOf(a, t)' = {}
        BY <4>1, CountOne
      <4> QED
        BY ONLY <4>1, <4>2, <4>3, <4>4, SMTT(30)
    <3>4. locks'[a] \in Entry
      <4>1. locks[a].read_counts[t] > 0
        BY ONLY <3>3, SMTT(30)
      <4>2. locks'[a] = read_unlock_account(locks[a], t)
        BY <1>1, <2>7, <3>1 DEF Unlocked
      <4> QED
        BY <1>1, <2>2, <4>1, <4>2, EntryType
    <3>5. \A u \in Thread : /\ locks'[a].read_counts[u] = Cardinality(ReadersOf(a, u)')
                            /\ WritersOf(a, u)' = WritersOf(a, u)
      BY <2>1, <2>2, <2>5, <2>7, <3>1, <3>2, <3>3, SMTT(30) DEF Exact, Entry
    <3>6. locks'[a].readers = {u \in Thread : ReadersOf(a, u)' # {}}
      BY <2>1, <2>5, <2>7, <3>1, <3>2, <3>3, SMTT(30) DEF Exact
    <3> QED
      BY <2>1, <2>2, <3>2, <3>4, <3>5, <3>6, ThreadAssumption, SMTT(30) DEF Exact, Entry
  <2>8. CASE a \notin Writes(x) /\ a \notin Reads(x)
    <3>1. locks'[a] = locks[a]
      BY <1>1, <2>8 DEF Unlocked
    <3> QED
      BY <2>1, <2>2, <2>5, <2>8, <3>1, ThreadAssumption, SMTT(30) DEF Exact, Entry
  <2> QED
    BY <2>6, <2>7, <2>8
<1>3. LocksTypeOK'
  BY <1>1, <1>2 DEF LocksTypeOK, Unlocked
<1>4. LocksExact' /\ WriterReadsAlone'
  BY <1>2 DEF LocksExact, WriterReadsAlone, Exact
<1> QED
  BY <1>3, <1>4

\* Nothing is locked at first.
LEMMA LocksInitSound == ASSUME Counting, LocksInit PROVE LocksIInv
<1>1. LocksTypeOK
  BY DEF LocksInit, LocksTypeOK, Entry, NoLocks
<1>2. \A a \in Account, t \in Thread : WritersOf(a, t) = {} /\ ReadersOf(a, t) = {}
  BY ThreadAssumption DEF LocksInit, WritersOf, ReadersOf
<1>3. Cardinality({}) = 0
  BY DEF Counting, FiniteEmpty
<1>4. \A a \in Account :
         /\ locks[a].writer = NoThread /\ locks[a].write_count = 0
         /\ locks[a].readers = {} /\ locks[a].read_counts = [t \in Thread |-> 0]
  BY DEF LocksInit, NoLocks
<1>5. LocksExact
  <2> SUFFICES ASSUME NEW a \in Account PROVE Exact(a)
    BY ExactEach
  <2>1. {t \in Thread : ReadersOf(a, t) # {}} = {}
    BY <1>2
  <2>2. \A t \in Thread : /\ locks[a].read_counts[t] = Cardinality(ReadersOf(a, t))
                          /\ WritersOf(a, t) # {} <=> locks[a].writer = t
    BY <1>2, <1>3, <1>4, ThreadAssumption
  <2> QED
    BY <1>4, <2>1, <2>2 DEF Exact
<1> QED
  BY <1>1, <1>4, <1>5 DEF LocksIInv, WriterReadsAlone

\* A step of the locks by themselves keeps their invariant.
LEMMA LocksNextSound == ASSUME Counting, LocksIInv, [LocksNext]_lock_vars PROVE LocksIInv'
<1>1. CASE LocksNext
  BY <1>1, LockStep, UnlockStep DEF LocksNext
<1>2. CASE UNCHANGED lock_vars
  <2>1. locks' = locks /\ holder' = holder
    BY <1>2 DEF lock_vars
  <2>2. LocksTypeOK' /\ WriterReadsAlone'
    BY <2>1 DEF LocksIInv, LocksTypeOK, WriterReadsAlone
  <2>3. LocksExact'
    <3>1. \A a \in Account, t \in Thread : /\ WritersOf(a, t)' = WritersOf(a, t)
                                           /\ ReadersOf(a, t)' = ReadersOf(a, t)
      BY <2>1 DEF WritersOf, ReadersOf
    <3>2. \A a \in Account : locks[a].writer \in Thread \cup {NoThread}
      BY DEF LocksIInv, LocksTypeOK, Entry
    <3> QED
      BY <2>1, <3>1, <3>2, SMTT(30) DEF LocksIInv, LocksExact
  <2> QED
    BY <2>2, <2>3 DEF LocksIInv
<1> QED
  BY <1>1, <1>2

\* The invariant of the locks keeps conflicting transactions on one thread.
LEMMA LocksConflicts == ASSUME LocksIInv PROVE ConflictsOneThread
<1> SUFFICES ASSUME NEW x \in Tx, NEW y \in Tx, NEW a \in Writes(x),
                    a \in Writes(y) \cup Reads(y),
                    holder[x] # NoThread, holder[y] # NoThread
             PROVE  holder[x] = holder[y]
  BY DEF ConflictsOneThread, Conflict
<1>1. a \in Account /\ holder[x] \in Thread /\ holder[y] \in Thread
  BY TxAssumption DEF LocksIInv, LocksTypeOK
<1>2. locks[a].writer = holder[x]
  <2>1. x \in WritersOf(a, holder[x])
    BY DEF WritersOf
  <2> QED
    BY <1>1, <2>1 DEF LocksIInv, LocksExact
<1>3. CASE a \in Writes(y)
  <2>1. y \in WritersOf(a, holder[y])
    BY <1>3 DEF WritersOf
  <2> QED
    BY <1>1, <1>2, <2>1 DEF LocksIInv, LocksExact
<1>4. CASE a \in Reads(y)
  <2>1. y \in ReadersOf(a, holder[y])
    BY <1>4 DEF ReadersOf
  <2>2. holder[y] \in locks[a].readers
    BY <1>1, <2>1 DEF LocksIInv, LocksExact
  <2> QED
    BY <1>1, <1>2, <2>2 DEF LocksIInv, WriterReadsAlone
<1> QED
  BY <1>3, <1>4
-----------------------------------------------------------------------------
(***************************************************************************)
(* The places a batch can be at: being filled for a thread, queued for a   *)
(* worker, with a worker, queued on its way back, or being completed.      *)
(***************************************************************************)
BatchAt(t)    == <<"batch", t, 0>>
QueuedAt(t, n) == <<"queue", t, n>>
WorkerAt(t)   == <<"worker", t, 0>>
BackAt(n)     == <<"back", NoThread, n>>
CompletedAt   == <<"complete", NoThread, 0>>

Place == {BatchAt(t) : t \in Thread} \cup {WorkerAt(t) : t \in Thread}
         \cup {QueuedAt(a[1], a[2]) : a \in Thread \X Nat} \cup {BackAt(n) : n \in Nat}
         \cup {CompletedAt}

Nothing == [thread |-> NoThread, txs |-> <<>>]
Load(w) == [thread |-> w.thread, txs |-> w.txs]

\* What is at each place, for the batches b being filled, the channels q, the
\* workers w, the answers f, and the answer c being completed.
LoadAt(p, b, q, w, f, c) ==
    CASE p[1] = "batch" -> [thread |-> p[2], txs |-> b[p[2]]]
      [] p[1] = "queue" -> IF p[3] \in DOMAIN q[p[2]] THEN Load(q[p[2]][p[3]]) ELSE Nothing
      [] p[1] = "worker" -> Load(w[p[2]].work)
      [] p[1] = "back" -> IF p[3] \in DOMAIN f THEN Load(f[p[3]].work) ELSE Nothing
      [] p[1] = "complete" -> Load(c.work)

PoolOf(b, q, w, f, c) == [p \in Place |-> LoadAt(p, b, q, w, f, c)]

Pool == PoolOf(batches, consume_work, worker, finished_work, completing)

\* No key is at two places, or twice at one.
OnceIn(P) ==
    \A p, q \in Place : \A j \in DOMAIN P[p].txs, k \in DOMAIN P[q].txs :
        P[p].txs[j].id = P[q].txs[k].id => p = q /\ j = k

\* An item of a batch names a taken entry of the map, and its transaction is
\* locked for the thread of the batch, unless it was just unlocked.
ItemSound(P, S, H, p, e) ==
    /\ e.id \in DOMAIN S /\ S[e.id].taken /\ S[e.id].tx = e.tx
    /\ \/ P[p].thread \in Thread /\ H[e.tx] = P[p].thread
       \/ p = CompletedAt /\ H[e.tx] = NoThread

ItemsSound(P, S, H) ==
    \A p \in Place : \A j \in DOMAIN P[p].txs : ItemSound(P, S, H, p, P[p].txs[j])

TakenFound(P, S) ==
    \A i \in DOMAIN S : S[i].taken =>
        \E p \in Place : \E j \in DOMAIN P[p].txs : P[p].txs[j].id = i

DisjointTxs(txs) ==
    \A j, k \in DOMAIN txs : j # k => ~ Conflict(txs[j].tx, txs[k].tx)

PoolSound(P, S, H) ==
    /\ OnceIn(P)
    /\ ItemsSound(P, S, H)
    /\ TakenFound(P, S)
    /\ \A p \in Place : DisjointTxs(P[p].txs)

\* The entries that are not taken are queued, held or set aside, one of the
\* three.
PlacesSound(S, q, h, u) ==
    /\ q \cup h \cup u = {i \in DOMAIN S : ~ S[i].taken}
    /\ q \cap h = {} /\ q \cap u = {} /\ h \cap u = {}

\* A transaction has one entry, and only one with a taken entry is locked.
EntriesSound(S, H, arr) ==
    /\ \A i, j \in DOMAIN S : S[i].tx = S[j].tx => i = j
    /\ \A i \in DOMAIN S : S[i].tx \in arr
    /\ \A x \in Tx : H[x] # NoThread => \E i \in DOMAIN S : S[i].taken /\ S[i].tx = x

Sound(P, S, H, q, h, u, arr) ==
    PoolSound(P, S, H) /\ PlacesSound(S, q, h, u) /\ EntriesSound(S, H, arr)

\* The working account set has the accounts of the batches being filled.
FillSound ==
    \A t \in Thread : \A j \in DOMAIN batches[t] :
        /\ Writes(batches[t][j].tx) \subseteq working_account_set.write
        /\ Reads(batches[t][j].tx) \subseteq working_account_set.read

Item == [id : Id, tx : Tx]
Work == [thread : Thread \cup {NoThread}, txs : Seq(Item), target_slot : Nat]
Outcomes == UNION {[1 .. n -> {"no", "now", "later"}] : n \in Nat}
Completion == [work : Work, retry : Outcomes]
State == [tx : Tx, taken : BOOLEAN]

StateOK(S) == DOMAIN S \subseteq Id /\ S \in [DOMAIN S -> State]

TypeOK ==
    /\ holder \in [Tx -> Thread \cup {NoThread}]
    /\ StateOK(id_to_transaction_state)
    /\ batches \in [Thread -> Seq(Item)]
    /\ consume_work \in [Thread -> Seq(Work)]
    /\ worker \in [Thread -> [state : {"idle", "consume", "retry_drain"}, work : Work]]
    /\ finished_work \in Seq(Completion)
    /\ completing \in Completion
    /\ decision.kind \in {"consume", "hold", "forward_and_hold", "forward"}
    /\ decision.slot \in Nat /\ bank \in Nat /\ last_slot \in Nat
    /\ arrived \subseteq Tx

\* The inductive invariant.
IInv ==
    /\ TypeOK
    /\ Sound(Pool, id_to_transaction_state, holder,
             priority_queue, held_transactions, unschedulables, arrived)
    /\ Cardinality(DOMAIN id_to_transaction_state) <= capacity
    /\ FillSound
    /\ pc # "complete" => completing = NoCompletion
-----------------------------------------------------------------------------
(***************************************************************************)
(* Batches that move from place to place.                                  *)
(***************************************************************************)
\* Q has the batches of P, each at one place; none leaves the place of the
\* answer being completed.
Moved(P, Q) ==
    \E f \in [Place -> Place] :
        /\ \A p \in Place : Q[p].txs = <<>> \/ (Q[p] = P[f[p]] /\ (f[p] = CompletedAt => p = CompletedAt))
        /\ \A p, q \in Place : Q[p].txs # <<>> /\ Q[q].txs # <<>> /\ f[p] = f[q] => p = q
        /\ \A p \in Place : P[p].txs = <<>> \/ \E q \in Place : Q[q] = P[p]

\* The places, one by one.
LEMMA Places ==
    /\ \A t \in Thread : BatchAt(t) \in Place /\ WorkerAt(t) \in Place
    /\ \A t \in Thread, n \in Nat : QueuedAt(t, n) \in Place
    /\ \A n \in Nat : BackAt(n) \in Place
    /\ CompletedAt \in Place
    /\ \A p \in Place : \/ \E t \in Thread : p = BatchAt(t)
                        \/ \E t \in Thread : p = WorkerAt(t)
                        \/ \E t \in Thread, n \in Nat : p = QueuedAt(t, n)
                        \/ \E n \in Nat : p = BackAt(n)
                        \/ p = CompletedAt
<1>1. \A t \in Thread, n \in Nat : QueuedAt(t, n) \in Place
  <2> SUFFICES ASSUME NEW t \in Thread, NEW n \in Nat PROVE QueuedAt(t, n) \in Place
    OBVIOUS
  <2>1. <<t, n>> \in Thread \X Nat /\ <<t, n>>[1] = t /\ <<t, n>>[2] = n
    BY SMTT(30)
  <2> QED
    BY <2>1 DEF Place
<1>2. \A a \in Thread \X Nat : a[1] \in Thread /\ a[2] \in Nat
  BY SMTT(30)
<1>3. \A p \in Place : \/ \E t \in Thread : p = BatchAt(t)
                       \/ \E t \in Thread : p = WorkerAt(t)
                       \/ \E t \in Thread, n \in Nat : p = QueuedAt(t, n)
                       \/ \E n \in Nat : p = BackAt(n)
                       \/ p = CompletedAt
  BY <1>2 DEF Place
<1>4. \A t \in Thread : BatchAt(t) \in Place /\ WorkerAt(t) \in Place
  BY DEF Place
<1>5. \A n \in Nat : BackAt(n) \in Place
  BY DEF Place
<1>6. CompletedAt \in Place
  BY SMTT(30) DEF Place
<1> QED
  BY <1>1, <1>3, <1>4, <1>5, <1>6

\* What the places hold.
PoolIs(P, b, q, w, f, c) ==
    /\ \A t \in Thread : /\ P[BatchAt(t)] = [thread |-> t, txs |-> b[t]]
                         /\ P[BatchAt(t)].thread = t /\ P[BatchAt(t)].txs = b[t]
    /\ \A t \in Thread : P[WorkerAt(t)] = Load(w[t].work) /\ P[WorkerAt(t)].txs = w[t].work.txs
    /\ \A t \in Thread, n \in Nat :
          /\ n \in DOMAIN q[t] => P[QueuedAt(t, n)] = Load(q[t][n])
          /\ n \notin DOMAIN q[t] => P[QueuedAt(t, n)].txs = <<>>
    /\ \A n \in Nat : /\ n \in DOMAIN f => P[BackAt(n)] = Load(f[n].work)
                      /\ n \notin DOMAIN f => P[BackAt(n)].txs = <<>>
    /\ P[CompletedAt] = Load(c.work) /\ P[CompletedAt].txs = c.work.txs
    /\ P[CompletedAt].thread = c.work.thread

\* The pool, place by place.
LEMMA PoolAt ==
    ASSUME NEW b, NEW q, NEW w, NEW f, NEW c
    PROVE  PoolIs(PoolOf(b, q, w, f, c), b, q, w, f, c)
<1> DEFINE P == PoolOf(b, q, w, f, c)
<1>1. \A t \in Thread : /\ P[BatchAt(t)] = [thread |-> t, txs |-> b[t]]
                        /\ P[BatchAt(t)].thread = t /\ P[BatchAt(t)].txs = b[t]
  BY Places DEF PoolOf, LoadAt, BatchAt
<1>2. \A t \in Thread : P[WorkerAt(t)] = Load(w[t].work) /\ P[WorkerAt(t)].txs = w[t].work.txs
  BY Places DEF PoolOf, LoadAt, WorkerAt, Load
<1>3. \A t \in Thread, n \in Nat :
          /\ n \in DOMAIN q[t] => P[QueuedAt(t, n)] = Load(q[t][n])
          /\ n \notin DOMAIN q[t] => P[QueuedAt(t, n)].txs = <<>>
  BY Places DEF PoolOf, LoadAt, QueuedAt, Nothing
<1>4. \A n \in Nat : /\ n \in DOMAIN f => P[BackAt(n)] = Load(f[n].work)
                     /\ n \notin DOMAIN f => P[BackAt(n)].txs = <<>>
  BY Places, SMTT(30) DEF PoolOf, LoadAt, BackAt, Nothing
<1>5. /\ P[CompletedAt] = Load(c.work) /\ P[CompletedAt].txs = c.work.txs
      /\ P[CompletedAt].thread = c.work.thread
  BY Places, SMTT(30) DEF PoolOf, LoadAt, CompletedAt, Load
<1> QED
  BY <1>1, <1>2, <1>3, <1>4, <1>5 DEF PoolIs

\* An empty batch has no positions.
LEMMA EmptyDomain == DOMAIN <<>> = {}
BY SMTT(30)

\* Moving batches keeps what is said of the pool.
LEMMA MovedKeeps ==
    ASSUME NEW P, NEW Q, NEW S, NEW H, PoolSound(P, S, H), Moved(P, Q)
    PROVE  PoolSound(Q, S, H)
<1>1. PICK f \in [Place -> Place] :
        /\ \A p \in Place : Q[p].txs = <<>> \/ (Q[p] = P[f[p]] /\ (f[p] = CompletedAt => p = CompletedAt))
        /\ \A p, q \in Place : Q[p].txs # <<>> /\ Q[q].txs # <<>> /\ f[p] = f[q] => p = q
        /\ \A p \in Place : P[p].txs = <<>> \/ \E q \in Place : Q[q] = P[p]
  BY DEF Moved
<1>2. ASSUME NEW p \in Place, NEW j \in DOMAIN Q[p].txs
      PROVE  /\ Q[p].txs # <<>> /\ f[p] \in Place /\ Q[p] = P[f[p]]
             /\ f[p] = CompletedAt => p = CompletedAt
  BY <1>1, <1>2, EmptyDomain
<1>3. OnceIn(Q)
  <2> SUFFICES ASSUME NEW p \in Place, NEW q \in Place,
                      NEW j \in DOMAIN Q[p].txs, NEW k \in DOMAIN Q[q].txs,
                      Q[p].txs[j].id = Q[q].txs[k].id
               PROVE  p = q /\ j = k
    BY DEF OnceIn
  <2>1. f[p] = f[q] /\ j = k
    <3>1. /\ f[p] \in Place /\ Q[p] = P[f[p]] /\ f[q] \in Place /\ Q[q] = P[f[q]]
          /\ j \in DOMAIN P[f[p]].txs /\ k \in DOMAIN P[f[q]].txs
          /\ P[f[p]].txs[j].id = P[f[q]].txs[k].id
      BY <1>2
    <3>2. OnceIn(P)
      BY DEF PoolSound
    <3> QED
      BY ONLY <3>1, <3>2 DEF OnceIn
  <2> QED
    BY <1>1, <1>2, <2>1
<1>4. ItemsSound(Q, S, H)
  <2> SUFFICES ASSUME NEW p \in Place, NEW j \in DOMAIN Q[p].txs
               PROVE  ItemSound(Q, S, H, p, Q[p].txs[j])
    BY DEF ItemsSound
  <2>1. f[p] \in Place /\ Q[p] = P[f[p]] /\ (f[p] = CompletedAt => p = CompletedAt)
    BY <1>2
  <2>2. ItemSound(P, S, H, f[p], P[f[p]].txs[j])
    BY <2>1 DEF PoolSound, ItemsSound
  <2> QED
    BY <2>1, <2>2 DEF ItemSound
<1>5. TakenFound(Q, S)
  BY <1>1, EmptyDomain, SMTT(30) DEF PoolSound, TakenFound
<1>6. \A p \in Place : DisjointTxs(Q[p].txs)
  BY <1>2, SMTT(30) DEF PoolSound, DisjointTxs
<1> QED
  BY <1>3, <1>4, <1>5, <1>6 DEF PoolSound

\* Entries that are not taken may come and go.
LEMMA EntriesChange ==
    ASSUME NEW P, NEW S, NEW R, NEW H, PoolSound(P, S, H),
           \A i \in DOMAIN S : S[i].taken => i \in DOMAIN R /\ R[i] = S[i],
           \A i \in DOMAIN R : R[i].taken => i \in DOMAIN S /\ S[i].taken
    PROVE  PoolSound(P, R, H)
<1>1. ItemsSound(P, R, H)
  <2> SUFFICES ASSUME NEW p \in Place, NEW j \in DOMAIN P[p].txs
               PROVE  ItemSound(P, R, H, p, P[p].txs[j])
    BY DEF ItemsSound
  <2>1. ItemSound(P, S, H, p, P[p].txs[j])
    BY DEF PoolSound, ItemsSound
  <2> QED
    BY <2>1 DEF ItemSound
<1>2. TakenFound(P, R)
  BY SMTT(30) DEF PoolSound, TakenFound
<1> QED
  BY <1>1, <1>2 DEF PoolSound

\* One more transaction, locked for a thread and put at the end of its batch.
LEMMA ItemAdded ==
    ASSUME NEW P \in [Place -> [thread : Thread \cup {NoThread}, txs : Seq(Item)]],
           NEW S, StateOK(S), NEW H \in [Tx -> Thread \cup {NoThread}],
           PoolSound(P, S, H),
           NEW t \in Thread, NEW i \in DOMAIN S, NEW x \in Tx,
           ~ S[i].taken, S[i].tx = x,
           \A j \in DOMAIN S : S[j].tx = x => j = i,
           P[BatchAt(t)].thread = t,
           \A k \in DOMAIN P[BatchAt(t)].txs : ~ Conflict(P[BatchAt(t)].txs[k].tx, x)
    PROVE  PoolSound([P EXCEPT ![BatchAt(t)].txs = Append(@, [id |-> i, tx |-> x])],
                     [S EXCEPT ![i].taken = TRUE], [H EXCEPT ![x] = t])
<1> DEFINE e == [id |-> i, tx |-> x]
           s == P[BatchAt(t)].txs
           Q == [P EXCEPT ![BatchAt(t)].txs = Append(@, e)]
           R == [S EXCEPT ![i].taken = TRUE]
           G == [H EXCEPT ![x] = t]
<1>1. BatchAt(t) \in Place /\ BatchAt(t) # CompletedAt
  BY Places, SMTT(30) DEF BatchAt, CompletedAt
<1>2. s \in Seq(Item) /\ e \in Item
  BY <1>1 DEF Item, StateOK
<1>3. /\ DOMAIN Append(s, e) = DOMAIN s \cup {Len(s) + 1}
      /\ Len(s) + 1 \notin DOMAIN s
      /\ \A k \in DOMAIN s : Append(s, e)[k] = s[k]
      /\ Append(s, e)[Len(s) + 1] = e
  <2> HIDE DEF s, e
  <2> QED
    BY ONLY <1>2, SMTT(30)
<1>4. /\ \A p \in Place : p # BatchAt(t) => Q[p] = P[p]
      /\ Q[BatchAt(t)].thread = t /\ Q[BatchAt(t)].txs = Append(s, e)
  BY <1>1
<1>5. /\ DOMAIN R = DOMAIN S /\ R[i].taken /\ R[i].tx = x
      /\ \A j \in DOMAIN S : j # i => R[j] = S[j]
  BY DEF StateOK, State
<1>6. G[x] = t /\ \A y \in Tx : y # x => G[y] = H[y]
  OBVIOUS
<1>7. \A p \in Place : \A k \in DOMAIN P[p].txs :
         /\ P[p].txs[k].id \in DOMAIN S /\ P[p].txs[k].id # i
         /\ P[p].txs[k].tx = S[P[p].txs[k].id].tx
         /\ P[p].txs[k].tx # x /\ P[p].txs[k].tx \in Tx
  <2> SUFFICES ASSUME NEW p \in Place, NEW k \in DOMAIN P[p].txs
               PROVE  LET d == P[p].txs[k] IN
                      /\ d.id \in DOMAIN S /\ d.id # i /\ d.tx = S[d.id].tx
                      /\ d.tx # x /\ d.tx \in Tx
    OBVIOUS
  <2> DEFINE d == P[p].txs[k]
  <2>1. ItemSound(P, S, H, p, d)
    BY DEF PoolSound, ItemsSound
  <2> HIDE DEF d
  <2>2. d.id \in DOMAIN S /\ S[d.id].taken /\ S[d.id].tx = d.tx
    BY <2>1 DEF ItemSound
  <2>3. d.id # i /\ d.tx # x
    BY <2>2
  <2>4. S[d.id].tx \in Tx
    BY <2>2 DEF StateOK, State
  <2> QED
    BY <2>2, <2>3, <2>4 DEF d
<1> HIDE DEF Q, R, G
<1>8. \A p \in Place : \A k \in DOMAIN Q[p].txs :
         \/ k \in DOMAIN P[p].txs /\ Q[p].txs[k] = P[p].txs[k] /\ Q[p].thread = P[p].thread
         \/ p = BatchAt(t) /\ k = Len(s) + 1 /\ Q[p].txs[k] = e
  BY <1>3, <1>4
<1> HIDE DEF s
<1>9. OnceIn(Q)
  <2> SUFFICES ASSUME NEW p \in Place, NEW q \in Place,
                      NEW j \in DOMAIN Q[p].txs, NEW k \in DOMAIN Q[q].txs,
                      Q[p].txs[j].id = Q[q].txs[k].id
               PROVE  p = q /\ j = k
    BY DEF OnceIn
  <2>1. e.id = i
    BY SMTT(30)
  <2>2. CASE j \in DOMAIN P[p].txs /\ Q[p].txs[j] = P[p].txs[j]
    <3>1. P[p].txs[j].id # i
      BY <1>7, <2>2
    <3>2. k \in DOMAIN P[q].txs /\ Q[q].txs[k] = P[q].txs[k]
      BY <1>8, <2>1, <2>2, <3>1
    <3>3. P[p].txs[j].id = P[q].txs[k].id
      BY <2>2, <3>2
    <3>4. OnceIn(P)
      BY DEF PoolSound
    <3> QED
      BY <2>2, <3>2, <3>3, <3>4, SMTT(30) DEF OnceIn
  <2>3. CASE p = BatchAt(t) /\ j = Len(s) + 1 /\ Q[p].txs[j] = e
    <3>1. Q[q].txs[k].id = i
      BY <2>1, <2>3
    <3>2. ~(k \in DOMAIN P[q].txs /\ Q[q].txs[k] = P[q].txs[k])
      BY <1>7, <3>1
    <3> QED
      BY <1>8, <2>3, <3>2
  <2> QED
    BY <1>8, <2>2, <2>3
<1>10. ItemsSound(Q, R, G)
  <2> SUFFICES ASSUME NEW p \in Place, NEW k \in DOMAIN Q[p].txs
               PROVE  ItemSound(Q, R, G, p, Q[p].txs[k])
    BY DEF ItemsSound
  <2>1. CASE k \in DOMAIN P[p].txs /\ Q[p].txs[k] = P[p].txs[k] /\ Q[p].thread = P[p].thread
    <3> DEFINE d == P[p].txs[k]
    <3>1. ItemSound(P, S, H, p, d)
      BY <2>1 DEF PoolSound, ItemsSound
    <3>2. d.id \in DOMAIN S /\ d.id # i /\ d.tx # x /\ d.tx \in Tx
      BY <1>7, <2>1
    <3>3. R[d.id] = S[d.id] /\ G[d.tx] = H[d.tx] /\ DOMAIN R = DOMAIN S
      BY <1>5, <1>6, <3>2
    <3> HIDE DEF d
    <3>4. ItemSound(Q, R, G, p, d)
      BY <2>1, <3>1, <3>3 DEF ItemSound
    <3> QED
      BY <2>1, <3>4 DEF d
  <2>2. CASE p = BatchAt(t) /\ k = Len(s) + 1 /\ Q[p].txs[k] = e
    <3>1. e.id = i /\ e.tx = x
      OBVIOUS
    <3> HIDE DEF e
    <3> QED
      BY <1>4, <1>5, <1>6, <2>2, <3>1 DEF ItemSound
  <2> QED
    BY <1>8, <2>1, <2>2
<1>11. TakenFound(Q, R)
  <2> SUFFICES ASSUME NEW j \in DOMAIN R, R[j].taken
               PROVE  \E p \in Place : \E k \in DOMAIN Q[p].txs : Q[p].txs[k].id = j
    BY DEF TakenFound
  <2>1. CASE j = i
    <3>0. e.id = i
      OBVIOUS
    <3> HIDE DEF e
    <3>1. Len(s) + 1 \in DOMAIN Q[BatchAt(t)].txs /\ Q[BatchAt(t)].txs[Len(s) + 1].id = i
      <4>1. Q[BatchAt(t)].txs = Append(s, e)
        BY <1>4
      <4>2. Len(s) + 1 \in DOMAIN Append(s, e) /\ Append(s, e)[Len(s) + 1] = e
        BY <1>3
      <4> QED
        BY <3>0, <4>1, <4>2
    <3> QED
      BY <1>1, <2>1, <3>1
  <2>2. CASE j # i
    <3>0. j \in DOMAIN S /\ S[j].taken /\ TakenFound(P, S)
      BY <1>5, <2>2 DEF PoolSound
    <3>1. PICK p \in Place : \E k \in DOMAIN P[p].txs : P[p].txs[k].id = j
      BY ONLY <3>0 DEF TakenFound
    <3>2. PICK k \in DOMAIN P[p].txs : P[p].txs[k].id = j
      BY <3>1
    <3>3. k \in DOMAIN Q[p].txs /\ Q[p].txs[k] = P[p].txs[k]
      <4>1. CASE p = BatchAt(t)
        <5>1. Q[p].txs = Append(s, e) /\ P[p].txs = s
          BY <1>4, <4>1 DEF s
        <5> QED
          BY <1>3, <3>2, <5>1
      <4>2. CASE p # BatchAt(t)
        BY <1>4, <3>2, <4>2
      <4> QED
        BY <4>1, <4>2
    <3> QED
      BY <3>2, <3>3
  <2> QED
    BY <2>1, <2>2
<1>12. ASSUME NEW p \in Place, NEW j \in DOMAIN Q[p].txs, NEW k \in DOMAIN Q[p].txs, j # k
       PROVE  ~ Conflict(Q[p].txs[j].tx, Q[p].txs[k].tx)
  <2>1. \A y \in Tx, z \in Tx : Conflict(y, z) <=> Conflict(z, y)
    BY DEF Conflict
  <2>2. CASE /\ j \in DOMAIN P[p].txs /\ Q[p].txs[j] = P[p].txs[j]
             /\ k \in DOMAIN P[p].txs /\ Q[p].txs[k] = P[p].txs[k]
    BY <1>12, <2>2 DEF PoolSound, DisjointTxs
  <2>3. CASE /\ j \in DOMAIN P[p].txs /\ Q[p].txs[j] = P[p].txs[j]
             /\ p = BatchAt(t) /\ Q[p].txs[k] = e
    BY <2>3, SMTT(30)
  <2>4. CASE /\ k \in DOMAIN P[p].txs /\ Q[p].txs[k] = P[p].txs[k]
             /\ p = BatchAt(t) /\ Q[p].txs[j] = e
    <3>1. ~ Conflict(P[p].txs[k].tx, x) /\ P[p].txs[k].tx \in Tx
      BY <1>7, <2>4
    <3> QED
      BY <2>1, <2>4, <3>1, SMTT(30)
  <2> QED
    BY <1>8, <1>12, <2>2, <2>3, <2>4
<1>13. \A p \in Place : DisjointTxs(Q[p].txs)
  BY <1>12 DEF DisjointTxs
<1> QED
  BY <1>9, <1>10, <1>11, <1>13 DEF PoolSound, Q, R, G

\* A transaction of the answer being completed is unlocked.
LEMMA ItemUnlocked ==
    ASSUME NEW P, NEW S, StateOK(S), NEW H \in [Tx -> Thread \cup {NoThread}],
           PoolSound(P, S, H),
           \A i, j \in DOMAIN S : S[i].tx = S[j].tx => i = j,
           NEW k \in DOMAIN P[CompletedAt].txs
    PROVE  PoolSound(P, S, [H EXCEPT ![P[CompletedAt].txs[k].tx] = NoThread])
<1> DEFINE d == P[CompletedAt].txs[k]
           G == [H EXCEPT ![d.tx] = NoThread]
<1>1. CompletedAt \in Place
  BY Places
<1>2. d.id \in DOMAIN S /\ S[d.id].tx = d.tx
  BY <1>1 DEF PoolSound, ItemsSound, ItemSound
<1>3. d.tx \in Tx
  BY <1>2 DEF StateOK, State
<1>4. G[d.tx] = NoThread /\ \A y \in Tx : y # d.tx => G[y] = H[y]
  BY <1>3, SMTT(30)
<1> HIDE DEF G, d
<1>5. ASSUME NEW p \in Place, NEW j \in DOMAIN P[p].txs
      PROVE  ItemSound(P, S, G, p, P[p].txs[j])
  <2> DEFINE e == P[p].txs[j]
  <2>1. ItemSound(P, S, H, p, e)
    BY DEF PoolSound, ItemsSound
  <2>2. e.id \in DOMAIN S /\ S[e.id].tx = e.tx /\ e.tx \in Tx
    BY <2>1 DEF ItemSound, StateOK, State
  <2>3. e.tx = d.tx => p = CompletedAt
    <3> SUFFICES ASSUME e.tx = d.tx PROVE p = CompletedAt
      OBVIOUS
    <3>1. e.id = d.id
      BY <1>2, <2>2
    <3> QED
      BY <1>1, <3>1, SMTT(30) DEF PoolSound, OnceIn, d
  <2> HIDE DEF e
  <2>4. ItemSound(P, S, G, p, e)
    BY <1>4, <2>1, <2>2, <2>3 DEF ItemSound
  <2> QED
    BY <2>4 DEF e
<1>6. ItemsSound(P, S, G)
  BY <1>5 DEF ItemsSound
<1> QED
  BY <1>6 DEF PoolSound, G, d

\* The keys of a batch.
KeysOf(txs) == {txs[j].id : j \in DOMAIN txs}

\* The answer being completed is done with: its entries are gone, or can be
\* taken again.
LEMMA BatchCompleted ==
    ASSUME NEW P, NEW Q, NEW S, NEW R, NEW H, PoolSound(P, S, H),
           Q[CompletedAt].txs = <<>>,
           \A p \in Place : p # CompletedAt => Q[p] = P[p],
           NEW ids, ids = KeysOf(P[CompletedAt].txs),
           \A i \in DOMAIN S \ ids : i \in DOMAIN R /\ R[i] = S[i],
           \A i \in DOMAIN R : i \in DOMAIN S /\ (i \in ids => ~ R[i].taken)
    PROVE  PoolSound(Q, R, H)
<1>1. CompletedAt \in Place
  BY Places
<1>2. \A p \in Place : \A j \in DOMAIN Q[p].txs :
         p # CompletedAt /\ Q[p] = P[p] /\ j \in DOMAIN P[p].txs
  <2> SUFFICES ASSUME NEW p \in Place, NEW j \in DOMAIN Q[p].txs
               PROVE  p # CompletedAt /\ Q[p] = P[p]
    OBVIOUS
  <2>1. p # CompletedAt
    BY EmptyDomain
  <2> QED
    BY <2>1
<1>3. \A p \in Place : \A j \in DOMAIN Q[p].txs : P[p].txs[j].id \notin ids
  <2> SUFFICES ASSUME NEW p \in Place, NEW j \in DOMAIN Q[p].txs,
                      NEW k \in DOMAIN P[CompletedAt].txs,
                      P[p].txs[j].id = P[CompletedAt].txs[k].id
               PROVE  FALSE
    BY DEF KeysOf
  <2>1. p # CompletedAt /\ j \in DOMAIN P[p].txs
    BY <1>2
  <2> QED
    BY <1>1, <2>1 DEF PoolSound, OnceIn
<1>4. OnceIn(Q)
  BY <1>2, SMTT(30) DEF PoolSound, OnceIn
<1>5. ItemsSound(Q, R, H)
  <2> SUFFICES ASSUME NEW p \in Place, NEW j \in DOMAIN Q[p].txs
               PROVE  ItemSound(Q, R, H, p, Q[p].txs[j])
    BY DEF ItemsSound
  <2> DEFINE e == P[p].txs[j]
  <2>1. ItemSound(P, S, H, p, e) /\ e.id \notin ids /\ Q[p] = P[p] /\ Q[p].txs[j] = e
    BY <1>2, <1>3 DEF PoolSound, ItemsSound
  <2> HIDE DEF e
  <2>2. e.id \in DOMAIN R /\ R[e.id] = S[e.id]
    BY <2>1 DEF ItemSound
  <2>3. ItemSound(Q, R, H, p, e)
    BY <2>1, <2>2 DEF ItemSound
  <2> QED
    BY <2>1, <2>3
<1>6. TakenFound(Q, R)
  <2> SUFFICES ASSUME NEW i \in DOMAIN R, R[i].taken
               PROVE  \E p \in Place : \E k \in DOMAIN Q[p].txs : Q[p].txs[k].id = i
    BY DEF TakenFound
  <2>1. i \in DOMAIN S /\ i \notin ids /\ S[i].taken
    OBVIOUS
  <2>2. PICK p \in Place : \E k \in DOMAIN P[p].txs : P[p].txs[k].id = i
    BY <2>1 DEF PoolSound, TakenFound
  <2>3. p # CompletedAt
    BY <2>1, <2>2 DEF KeysOf
  <2>4. Q[p] = P[p]
    BY <2>3
  <2> QED
    BY <2>2, <2>4, SMTT(30)
<1>7. \A p \in Place : DisjointTxs(Q[p].txs)
  BY <1>2, SMTT(30) DEF PoolSound, DisjointTxs
<1> QED
  BY <1>4, <1>5, <1>6, <1>7 DEF PoolSound

\* Places of different kinds differ, and a place says whose it is.
LEMMA PlacesApart ==
    /\ \A t, u : BatchAt(t) # WorkerAt(u)
    /\ \A t, u, n : BatchAt(t) # QueuedAt(u, n) /\ WorkerAt(t) # QueuedAt(u, n)
    /\ \A t, n : BatchAt(t) # BackAt(n) /\ WorkerAt(t) # BackAt(n)
    /\ \A t, m, n : QueuedAt(t, m) # BackAt(n)
    /\ \A t : BatchAt(t) # CompletedAt /\ WorkerAt(t) # CompletedAt
    /\ \A t, n : QueuedAt(t, n) # CompletedAt
    /\ \A n : BackAt(n) # CompletedAt
    /\ \A t, u : BatchAt(t) = BatchAt(u) => t = u
    /\ \A t, u : WorkerAt(t) = WorkerAt(u) => t = u
    /\ \A t, u, m, n : QueuedAt(t, m) = QueuedAt(u, n) => t = u /\ m = n
    /\ \A m, n : BackAt(m) = BackAt(n) => m = n
BY SMTT(30) DEF BatchAt, WorkerAt, QueuedAt, BackAt, CompletedAt

\* The channels when the batches b were sent.
Sent(b, q, slot) ==
    [t \in Thread |->
        IF b[t] = <<>> THEN q[t]
        ELSE Append(q[t], [thread |-> t, txs |-> b[t], target_slot |-> slot])]

\* send_batches moves what is being filled to the end of the channels.
LEMMA SendMoved ==
    ASSUME NEW b \in [Thread -> Seq(Item)], NEW q \in [Thread -> Seq(Work)],
           NEW w, NEW f, NEW c, NEW slot \in Nat
    PROVE  Moved(PoolOf(b, q, w, f, c), PoolOf(Empty, Sent(b, q, slot), w, f, c))
<1> DEFINE r == Sent(b, q, slot)
           P == PoolOf(b, q, w, f, c)
           Q == PoolOf(Empty, r, w, f, c)
           g == [p \in Place |-> IF p[1] = "queue" /\ p[3] > Len(q[p[2]])
                                 THEN BatchAt(p[2]) ELSE p]
<1>1. /\ \A t \in Thread : g[BatchAt(t)] = BatchAt(t) /\ g[WorkerAt(t)] = WorkerAt(t)
      /\ \A t \in Thread, n \in Nat : /\ n > Len(q[t]) => g[QueuedAt(t, n)] = BatchAt(t)
                                      /\ ~(n > Len(q[t])) => g[QueuedAt(t, n)] = QueuedAt(t, n)
      /\ \A n \in Nat : g[BackAt(n)] = BackAt(n)
      /\ g[CompletedAt] = CompletedAt
  BY Places DEF BatchAt, WorkerAt, QueuedAt, BackAt, CompletedAt
<1>2. g \in [Place -> Place]
  <2> SUFFICES ASSUME NEW p \in Place PROVE g[p] \in Place
    OBVIOUS
  <2>1. ASSUME NEW t \in Thread, NEW n \in Nat, p = QueuedAt(t, n) PROVE g[p] \in Place
    BY <1>1, <2>1, Places
  <2> HIDE DEF g
  <2> QED
    BY <1>1, <2>1, Places, SMTT(30)
<1>3. ASSUME NEW t \in Thread, NEW n \in Nat
      PROVE  /\ n \in DOMAIN q[t] => n \in DOMAIN r[t] /\ r[t][n] = q[t][n] /\ ~(n > Len(q[t]))
             /\ n \in DOMAIN r[t] /\ n \notin DOMAIN q[t] =>
                   /\ n = Len(q[t]) + 1 /\ n > Len(q[t]) /\ b[t] # <<>>
                   /\ Load(r[t][n]) = [thread |-> t, txs |-> b[t]]
  <2>1. q[t] \in Seq(Work) /\ [thread |-> t, txs |-> b[t], target_slot |-> slot] \in Work
    BY DEF Work
  <2>2. CASE b[t] = <<>>
    <3>1. r[t] = q[t]
      BY <2>2 DEF Sent
    <3>2. n \in DOMAIN q[t] => ~(n > Len(q[t]))
      BY <2>1, SMTT(30)
    <3> QED
      BY <3>1, <3>2
  <2>3. CASE b[t] # <<>>
    <3>1. r[t] = Append(q[t], [thread |-> t, txs |-> b[t], target_slot |-> slot])
      BY <2>3 DEF Sent
    <3> HIDE DEF r
    <3> QED
      BY <2>1, <2>3, <3>1, SMTT(30) DEF Load
  <2> QED
    BY <2>2, <2>3
<1>4. ASSUME NEW t \in Thread, b[t] # <<>>
      PROVE  /\ Len(q[t]) + 1 \in DOMAIN r[t] /\ Len(q[t]) + 1 \in Nat
             /\ Load(r[t][Len(q[t]) + 1]) = [thread |-> t, txs |-> b[t]]
  <2>1. q[t] \in Seq(Work) /\ [thread |-> t, txs |-> b[t], target_slot |-> slot] \in Work
    BY DEF Work
  <2>2. r[t] = Append(q[t], [thread |-> t, txs |-> b[t], target_slot |-> slot])
    BY <1>4 DEF Sent
  <2> HIDE DEF r
  <2> QED
    BY <2>1, <2>2, SMTT(30) DEF Load
<1>5. PoolIs(P, b, q, w, f, c) /\ PoolIs(Q, Empty, r, w, f, c)
  BY PoolAt
<1> HIDE DEF P, Q, r, g
<1>6. \A t \in Thread : Q[BatchAt(t)].txs = <<>> /\ Q[WorkerAt(t)] = P[WorkerAt(t)]
  <2>1. \A t \in Thread : Empty[t] = <<>>
    BY DEF Empty
  <2>2. \A t \in Thread : Q[BatchAt(t)].txs = Empty[t]
    BY <1>5 DEF PoolIs
  <2>3. ASSUME NEW t \in Thread PROVE Q[WorkerAt(t)] = P[WorkerAt(t)]
    <3>1. Q[WorkerAt(t)] = Load(w[t].work)
      BY <1>5 DEF PoolIs
    <3>2. P[WorkerAt(t)] = Load(w[t].work)
      BY <1>5 DEF PoolIs
    <3> QED
      BY <3>1, <3>2
  <2> QED
    BY <2>1, <2>2, <2>3
<1>7. Q[CompletedAt] = P[CompletedAt]
  BY <1>5 DEF PoolIs
<1>8. ASSUME NEW n \in Nat
      PROVE  Q[BackAt(n)] = P[BackAt(n)] \/ (Q[BackAt(n)].txs = <<>> /\ P[BackAt(n)].txs = <<>>)
  BY <1>5 DEF PoolIs
<1>9. ASSUME NEW t \in Thread, NEW n \in Nat
      PROVE  \/ ~(n > Len(q[t])) /\ Q[QueuedAt(t, n)] = P[QueuedAt(t, n)]
             \/ /\ n = Len(q[t]) + 1 /\ n > Len(q[t])
                /\ Q[QueuedAt(t, n)] = P[BatchAt(t)]
                /\ P[QueuedAt(t, n)].txs = <<>>
             \/ Q[QueuedAt(t, n)].txs = <<>> /\ P[QueuedAt(t, n)].txs = <<>>
  <2>1. /\ n \in DOMAIN r[t] => Q[QueuedAt(t, n)] = Load(r[t][n])
        /\ n \notin DOMAIN r[t] => Q[QueuedAt(t, n)].txs = <<>>
        /\ n \in DOMAIN q[t] => P[QueuedAt(t, n)] = Load(q[t][n])
        /\ n \notin DOMAIN q[t] => P[QueuedAt(t, n)].txs = <<>>
        /\ P[BatchAt(t)] = [thread |-> t, txs |-> b[t]]
    <3>1. /\ n \in DOMAIN r[t] => Q[QueuedAt(t, n)] = Load(r[t][n])
          /\ n \notin DOMAIN r[t] => Q[QueuedAt(t, n)].txs = <<>>
      BY <1>5 DEF PoolIs
    <3>2. /\ n \in DOMAIN q[t] => P[QueuedAt(t, n)] = Load(q[t][n])
          /\ n \notin DOMAIN q[t] => P[QueuedAt(t, n)].txs = <<>>
      BY <1>5 DEF PoolIs
    <3>3. P[BatchAt(t)] = [thread |-> t, txs |-> b[t]]
      BY <1>5 DEF PoolIs
    <3> QED
      BY <3>1, <3>2, <3>3
  <2>2. CASE n \in DOMAIN q[t]
    <3>1. n \in DOMAIN r[t] /\ r[t][n] = q[t][n] /\ ~(n > Len(q[t]))
      BY <1>3, <2>2
    <3> QED
      BY <2>1, <2>2, <3>1
  <2>3. CASE n \notin DOMAIN q[t]
    BY <1>3, <2>1, <2>3
  <2> QED
    BY <2>2, <2>3
<1>10. ASSUME NEW p \in Place
       PROVE  Q[p].txs = <<>> \/ (Q[p] = P[g[p]] /\ (g[p] = CompletedAt => p = CompletedAt))
  <2>1. ASSUME NEW t \in Thread, NEW n \in Nat, p = QueuedAt(t, n)
        PROVE  Q[p].txs = <<>> \/ (Q[p] = P[g[p]] /\ g[p] # CompletedAt)
    BY <1>1, <1>9, <2>1, PlacesApart, SMTT(30)
  <2>2. ASSUME NEW n \in Nat, p = BackAt(n)
        PROVE  Q[p].txs = <<>> \/ (Q[p] = P[g[p]] /\ g[p] # CompletedAt)
    <3>1. g[p] = p /\ g[p] # CompletedAt
      BY <1>1, <2>2, PlacesApart
    <3> QED
      BY <1>8, <2>2, <3>1
  <2>3. ASSUME NEW t \in Thread, p = WorkerAt(t)
        PROVE  Q[p] = P[g[p]] /\ g[p] # CompletedAt
    BY <1>1, <1>6, <2>3, PlacesApart, SMTT(30)
  <2> QED
    BY <1>1, <1>6, <1>7, <2>1, <2>2, <2>3, Places
<1>11. ASSUME NEW p \in Place, NEW z \in Place, Q[p].txs # <<>>, Q[z].txs # <<>>, g[p] = g[z]
       PROVE  p = z
  <2>1. ASSUME NEW y \in Place, Q[y].txs # <<>>
        PROVE  \/ g[y] = y /\ \A u \in Thread : y # BatchAt(u)
               \/ \E u \in Thread : g[y] = BatchAt(u) /\ y = QueuedAt(u, Len(q[u]) + 1)
    <3>1. ASSUME NEW t \in Thread, NEW n \in Nat, y = QueuedAt(t, n)
          PROVE  \/ g[y] = y
                 \/ \E u \in Thread : g[y] = BatchAt(u) /\ y = QueuedAt(u, Len(q[u]) + 1)
      BY <1>1, <1>9, <2>1, <3>1
    <3>2. \A t \in Thread : y # BatchAt(t)
      BY <1>6, <2>1
    <3> QED
      BY <1>1, <3>1, <3>2, Places
  <2> QED
    BY <1>11, <2>1, PlacesApart, SMTT(30)
<1>12. ASSUME NEW p \in Place
       PROVE  P[p].txs = <<>> \/ \E z \in Place : Q[z] = P[p]
  <2>1. ASSUME NEW t \in Thread, p = BatchAt(t), b[t] # <<>>
        PROVE  QueuedAt(t, Len(q[t]) + 1) \in Place /\ Q[QueuedAt(t, Len(q[t]) + 1)] = P[p]
    <3>1. /\ Len(q[t]) + 1 \in DOMAIN r[t] /\ Len(q[t]) + 1 \in Nat
          /\ Load(r[t][Len(q[t]) + 1]) = [thread |-> t, txs |-> b[t]]
      BY <1>4, <2>1
    <3>2. Q[QueuedAt(t, Len(q[t]) + 1)] = Load(r[t][Len(q[t]) + 1])
      BY <1>5, <3>1 DEF PoolIs
    <3>3. P[p] = [thread |-> t, txs |-> b[t]]
      BY <1>5, <2>1 DEF PoolIs
    <3> QED
      BY <3>1, <3>2, <3>3, Places
  <2>2. ASSUME NEW t \in Thread, p = BatchAt(t), b[t] = <<>>
        PROVE  P[p].txs = <<>>
    BY <1>5, <2>2 DEF PoolIs
  <2>3. ASSUME NEW t \in Thread, NEW n \in Nat, p = QueuedAt(t, n)
        PROVE  P[p].txs = <<>> \/ Q[p] = P[p]
    BY <1>9, <2>3, SMTT(30)
  <2>4. ASSUME NEW n \in Nat, p = BackAt(n)
        PROVE  P[p].txs = <<>> \/ Q[p] = P[p]
    BY <1>8, <2>4, SMTT(30)
  <2> QED
    BY <1>6, <1>7, <2>1, <2>2, <2>3, <2>4, Places, SMTT(30)
<1>13. Moved(P, Q)
  BY <1>2, <1>10, <1>11, <1>12, SMTT(30) DEF Moved
<1> QED
  BY <1>13 DEF P, Q, r

\* The first element of a sequence and the others.
LEMMA HeadTail ==
    ASSUME NEW A, NEW s \in Seq(A), s # <<>>
    PROVE  /\ 1 \in DOMAIN s /\ Head(s) = s[1] /\ Head(s) \in A /\ Tail(s) \in Seq(A)
           /\ \A n \in Nat : /\ n \in DOMAIN Tail(s) <=> n # 0 /\ n + 1 \in DOMAIN s
                             /\ n \in DOMAIN Tail(s) => Tail(s)[n] = s[n + 1]
           /\ \A n \in Nat : n \in DOMAIN s => n = 1 \/ (n - 1 \in Nat /\ n - 1 \in DOMAIN Tail(s)
                                                         /\ (n - 1) + 1 = n)
BY SMTT(30)

\* The next answer is taken off the channel of the workers.
LEMMA TakeMoved ==
    ASSUME NEW b, NEW q, NEW w, NEW f \in Seq(Completion), f # <<>>,
           NEW c, c.work.txs = <<>>
    PROVE  Moved(PoolOf(b, q, w, f, c), PoolOf(b, q, w, Tail(f), Head(f)))
<1> DEFINE P == PoolOf(b, q, w, f, c)
           Q == PoolOf(b, q, w, Tail(f), Head(f))
           g == [p \in Place |-> IF p[1] = "back" THEN BackAt(p[3] + 1)
                                 ELSE IF p = CompletedAt THEN BackAt(1) ELSE p]
<1>1. /\ \A t \in Thread : g[BatchAt(t)] = BatchAt(t) /\ g[WorkerAt(t)] = WorkerAt(t)
      /\ \A t \in Thread, n \in Nat : g[QueuedAt(t, n)] = QueuedAt(t, n)
      /\ \A n \in Nat : g[BackAt(n)] = BackAt(n + 1)
      /\ g[CompletedAt] = BackAt(1)
  BY Places DEF BatchAt, WorkerAt, QueuedAt, BackAt, CompletedAt
<1>2. g \in [Place -> Place]
  <2> SUFFICES ASSUME NEW p \in Place PROVE g[p] \in Place
    OBVIOUS
  <2>1. \A n \in Nat : n + 1 \in Nat
    BY SMTT(30)
  <2> HIDE DEF g
  <2> QED
    BY <1>1, <2>1, Places
<1>3. PoolIs(P, b, q, w, f, c) /\ PoolIs(Q, b, q, w, Tail(f), Head(f))
  BY PoolAt
<1> HIDE DEF P, Q, g
<1>4. ASSUME NEW t \in Thread
      PROVE  Q[BatchAt(t)] = P[BatchAt(t)] /\ Q[WorkerAt(t)] = P[WorkerAt(t)]
  BY <1>3 DEF PoolIs
<1>5. ASSUME NEW t \in Thread, NEW n \in Nat
      PROVE  \/ Q[QueuedAt(t, n)] = P[QueuedAt(t, n)]
             \/ Q[QueuedAt(t, n)].txs = <<>> /\ P[QueuedAt(t, n)].txs = <<>>
  <2>1. CASE n \in DOMAIN q[t]
    <3>1. Q[QueuedAt(t, n)] = Load(q[t][n])
      BY <1>3, <2>1 DEF PoolIs
    <3>2. P[QueuedAt(t, n)] = Load(q[t][n])
      BY <1>3, <2>1 DEF PoolIs
    <3> QED
      BY <3>1, <3>2
  <2>2. CASE n \notin DOMAIN q[t]
    BY <1>3, <2>2 DEF PoolIs
  <2> QED
    BY <2>1, <2>2
<1>6. ASSUME NEW n \in Nat
      PROVE  \/ n # 0 /\ Q[BackAt(n)] = P[BackAt(n + 1)]
             \/ Q[BackAt(n)].txs = <<>>
  <2>1. n \in DOMAIN Tail(f) => n # 0 /\ n + 1 \in DOMAIN f /\ Tail(f)[n] = f[n + 1] /\ n + 1 \in Nat
    BY HeadTail, SMTT(30)
  <2>2. n \in DOMAIN Tail(f) => Q[BackAt(n)] = Load(Tail(f)[n].work)
    BY <1>3 DEF PoolIs
  <2>3. n + 1 \in Nat /\ n + 1 \in DOMAIN f => P[BackAt(n + 1)] = Load(f[n + 1].work)
    BY <1>3 DEF PoolIs
  <2>4. n \notin DOMAIN Tail(f) => Q[BackAt(n)].txs = <<>>
    BY <1>3 DEF PoolIs
  <2> QED
    BY <2>1, <2>2, <2>3, <2>4
<1>7. Q[CompletedAt] = P[BackAt(1)]
  <2>1. 1 \in DOMAIN f /\ Head(f) = f[1] /\ 1 \in Nat
    BY HeadTail, SMTT(30)
  <2>2. P[BackAt(1)] = Load(f[1].work) /\ Q[CompletedAt] = Load(Head(f).work)
    BY <1>3, <2>1 DEF PoolIs
  <2> QED
    BY <2>1, <2>2
<1>8. ASSUME NEW p \in Place
      PROVE  Q[p].txs = <<>> \/ (Q[p] = P[g[p]] /\ (g[p] = CompletedAt => p = CompletedAt))
  <2>1. ASSUME NEW t \in Thread, NEW n \in Nat, p = QueuedAt(t, n)
        PROVE  Q[p].txs = <<>> \/ (Q[p] = P[g[p]] /\ g[p] # CompletedAt)
    <3>1. g[p] = p
      BY <1>1, <2>1
    <3>2. p # CompletedAt
      BY <2>1, PlacesApart
    <3> QED
      BY <1>5, <2>1, <3>1, <3>2
  <2>2. ASSUME NEW n \in Nat, p = BackAt(n)
        PROVE  Q[p].txs = <<>> \/ (Q[p] = P[g[p]] /\ g[p] # CompletedAt)
    <3>1. g[p] = BackAt(n + 1) /\ g[p] # CompletedAt
      BY <1>1, <2>2, PlacesApart
    <3> QED
      BY <1>6, <2>2, <3>1
  <2>3. ASSUME NEW t \in Thread, p = WorkerAt(t) \/ p = BatchAt(t)
        PROVE  Q[p] = P[g[p]] /\ g[p] # CompletedAt
    BY <1>1, <1>4, <2>3, PlacesApart
  <2> QED
    BY <1>1, <1>7, <2>1, <2>2, <2>3, Places
<1>9. ASSUME NEW p \in Place, NEW z \in Place, Q[p].txs # <<>>, Q[z].txs # <<>>, g[p] = g[z]
      PROVE  p = z
  <2>1. ASSUME NEW y \in Place, Q[y].txs # <<>>
        PROVE  \/ g[y] = y /\ \A n \in Nat : y # BackAt(n)
               \/ y = CompletedAt /\ g[y] = BackAt(1)
               \/ \E n \in Nat : n # 0 /\ y = BackAt(n) /\ g[y] = BackAt(n + 1)
    <3>1. ASSUME NEW n \in Nat, y = BackAt(n)
          PROVE  n # 0 /\ g[y] = BackAt(n + 1)
      BY <1>1, <1>6, <2>1, <3>1
    <3>2. ASSUME NEW t \in Thread, y = WorkerAt(t) \/ y = BatchAt(t)
          PROVE  g[y] = y /\ \A n \in Nat : y # BackAt(n)
      BY <1>1, <3>2, PlacesApart, SMTT(30)
    <3>3. ASSUME NEW t \in Thread, NEW m \in Nat, y = QueuedAt(t, m)
          PROVE  g[y] = y /\ \A n \in Nat : y # BackAt(n)
      <4>1. g[y] = y
        BY <1>1, <3>3
      <4>2. \A n \in Nat : y # BackAt(n)
        BY <3>3, PlacesApart
      <4> QED
        BY <4>1, <4>2
    <3> QED
      BY <1>1, <3>1, <3>2, <3>3, Places
  <2>2. \A m, n \in Nat : /\ BackAt(m + 1) = BackAt(n + 1) => m = n
                          /\ BackAt(m + 1) = BackAt(1) => m = 0
    BY SMTT(30) DEF BackAt
  <2>3. /\ g[p] = p /\ (\A n \in Nat : p # BackAt(n)) => \A n \in Nat : g[p] # BackAt(n)
        /\ g[z] = z /\ (\A n \in Nat : z # BackAt(n)) => \A n \in Nat : g[z] # BackAt(n)
        /\ 1 \in Nat /\ \A n \in Nat : n + 1 \in Nat
    BY SMTT(30)
  <2> QED
    BY <1>9, <2>1, <2>2, <2>3, SMTT(30)
<1>10. ASSUME NEW p \in Place
       PROVE  P[p].txs = <<>> \/ \E z \in Place : Q[z] = P[p]
  <2>1. ASSUME NEW n \in Nat, p = BackAt(n)
        PROVE  P[p].txs = <<>> \/ \E z \in Place : Q[z] = P[p]
    <3>1. CASE n \notin DOMAIN f
      BY <1>3, <2>1, <3>1 DEF PoolIs
    <3>2. CASE n = 1
      BY <1>7, <2>1, <3>2, Places
    <3>3. CASE n \in DOMAIN f /\ n # 1
      <4>1. n - 1 \in Nat /\ n - 1 \in DOMAIN Tail(f) /\ (n - 1) + 1 = n
        BY <3>3, HeadTail, SMTT(30)
      <4>2. Tail(f)[n - 1] = f[n]
        BY <4>1, HeadTail, SMTT(30)
      <4>3. Q[BackAt(n - 1)] = Load(Tail(f)[n - 1].work) /\ P[BackAt(n)] = Load(f[n].work)
        BY <1>3, <3>3, <4>1 DEF PoolIs
      <4> QED
        BY <2>1, <4>1, <4>2, <4>3, Places
    <3> QED
      BY <3>1, <3>2, <3>3
  <2>2. P[CompletedAt].txs = <<>>
    BY <1>3 DEF PoolIs
  <2>3. ASSUME NEW t \in Thread, NEW n \in Nat, p = QueuedAt(t, n)
        PROVE  P[p].txs = <<>> \/ Q[p] = P[p]
    BY <1>5, <2>3, SMTT(30)
  <2> QED
    BY <1>4, <2>1, <2>2, <2>3, Places, SMTT(30)
<1>11. Moved(P, Q)
  BY <1>2, <1>8, <1>9, <1>10, SMTT(30) DEF Moved
<1> QED
  BY <1>11 DEF P, Q

\* A worker takes the next batch off its channel.
LEMMA RunMoved ==
    ASSUME NEW b, NEW q \in [Thread -> Seq(Work)], NEW w, NEW f, NEW c,
           NEW t \in Thread, q[t] # <<>>, w[t].work.txs = <<>>,
           NEW r, r[t] = Tail(q[t]), \A u \in Thread \ {t} : r[u] = q[u],
           NEW v, v[t].work = Head(q[t]), \A u \in Thread \ {t} : v[u] = w[u]
    PROVE  Moved(PoolOf(b, q, w, f, c), PoolOf(b, r, v, f, c))
<1> DEFINE P == PoolOf(b, q, w, f, c)
           Q == PoolOf(b, r, v, f, c)
           g == [p \in Place |-> IF p[1] = "queue" /\ p[2] = t THEN QueuedAt(t, p[3] + 1)
                                 ELSE IF p = WorkerAt(t) THEN QueuedAt(t, 1) ELSE p]
<1>1. /\ \A u \in Thread : g[BatchAt(u)] = BatchAt(u)
      /\ \A u \in Thread : u # t => g[WorkerAt(u)] = WorkerAt(u)
      /\ g[WorkerAt(t)] = QueuedAt(t, 1)
      /\ \A u \in Thread, n \in Nat : u # t => g[QueuedAt(u, n)] = QueuedAt(u, n)
      /\ \A n \in Nat : g[QueuedAt(t, n)] = QueuedAt(t, n + 1)
      /\ \A n \in Nat : g[BackAt(n)] = BackAt(n)
      /\ g[CompletedAt] = CompletedAt
  BY Places DEF BatchAt, WorkerAt, QueuedAt, BackAt, CompletedAt
<1>2. g \in [Place -> Place]
  <2> SUFFICES ASSUME NEW p \in Place PROVE g[p] \in Place
    OBVIOUS
  <2>1. 1 \in Nat /\ \A n \in Nat : n + 1 \in Nat
    BY SMTT(30)
  <2> HIDE DEF g
  <2>2. ASSUME NEW u \in Thread PROVE g[BatchAt(u)] \in Place /\ g[WorkerAt(u)] \in Place
    <3>1. g[BatchAt(u)] \in Place
      BY <1>1, Places
    <3>2. CASE u = t
      <4>1. g[WorkerAt(u)] = QueuedAt(t, 1)
        BY <1>1, <3>2
      <4> QED
        BY <2>1, <3>1, <4>1, Places
    <3>3. CASE u # t
      <4>1. g[WorkerAt(u)] = WorkerAt(u)
        BY <1>1, <3>3
      <4> QED
        BY <3>1, <4>1, Places
    <3> QED
      BY <3>2, <3>3
  <2>3. ASSUME NEW u \in Thread, NEW n \in Nat PROVE g[QueuedAt(u, n)] \in Place
    <3>1. g[QueuedAt(u, n)] = IF u = t THEN QueuedAt(t, n + 1) ELSE QueuedAt(u, n)
      BY <1>1
    <3>2. QueuedAt(t, n + 1) \in Place /\ QueuedAt(u, n) \in Place
      BY <2>1, Places
    <3> QED
      BY <3>1, <3>2
  <2>4. g[CompletedAt] \in Place /\ \A n \in Nat : g[BackAt(n)] \in Place
    BY <1>1, Places
  <2> QED
    BY <2>2, <2>3, <2>4, Places
<1>3. PoolIs(P, b, q, w, f, c) /\ PoolIs(Q, b, r, v, f, c)
  BY PoolAt
<1> HIDE DEF P, Q, g
<1>4. ASSUME NEW u \in Thread
      PROVE  Q[BatchAt(u)] = P[BatchAt(u)] /\ (u # t => Q[WorkerAt(u)] = P[WorkerAt(u)])
  <2>0. Q[BatchAt(u)] = [thread |-> u, txs |-> b[u]] /\ P[BatchAt(u)] = [thread |-> u, txs |-> b[u]]
    BY <1>3 DEF PoolIs
  <2>1. Q[BatchAt(u)] = P[BatchAt(u)]
    BY <2>0
  <2>2. Q[WorkerAt(u)] = Load(v[u].work)
    BY <1>3 DEF PoolIs
  <2>3. P[WorkerAt(u)] = Load(w[u].work)
    BY <1>3 DEF PoolIs
  <2> QED
    BY <2>1, <2>2, <2>3
<1>5. ASSUME NEW n \in Nat
      PROVE  \/ Q[BackAt(n)] = P[BackAt(n)]
             \/ Q[BackAt(n)].txs = <<>> /\ P[BackAt(n)].txs = <<>>
  <2>1. CASE n \in DOMAIN f
    <3>1. Q[BackAt(n)] = Load(f[n].work)
      BY <1>3, <2>1 DEF PoolIs
    <3>2. P[BackAt(n)] = Load(f[n].work)
      BY <1>3, <2>1 DEF PoolIs
    <3> QED
      BY <3>1, <3>2
  <2>2. CASE n \notin DOMAIN f
    BY <1>3, <2>2 DEF PoolIs
  <2> QED
    BY <2>1, <2>2
<1>6. ASSUME NEW u \in Thread, u # t, NEW n \in Nat
      PROVE  \/ Q[QueuedAt(u, n)] = P[QueuedAt(u, n)]
             \/ Q[QueuedAt(u, n)].txs = <<>> /\ P[QueuedAt(u, n)].txs = <<>>
  <2>0. r[u] = q[u]
    BY <1>6
  <2>1. CASE n \in DOMAIN q[u]
    <3>0. n \in DOMAIN r[u] /\ r[u][n] = q[u][n]
      BY <2>0, <2>1
    <3>1. Q[QueuedAt(u, n)] = Load(r[u][n])
      BY <1>3, <3>0 DEF PoolIs
    <3>2. P[QueuedAt(u, n)] = Load(q[u][n])
      BY <1>3, <2>1 DEF PoolIs
    <3> QED
      BY <3>0, <3>1, <3>2
  <2>2. CASE n \notin DOMAIN q[u]
    BY <1>3, <2>0, <2>2 DEF PoolIs
  <2> QED
    BY <2>1, <2>2
<1>7. ASSUME NEW n \in Nat
      PROVE  \/ n # 0 /\ Q[QueuedAt(t, n)] = P[QueuedAt(t, n + 1)]
             \/ Q[QueuedAt(t, n)].txs = <<>>
  <2>1. n \in DOMAIN r[t] => n # 0 /\ n + 1 \in DOMAIN q[t] /\ r[t][n] = q[t][n + 1] /\ n + 1 \in Nat
    BY HeadTail, SMTT(30)
  <2>2. n \in DOMAIN r[t] => Q[QueuedAt(t, n)] = Load(r[t][n])
    BY <1>3 DEF PoolIs
  <2>3. n + 1 \in Nat /\ n + 1 \in DOMAIN q[t] => P[QueuedAt(t, n + 1)] = Load(q[t][n + 1])
    BY <1>3 DEF PoolIs
  <2>4. n \notin DOMAIN r[t] => Q[QueuedAt(t, n)].txs = <<>>
    BY <1>3 DEF PoolIs
  <2> QED
    BY <2>1, <2>2, <2>3, <2>4
<1>8. Q[WorkerAt(t)] = P[QueuedAt(t, 1)]
  <2>1. 1 \in DOMAIN q[t] /\ v[t].work = q[t][1] /\ 1 \in Nat
    BY HeadTail, SMTT(30)
  <2>2. P[QueuedAt(t, 1)] = Load(q[t][1])
    BY <1>3, <2>1 DEF PoolIs
  <2>3. Q[WorkerAt(t)] = Load(v[t].work)
    BY <1>3 DEF PoolIs
  <2> QED
    BY <2>1, <2>2, <2>3
<1>9. Q[CompletedAt] = P[CompletedAt]
  BY <1>3 DEF PoolIs
<1> DEFINE Comes(p) == Q[p].txs = <<>> \/ (Q[p] = P[g[p]] /\ (g[p] = CompletedAt => p = CompletedAt))
           Shift(p) == \/ p = WorkerAt(t) /\ g[p] = QueuedAt(t, 1)
                       \/ \E n \in Nat : n # 0 /\ p = QueuedAt(t, n) /\ g[p] = QueuedAt(t, n + 1)
           Stays(p) == g[p] = p /\ \A n \in Nat : p # QueuedAt(t, n)
           Goes(p) == P[p].txs = <<>> \/ \E z \in Place : Q[z] = P[p]
<1>10. ASSUME NEW u \in Thread
       PROVE  Comes(BatchAt(u)) /\ Stays(BatchAt(u)) /\ Goes(BatchAt(u))
  <2>1. g[BatchAt(u)] = BatchAt(u)
    BY <1>1
  <2>2. BatchAt(u) # CompletedAt /\ \A n \in Nat : BatchAt(u) # QueuedAt(t, n)
    BY PlacesApart, SMTT(30)
  <2>3. BatchAt(u) \in Place
    BY Places
  <2> QED
    BY <1>4, <2>1, <2>2, <2>3
<1>11. ASSUME NEW u \in Thread
       PROVE  /\ Comes(WorkerAt(u)) /\ Goes(WorkerAt(u))
              /\ Stays(WorkerAt(u)) \/ Shift(WorkerAt(u))
  <2>1. CASE u # t
    <3>1. g[WorkerAt(u)] = WorkerAt(u)
      BY <1>1, <2>1
    <3>2. Q[WorkerAt(u)] = P[WorkerAt(u)]
      BY <1>4, <2>1
    <3>3. WorkerAt(u) # CompletedAt /\ \A n \in Nat : WorkerAt(u) # QueuedAt(t, n)
      BY PlacesApart, SMTT(30)
    <3>4. WorkerAt(u) \in Place
      BY Places
    <3> QED
      BY <3>1, <3>2, <3>3, <3>4
  <2>2. CASE u = t
    <3>1. g[WorkerAt(t)] = QueuedAt(t, 1) /\ QueuedAt(t, 1) # CompletedAt
      BY <1>1, PlacesApart
    <3>2. P[WorkerAt(t)].txs = <<>>
      BY <1>3 DEF PoolIs
    <3> QED
      BY <1>8, <2>2, <3>1, <3>2
  <2> QED
    BY <2>1, <2>2
<1>12. ASSUME NEW u \in Thread, u # t, NEW n \in Nat
       PROVE  Comes(QueuedAt(u, n)) /\ Stays(QueuedAt(u, n)) /\ Goes(QueuedAt(u, n))
  <2>1. g[QueuedAt(u, n)] = QueuedAt(u, n)
    BY <1>1, <1>12
  <2>2. \A m \in Nat : QueuedAt(u, n) # QueuedAt(t, m)
    BY <1>12, PlacesApart, SMTT(30)
  <2>3. QueuedAt(u, n) # CompletedAt
    BY PlacesApart
  <2>4. QueuedAt(u, n) \in Place
    BY Places
  <2> QED
    BY <1>6, <1>12, <2>1, <2>2, <2>3, <2>4
<1>13. ASSUME NEW n \in Nat
       PROVE  /\ Comes(QueuedAt(t, n)) /\ Goes(QueuedAt(t, n))
              /\ Q[QueuedAt(t, n)].txs = <<>> \/ Shift(QueuedAt(t, n))
  <2>1. g[QueuedAt(t, n)] = QueuedAt(t, n + 1) /\ QueuedAt(t, n + 1) # CompletedAt
    BY <1>1, PlacesApart
  <2>2. Comes(QueuedAt(t, n)) /\ (Q[QueuedAt(t, n)].txs = <<>> \/ Shift(QueuedAt(t, n)))
    BY <1>7, <2>1
  <2>3. CASE n \notin DOMAIN q[t]
    <3>1. P[QueuedAt(t, n)].txs = <<>>
      BY <1>3, <2>3 DEF PoolIs
    <3> QED
      BY <2>2, <3>1
  <2>4. CASE n = 1
    <3>1. WorkerAt(t) \in Place /\ Q[WorkerAt(t)] = P[QueuedAt(t, n)]
      BY <1>8, <2>4, Places
    <3> QED
      BY <2>2, <3>1
  <2>5. CASE n \in DOMAIN q[t] /\ n # 1
    <3>1. n - 1 \in Nat /\ n - 1 \in DOMAIN r[t] /\ (n - 1) + 1 = n
      BY <2>5, HeadTail, SMTT(30)
    <3>2. r[t][n - 1] = q[t][n]
      BY <3>1, HeadTail, SMTT(30)
    <3>3. Q[QueuedAt(t, n - 1)] = Load(r[t][n - 1]) /\ P[QueuedAt(t, n)] = Load(q[t][n])
      BY <1>3, <2>5, <3>1 DEF PoolIs
    <3>4. QueuedAt(t, n - 1) \in Place /\ Q[QueuedAt(t, n - 1)] = P[QueuedAt(t, n)]
      BY <3>1, <3>2, <3>3, Places
    <3> QED
      BY <2>2, <3>4
  <2> QED
    BY <2>3, <2>4, <2>5
<1>14. ASSUME NEW n \in Nat
       PROVE  Comes(BackAt(n)) /\ Stays(BackAt(n)) /\ Goes(BackAt(n))
  <2>1. g[BackAt(n)] = BackAt(n)
    BY <1>1
  <2>2. BackAt(n) # CompletedAt /\ \A m \in Nat : BackAt(n) # QueuedAt(t, m)
    BY PlacesApart
  <2>3. BackAt(n) \in Place
    BY Places
  <2> QED
    BY <1>5, <2>1, <2>2, <2>3
<1>15. Comes(CompletedAt) /\ Stays(CompletedAt) /\ Goes(CompletedAt)
  <2>1. g[CompletedAt] = CompletedAt /\ CompletedAt \in Place
    BY <1>1, Places
  <2>2. \A n \in Nat : CompletedAt # QueuedAt(t, n)
    BY PlacesApart
  <2> QED
    BY <1>9, <2>1, <2>2
<1>16. ASSUME NEW p \in Place, NEW z \in Place, p # z,
              Stays(p) \/ Shift(p), Stays(z) \/ Shift(z)
       PROVE  g[p] # g[z]
  <2>1. \A m, n \in Nat : /\ QueuedAt(t, m + 1) = QueuedAt(t, n + 1) => m = n
                          /\ QueuedAt(t, m + 1) = QueuedAt(t, 1) => m = 0
    BY SMTT(30) DEF QueuedAt
  <2>2. 1 \in Nat /\ \A n \in Nat : n + 1 \in Nat
    BY SMTT(30)
  <2>3. \A y : Shift(y) => \E n \in Nat : g[y] = QueuedAt(t, n)
    BY <2>2
  <2>4. \A y : Stays(y) => \A n \in Nat : g[y] # QueuedAt(t, n)
    OBVIOUS
  <2>5. CASE Shift(p) /\ Shift(z)
    BY <1>16, <2>1, <2>5, SMTT(30)
  <2>6. CASE Stays(p) /\ Stays(z)
    BY <1>16, <2>6
  <2> HIDE DEF Shift, Stays
  <2> QED
    BY <1>16, <2>3, <2>4, <2>5, <2>6
<1> HIDE DEF Comes, Shift, Stays, Goes
<1>17. \A p \in Place : /\ Comes(p) /\ Goes(p)
                        /\ Q[p].txs = <<>> \/ Stays(p) \/ Shift(p)
  <2> SUFFICES ASSUME NEW p \in Place
               PROVE  Comes(p) /\ Goes(p) /\ (Q[p].txs = <<>> \/ Stays(p) \/ Shift(p))
    OBVIOUS
  <2>1. ASSUME NEW u \in Thread, NEW n \in Nat, p = QueuedAt(u, n)
        PROVE  Comes(p) /\ Goes(p) /\ (Q[p].txs = <<>> \/ Stays(p) \/ Shift(p))
    BY <1>12, <1>13, <2>1
  <2> QED
    BY <1>10, <1>11, <1>14, <1>15, <2>1, Places
<1>18. Moved(P, Q)
  <2>1. \A p, z \in Place : Q[p].txs # <<>> /\ Q[z].txs # <<>> /\ g[p] = g[z] => p = z
    BY <1>16, <1>17
  <2>2. \A p \in Place : Comes(p) /\ Goes(p)
    BY <1>17
  <2> QED
    BY <1>2, <2>1, <2>2 DEF Moved, Comes, Goes
<1> QED
  BY <1>18 DEF P, Q

\* A worker answers: its batch goes to the end of the channel back.
LEMMA AnswerMoved ==
    ASSUME NEW b, NEW q, NEW w, NEW f \in Seq(Completion), NEW c, NEW t \in Thread,
           NEW a \in Completion, a.work = w[t].work,
           NEW v, v[t].work.txs = <<>>, \A u \in Thread \ {t} : v[u] = w[u]
    PROVE  Moved(PoolOf(b, q, w, f, c), PoolOf(b, q, v, Append(f, a), c))
<1> DEFINE h == Append(f, a)
           N == Len(f) + 1
           P == PoolOf(b, q, w, f, c)
           Q == PoolOf(b, q, v, h, c)
           g == [p \in Place |-> IF p = BackAt(N) THEN WorkerAt(t) ELSE p]
<1>1. /\ N \in Nat /\ DOMAIN h = DOMAIN f \cup {N} /\ N \notin DOMAIN f
      /\ h[N] = a /\ \A n \in DOMAIN f : h[n] = f[n]
  BY SMTT(30)
<1> HIDE DEF h, N
<1>2. /\ g \in [Place -> Place] /\ g[BackAt(N)] = WorkerAt(t)
      /\ \A p \in Place : p # BackAt(N) => g[p] = p
  BY <1>1, Places, SMTT(30)
<1>3. PoolIs(P, b, q, w, f, c) /\ PoolIs(Q, b, q, v, h, c)
  BY PoolAt
<1> HIDE DEF P, Q, g
<1>4. ASSUME NEW u \in Thread
      PROVE  Q[BatchAt(u)] = P[BatchAt(u)] /\ (u # t => Q[WorkerAt(u)] = P[WorkerAt(u)])
  <2>1. Q[BatchAt(u)] = [thread |-> u, txs |-> b[u]] /\ P[BatchAt(u)] = [thread |-> u, txs |-> b[u]]
    BY <1>3 DEF PoolIs
  <2>2. Q[WorkerAt(u)] = Load(v[u].work) /\ P[WorkerAt(u)] = Load(w[u].work)
    BY <1>3 DEF PoolIs
  <2> QED
    BY <2>1, <2>2
<1>5. ASSUME NEW u \in Thread, NEW n \in Nat
      PROVE  \/ Q[QueuedAt(u, n)] = P[QueuedAt(u, n)]
             \/ Q[QueuedAt(u, n)].txs = <<>> /\ P[QueuedAt(u, n)].txs = <<>>
  <2>1. CASE n \in DOMAIN q[u]
    <3>1. Q[QueuedAt(u, n)] = Load(q[u][n]) /\ P[QueuedAt(u, n)] = Load(q[u][n])
      BY <1>3, <2>1 DEF PoolIs
    <3> QED
      BY <3>1
  <2>2. CASE n \notin DOMAIN q[u]
    BY <1>3, <2>2 DEF PoolIs
  <2> QED
    BY <2>1, <2>2
<1>6. ASSUME NEW n \in Nat, n # N
      PROVE  \/ Q[BackAt(n)] = P[BackAt(n)]
             \/ Q[BackAt(n)].txs = <<>> /\ P[BackAt(n)].txs = <<>>
  <2>1. CASE n \in DOMAIN f
    <3>1. n \in DOMAIN h /\ h[n] = f[n]
      BY <1>1, <2>1
    <3>2. Q[BackAt(n)] = Load(h[n].work)
      BY <1>3, <3>1 DEF PoolIs
    <3>3. P[BackAt(n)] = Load(f[n].work)
      BY <1>3, <2>1 DEF PoolIs
    <3> QED
      BY <3>1, <3>2, <3>3
  <2>2. CASE n \notin DOMAIN f
    <3>1. n \notin DOMAIN h
      BY <1>1, <1>6, <2>2
    <3> QED
      BY <1>3, <2>2, <3>1 DEF PoolIs
  <2> QED
    BY <2>1, <2>2
<1>7. Q[BackAt(N)] = P[WorkerAt(t)] /\ P[BackAt(N)].txs = <<>>
  <2>1. Q[BackAt(N)] = Load(h[N].work)
    BY <1>1, <1>3 DEF PoolIs
  <2>2. P[WorkerAt(t)] = Load(w[t].work)
    BY <1>3 DEF PoolIs
  <2>3. P[BackAt(N)].txs = <<>>
    BY <1>1, <1>3 DEF PoolIs
  <2> QED
    BY <1>1, <2>1, <2>2, <2>3
<1>8. Q[CompletedAt] = P[CompletedAt] /\ Q[WorkerAt(t)].txs = <<>>
  <2>1. Q[CompletedAt] = Load(c.work) /\ P[CompletedAt] = Load(c.work)
    BY <1>3 DEF PoolIs
  <2>2. Q[WorkerAt(t)].txs = v[t].work.txs
    BY <1>3 DEF PoolIs
  <2> QED
    BY <2>1, <2>2
<1> DEFINE Same(p) == Q[p] = P[p] \/ (Q[p].txs = <<>> /\ P[p].txs = <<>>)
<1>9. \A p \in Place : p # BackAt(N) /\ p # WorkerAt(t) => Same(p)
  <2>1. \A u \in Thread : Same(BatchAt(u)) /\ (u # t => Same(WorkerAt(u)))
    BY <1>4
  <2>2. \A u \in Thread, n \in Nat : Same(QueuedAt(u, n))
    BY <1>5
  <2>3. \A n \in Nat : n # N => Same(BackAt(n))
    BY <1>6
  <2>4. Same(CompletedAt)
    BY <1>8
  <2> HIDE DEF Same
  <2> QED
    BY <2>1, <2>2, <2>3, <2>4, Places
<1>10. /\ BackAt(N) \in Place /\ WorkerAt(t) \in Place
       /\ WorkerAt(t) # CompletedAt /\ WorkerAt(t) # BackAt(N)
  <2>1. BackAt(N) \in Place /\ WorkerAt(t) \in Place
    BY <1>1, Places
  <2>2. WorkerAt(t) # CompletedAt /\ WorkerAt(t) # BackAt(N)
    BY PlacesApart, SMTT(30)
  <2> QED
    BY <2>1, <2>2
<1>11. \A p \in Place : Q[p].txs = <<>> \/ (Q[p] = P[g[p]] /\ (g[p] = CompletedAt => p = CompletedAt))
  BY <1>2, <1>7, <1>8, <1>9, <1>10
<1>12. \A p, y \in Place : Q[p].txs # <<>> /\ Q[y].txs # <<>> /\ g[p] = g[y] => p = y
  BY <1>2, <1>8
<1>13. \A p \in Place : P[p].txs = <<>> \/ \E y \in Place : Q[y] = P[p]
  BY <1>7, <1>9, <1>10
<1>14. Moved(P, Q)
  BY <1>2, <1>11, <1>12, <1>13 DEF Moved
<1> QED
  BY <1>14 DEF P, Q, h
-----------------------------------------------------------------------------
(***************************************************************************)
(* The container.                                                          *)
(***************************************************************************)
\* The keys of the map, and of any part of it, are finitely many.
LEMMA FiniteKeys ==
    ASSUME Counting, NEW A \in SUBSET Id
    PROVE  IsFiniteSet(A) /\ Cardinality(A) \in Nat
BY CapacityAssumption DEF Counting, FiniteSubset, FiniteSize

\* The heap's order is strict and total.
LEMMA BelowOrder ==
    ASSUME NEW S, StateOK(S)
    PROVE  /\ \A i \in DOMAIN S : ~ Below(S, i, i)
           /\ \A i, j \in DOMAIN S : i # j => Below(S, i, j) \/ Below(S, j, i)
           /\ \A i, j, k \in DOMAIN S : Below(S, i, j) /\ Below(S, j, k) => Below(S, i, k)
<1>1. \A i \in DOMAIN S : Priority(S[i].tx) \in Int /\ i \in Int
  BY CapacityAssumption, PriorityAssumption, SMTT(30) DEF StateOK, State
<1> QED
  BY <1>1, SMTT(30) DEF Below

\* The heap drops at least as many keys as the map has too many.
LEMMA LowestCount ==
    ASSUME Counting, NEW S, StateOK(S), NEW all \in SUBSET DOMAIN S, NEW n \in Nat, n <= Cardinality(all)
    PROVE  Cardinality(all \ Lowest(S, all, n)) <= Cardinality(all) - n
<1> DEFINE lower(i) == {j \in all : Below(S, j, i)}
           kept == all \ Lowest(S, all, n)
           N == Cardinality(all)
           rank == [i \in kept |-> Cardinality(lower(i))]
<1>1. all \in SUBSET Id /\ IsFiniteSet(all) /\ N \in Nat
  BY FiniteKeys DEF StateOK
<1>2. ASSUME NEW i \in all
      PROVE  IsFiniteSet(lower(i)) /\ Cardinality(lower(i)) \in Nat /\ Cardinality(lower(i)) < N
  <2>1. lower(i) \in SUBSET all
    BY SMTT(30)
  <2>2. lower(i) # all
    BY BelowOrder
  <2> HIDE DEF lower
  <2>3. IsFiniteSet(lower(i)) /\ Cardinality(lower(i)) <= N /\ Cardinality(lower(i)) # N
    BY <1>1, <2>1, <2>2 DEF Counting, FiniteSubset
  <2>4. Cardinality(lower(i)) \in Nat
    BY <2>3 DEF Counting, FiniteSize
  <2> QED
    BY <1>1, <2>3, <2>4, SMTT(30)
<1>3. ASSUME NEW i \in all, NEW k \in all, Below(S, i, k)
      PROVE  Cardinality(lower(i)) # Cardinality(lower(k))
  <2>1. lower(i) \in SUBSET lower(k) /\ i \in lower(k) /\ i \notin lower(i)
    BY <1>3, BelowOrder
  <2> HIDE DEF lower
  <2> QED
    BY <1>2, <2>1 DEF Counting, FiniteSubset
<1>4. \A i \in kept : i \in all /\ ~(Cardinality(lower(i)) < n)
  BY DEF Lowest
<1> HIDE DEF lower, kept, N
<1>5. rank \in [kept -> n .. N - 1]
  BY <1>1, <1>2, <1>4, SMTT(30)
<1>6. \A i, k \in kept : rank[i] = rank[k] => i = k
  <2> SUFFICES ASSUME NEW i \in kept, NEW k \in kept, i # k PROVE rank[i] # rank[k]
    OBVIOUS
  <2>1. i \in all /\ k \in all /\ (Below(S, i, k) \/ Below(S, k, i))
    BY <1>4, BelowOrder
  <2>2. rank[i] = Cardinality(lower(i)) /\ rank[k] = Cardinality(lower(k))
    BY SMTT(30)
  <2> QED
    BY <1>3, <2>1, <2>2
<1>7. rank \in Injection(kept, n .. N - 1)
  BY <1>5, <1>6 DEF Injection, IsInjective
<1>8. IsFiniteSet(n .. N - 1) /\ Cardinality(n .. N - 1) = N - n
  <2>1. n \in Int /\ N - 1 \in Int /\ n <= N
    BY <1>1, SMTT(30) DEF N
  <2>2. /\ IsFiniteSet(n .. N - 1)
        /\ Cardinality(n .. N - 1) = IF n > N - 1 THEN 0 ELSE (N - 1) - n + 1
    BY <2>1 DEF Counting, FiniteInterval
  <2> QED
    BY <1>1, <2>1, <2>2, SMTT(30)
<1> HIDE DEF rank
<1>9. Cardinality(kept) <= Cardinality(n .. N - 1)
  BY <1>7, <1>8 DEF Counting, FiniteInjection
<1> QED
  BY <1>8, <1>9 DEF kept, N

\* What push_ids_into_queue does: it drops queued keys, none while the map is
\* within its capacity, and the map is within its capacity after it.
LEMMA Pushed ==
    ASSUME Counting, NEW S, StateOK(S), NEW q, NEW ids, q \cup ids \subseteq DOMAIN S,
           Cardinality(DOMAIN S) <= capacity + Cardinality(q \cup ids),
           push_ids_into_queue(S, q, ids)
    PROVE  \E D \in SUBSET (q \cup ids) :
              /\ priority_queue' = (q \cup ids) \ D
              /\ id_to_transaction_state' = [i \in DOMAIN S \ D |-> S[i]]
              /\ Cardinality(DOMAIN S \ D) <= capacity
              /\ Cardinality(DOMAIN S) <= capacity => D = {}
<1> DEFINE all == q \cup ids
           M == DOMAIN S
           n == Cardinality(M) - capacity
           D == Lowest(S, all, n)
<1>1. D \in SUBSET all /\ all \in SUBSET M /\ M \in SUBSET Id
  BY DEF Lowest, StateOK
<1>2. /\ IsFiniteSet(all) /\ Cardinality(all) \in Nat
      /\ IsFiniteSet(M) /\ Cardinality(M) \in Nat /\ capacity \in Nat
  BY <1>1, FiniteKeys, CapacityAssumption
<1>3. /\ priority_queue' = all \ D
      /\ id_to_transaction_state' = [i \in M \ D |-> S[i]]
  BY DEF push_ids_into_queue, Restrict
<1> HIDE DEF D
<1>4. CASE Cardinality(M) <= capacity
  <2>1. D = {}
    <3> SUFFICES ASSUME NEW i \in all, Cardinality({j \in all : Below(S, j, i)}) < n
                 PROVE  FALSE
      BY DEF D, Lowest
    <3>1. {j \in all : Below(S, j, i)} \in SUBSET Id
      BY <1>1
    <3>2. Cardinality({j \in all : Below(S, j, i)}) \in Nat
      BY <3>1, FiniteKeys
    <3> QED
      BY <1>2, <1>4, <3>2, SMTT(30)
  <2>2. M \ D = M
    BY <2>1
  <2>3. Cardinality(M \ D) <= capacity
    BY <1>4, <2>2
  <2> QED
    BY <1>1, <1>3, <2>1, <2>3
<1>5. CASE ~(Cardinality(M) <= capacity)
  <2>1. n \in Nat /\ n <= Cardinality(all)
    BY <1>2, <1>5, SMTT(30)
  <2>2. Cardinality(all \ D) <= Cardinality(all) - n
    BY <1>1, <2>1, LowestCount DEF D
  <2>3. M \cap D = D /\ all \cap D = D
    BY <1>1
  <2>4. /\ Cardinality(all \ D) = Cardinality(all) - Cardinality(D)
        /\ Cardinality(M \ D) = Cardinality(M) - Cardinality(D)
    <3>1. Cardinality(all \ D) = Cardinality(all) - Cardinality(all \cap D)
      BY <1>2 DEF Counting, FiniteDifference
    <3>2. Cardinality(M \ D) = Cardinality(M) - Cardinality(M \cap D)
      BY <1>2 DEF Counting, FiniteDifference
    <3> HIDE DEF all, M
    <3> QED
      BY <2>3, <3>1, <3>2
  <2>5. Cardinality(D) \in Nat
    BY <1>1, FiniteKeys
  <2>6. Cardinality(M \ D) <= capacity
    BY <1>2, <2>2, <2>4, <2>5, SMTT(30)
  <2> QED
    BY <1>1, <1>3, <1>5, <2>6
<1> QED
  BY <1>4, <1>5

\* A finite set maps into one that is not smaller.
LEMMA InjectionExists ==
    ASSUME Counting, NEW A, NEW B, IsFiniteSet(A), IsFiniteSet(B), Cardinality(A) <= Cardinality(B)
    PROVE  Injection(A, B) # {}
<1> DEFINE m == Cardinality(A)
           n == Cardinality(B)
<1>1. m \in Nat /\ n \in Nat
  BY DEF Counting, FiniteSize
<1>2. PICK G : G \in Bijection(1 .. m, A)
  BY DEF Counting, FiniteSize, ExistsBijection
<1>3. PICK H : H \in Bijection(1 .. n, B)
  BY DEF Counting, FiniteSize, ExistsBijection
<1> HIDE DEF m, n
<1>4. \A x \in A : \E k \in 1 .. m : G[k] = x
  BY <1>2 DEF Bijection, Surjection
<1>5. H \in [1 .. n -> B] /\ \A i, j \in 1 .. n : H[i] = H[j] => i = j
  BY <1>3 DEF Bijection, Injection, IsInjective
<1>6. \A k \in 1 .. m : k \in 1 .. n
  BY <1>1, SMTT(30) DEF m, n
<1> DEFINE no(x) == CHOOSE k \in 1 .. m : G[k] = x
           key == [x \in A |-> H[no(x)]]
<1>7. \A x \in A : no(x) \in 1 .. m /\ G[no(x)] = x
  BY <1>4
<1> HIDE DEF no
<1>8. key \in [A -> B] /\ \A x, y \in A : key[x] = key[y] => x = y
  BY <1>5, <1>6, <1>7
<1>9. key \in Injection(A, B)
  BY <1>8 DEF Injection, IsInjective
<1> QED
  BY <1>9

\* Nothing is dropped while the map is within its capacity.
LEMMA PushedAll ==
    ASSUME Counting, NEW S, StateOK(S), NEW q, NEW ids, q \cup ids \subseteq DOMAIN S,
           Cardinality(DOMAIN S) <= capacity, push_ids_into_queue(S, q, ids)
    PROVE  priority_queue' = q \cup ids /\ id_to_transaction_state' = S
<1>1. q \cup ids \in SUBSET Id /\ DOMAIN S \in SUBSET Id
  BY DEF StateOK
<1>2. Cardinality(q \cup ids) \in Nat /\ Cardinality(DOMAIN S) \in Nat /\ capacity \in Nat
  BY <1>1, FiniteKeys, CapacityAssumption
<1>3. Cardinality(DOMAIN S) <= capacity + Cardinality(q \cup ids)
  BY <1>2, SMTT(30)
<1>4. PICK D \in SUBSET (q \cup ids) :
              /\ priority_queue' = (q \cup ids) \ D
              /\ id_to_transaction_state' = [i \in DOMAIN S \ D |-> S[i]]
              /\ Cardinality(DOMAIN S \ D) <= capacity
              /\ Cardinality(DOMAIN S) <= capacity => D = {}
  BY <1>3, Pushed
<1>5. D = {}
  BY <1>4
<1>6. (q \cup ids) \ D = q \cup ids /\ DOMAIN S \ D = DOMAIN S
  BY <1>5
<1>7. [i \in DOMAIN S |-> S[i]] = S
  BY DEF StateOK
<1> QED
  BY <1>4, <1>6, <1>7

\* Queued transactions may be dropped.
LEMMA Dropped ==
    ASSUME NEW P, NEW S, NEW H, NEW q, NEW h, NEW u, NEW arr,
           StateOK(S), Sound(P, S, H, q, h, u, arr), NEW D \in SUBSET q,
           NEW R, R = [i \in DOMAIN S \ D |-> S[i]]
    PROVE  StateOK(R) /\ Sound(P, R, H, q \ D, h, u, arr)
<1>1. DOMAIN R = DOMAIN S \ D /\ \A i \in DOMAIN S \ D : R[i] = S[i]
  OBVIOUS
<1>2. \A i \in D : i \in DOMAIN S /\ ~ S[i].taken
  BY DEF Sound, PlacesSound
<1>3. StateOK(R)
  BY <1>1 DEF StateOK
<1>4. PoolSound(P, R, H)
  <2>1. \A i \in DOMAIN S : S[i].taken => i \in DOMAIN R /\ R[i] = S[i]
    BY <1>1, <1>2
  <2>2. \A i \in DOMAIN R : R[i].taken => i \in DOMAIN S /\ S[i].taken
    BY <1>1
  <2> QED
    BY <2>1, <2>2, EntriesChange DEF Sound
<1>5. PlacesSound(R, q \ D, h, u)
  <2>1. {i \in DOMAIN R : ~ R[i].taken} = {i \in DOMAIN S : ~ S[i].taken} \ D
    BY <1>1, SMTT(30)
  <2> QED
    BY <1>1, <2>1, SMTT(30) DEF Sound, PlacesSound
<1>6. EntriesSound(R, H, arr)
  <2>1. EntriesSound(S, H, arr)
    BY DEF Sound
  <2>2. \A i, j \in DOMAIN R : R[i].tx = R[j].tx => i = j
    BY <1>1, <2>1 DEF EntriesSound
  <2>3. \A i \in DOMAIN R : R[i].tx \in arr
    BY <1>1, <2>1 DEF EntriesSound
  <2>4. ASSUME NEW x \in Tx, H[x] # NoThread PROVE \E i \in DOMAIN R : R[i].taken /\ R[i].tx = x
    <3>1. PICK i \in DOMAIN S : S[i].taken /\ S[i].tx = x
      BY <2>1, <2>4 DEF EntriesSound
    <3> QED
      BY <1>1, <1>2, <3>1
  <2> QED
    BY <2>2, <2>3, <2>4 DEF EntriesSound
<1> QED
  BY <1>3, <1>4, <1>5, <1>6 DEF Sound

\* Keys that are held, or set aside, go to the queue.
LEMMA Requeued ==
    ASSUME NEW P, NEW S, NEW H, NEW q, NEW h, NEW u, NEW arr, Sound(P, S, H, q, h, u, arr)
    PROVE  /\ Sound(P, S, H, q \cup h, {}, u, arr)
           /\ Sound(P, S, H, q \cup u, h, {}, arr)
           /\ q \cup h \subseteq DOMAIN S /\ q \cup u \subseteq DOMAIN S
<1>1. PlacesSound(S, q, h, u)
  BY DEF Sound
<1>2. /\ PlacesSound(S, q \cup h, {}, u) /\ PlacesSound(S, q \cup u, h, {})
      /\ q \cup h \subseteq DOMAIN S /\ q \cup u \subseteq DOMAIN S
  BY <1>1, SMTT(30) DEF PlacesSound
<1> QED
  BY <1>2 DEF Sound
=============================================================================
