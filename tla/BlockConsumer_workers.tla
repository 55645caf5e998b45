------------------------ MODULE BlockConsumer_workers ------------------------
(***************************************************************************)
(* The scheduler of the block consumer, and its workers.                   *)
(*                                                                         *)
(* The inductive invariant of DevinScheduler, and the scheduler's steps,   *)
(* for every set of accounts, every set of blocks and every limit.         *)
(*                                                                         *)
(* The inductive invariant of BlockConsumer, and the workers' steps around *)
(* the execution of a range: taking it from the queue, locking, caching,   *)
(* committing and sending it back.                                         *)
(***************************************************************************)
EXTENDS BlockConsumer, FiniteCounting, TLAPS

\* Most steps need no arithmetic: Zenon proves them unless SMT is named.
USE ZenonT(40)

-----------------------------------------------------------------------------
(* The inductive invariant of DevinScheduler *)

\* The lock map of the running transactions is exact: a writer holds the
\* account alone, readers are counted.
RunningLocksExact ==
    \A a \in Accounts :
        running_locks[a] = IF Writers(Running, a) # {} THEN LockMax
                           ELSE Cardinality(Readers(Running, a))

\* A skipped transaction keeps later ones away from its accounts.
SkippedLocksHeld ==
    /\ \A p \in 1..next :
          /\ \A a \in transactions[indices[p]].write : skipped_locks[a] = LockMax
          /\ \A a \in transactions[indices[p]].read : skipped_locks[a] # 0
    /\ next = 0 => skipped_locks = NoLocks

\* Only a running transaction makes pop() skip one.
SkipsNeedRunning == next > 0 => running # {}

IInv ==
    /\ TypeOK
    /\ ExactlyOnce
    /\ ConflictOrder
    /\ RunningLocksExact
    /\ SkippedLocksHeld
    /\ SkipsNeedRunning

-----------------------------------------------------------------------------
(* Cardinalities *)

\* The cardinality of a disjoint union of finite sets is the sum.
LEMMA CardinalityDisjointUnion ==
    ASSUME Counting, NEW S, NEW T, IsFiniteSet(S), IsFiniteSet(T), S \cap T = {}
    PROVE  /\ IsFiniteSet(S \cup T)
           /\ Cardinality(S \cup T) = Cardinality(S) + Cardinality(T)
<1>1. /\ IsFiniteSet(S \cup T)
      /\ Cardinality(S \cup T) = Cardinality(S) + Cardinality(T) - Cardinality(S \cap T)
  BY DEF Counting, FiniteUnion
<1>2. Cardinality(S \cap T) = 0
  BY DEF Counting, FiniteEmpty
<1>3. Cardinality(S) \in Nat /\ Cardinality(T) \in Nat
  BY DEF Counting, FiniteSize
<1> QED
  BY <1>1, <1>2, <1>3, SMTT(30)

\* Taking a subset away from a finite set takes its cardinality away.
LEMMA CardinalityWithout ==
    ASSUME Counting, NEW S, IsFiniteSet(S), NEW T \in SUBSET S
    PROVE  Cardinality(S \ T) = Cardinality(S) - Cardinality(T)
<1>1. Cardinality(S \ T) = Cardinality(S) - Cardinality(S \cap T)
  BY DEF Counting, FiniteDifference
<1>2. S \cap T = T
  OBVIOUS
<1> QED
  BY <1>1, <1>2

\* The numbers below n are n numbers.
LEMMA FirstNumbers ==
    ASSUME Counting, NEW n \in Nat
    PROVE  IsFiniteSet(0..(n - 1)) /\ Cardinality(0..(n - 1)) = n
<1>1. 0 \in Int /\ n - 1 \in Int
  BY SMTT(30)
<1>2. /\ IsFiniteSet(0..(n - 1))
      /\ Cardinality(0..(n - 1)) = IF 0 > n - 1 THEN 0 ELSE (n - 1) - 0 + 1
  BY <1>1 DEF Counting, FiniteInterval
<1> QED
  BY <1>2, SMTT(30)

-----------------------------------------------------------------------------
(* The block *)

\* A block is finite, is numbered from 0, and has fewer than u32::MAX
\* transactions, each over known accounts.
LEMMA TxsFacts ==
    ASSUME Counting, TypeOK
    PROVE  /\ IsFiniteSet(Txs)
           /\ Cardinality(Txs) \in 0..(LockMax - 1)
           /\ Txs = 0..(Cardinality(Txs) - 1)
           /\ \A i \in Txs : /\ transactions[i].read \subseteq Accounts
                             /\ transactions[i].write \subseteq Accounts
<1>1. CASE transactions \in Blocks
  <2>1. PICK n \in 0..(LockMax - 1) : transactions \in [0..(n - 1) -> Transaction]
    BY <1>1, BlocksAssumption
  <2>2. Txs = 0..(n - 1)
    BY <2>1 DEF Txs
  <2>3. IsFiniteSet(Txs) /\ Cardinality(Txs) = n
    <3>1. n \in Nat
      BY LimitsAssumption, SMTT(30)
    <3> QED
      BY <2>2, <3>1, FirstNumbers
  <2>4. \A i \in Txs : transactions[i] \in Transaction
    BY <2>1, <2>2
  <2> QED
    BY <2>2, <2>3, <2>4 DEF Transaction
<1>2. CASE transactions = <<>>
  <2>1. Txs = {}
    BY <1>2, SMTT(30) DEF Txs
  <2>2. IsFiniteSet(Txs) /\ Cardinality(Txs) = 0
    BY <2>1 DEF Counting, FiniteEmpty
  <2> QED
    BY <2>1, <2>2, LimitsAssumption, SMTT(30)
<1> QED
  BY <1>1, <1>2 DEF TypeOK

\* The transactions that wait are transactions of the block.
LEMMA IndicesFacts ==
    ASSUME Counting, TypeOK
    PROVE  /\ indices \in Seq(Txs) /\ Len(indices) \in Nat /\ next \in 0..Len(indices)
           /\ \A p \in 1..Len(indices) : indices[p] \in Txs /\ indices[p] \in Int
           /\ running_locks \in [Accounts -> 0..LockMax]
           /\ skipped_locks \in [Accounts -> 0..LockMax]
<1>1. /\ indices \in Seq(Txs) /\ next \in 0..Len(indices)
      /\ running_locks \in [Accounts -> 0..LockMax]
      /\ skipped_locks \in [Accounts -> 0..LockMax]
  BY DEF TypeOK
<1>2. Len(indices) \in Nat /\ \A p \in 1..Len(indices) : indices[p] \in Txs
  BY <1>1, SMTT(30)
<1>3. Txs \subseteq Int
  BY TxsFacts, SMTT(30)
<1> QED
  BY <1>1, <1>2, <1>3

\* The transactions that access an account are finitely many.
LEMMA FiniteAccess ==
    ASSUME Counting, TypeOK, NEW S \in SUBSET Txs, NEW a
    PROVE  /\ IsFiniteSet(S)
           /\ IsFiniteSet(Readers(S, a))
           /\ Cardinality(Readers(S, a)) \in 0..(LockMax - 1)
           /\ (Cardinality(Readers(S, a)) = 0 <=> Readers(S, a) = {})
<1>1. Readers(S, a) \in SUBSET Txs
  BY DEF Readers
<1>2. IsFiniteSet(Txs) /\ Cardinality(Txs) \in 0..(LockMax - 1)
  BY TxsFacts
<1>3. /\ IsFiniteSet(S) /\ IsFiniteSet(Readers(S, a))
      /\ Cardinality(Readers(S, a)) <= Cardinality(Txs)
  BY <1>1, <1>2 DEF Counting, FiniteSubset
<1>4. /\ Cardinality(Readers(S, a)) \in Nat
      /\ Cardinality(Readers(S, a)) = 0 <=> Readers(S, a) = {}
  BY <1>3 DEF Counting, FiniteSize, FiniteEmpty
<1> QED
  BY <1>2, <1>3, <1>4, LimitsAssumption, SMTT(30)

-----------------------------------------------------------------------------
(* Lock maps *)

\* What locking a set of transactions does to an account.
LEMMA LockEffect ==
    ASSUME Counting, TypeOK, NEW S \in SUBSET Txs, NEW locks \in [Accounts -> 0..LockMax]
    PROVE  /\ lock_accounts(S, locks) \in [Accounts -> 0..LockMax]
           /\ \A a \in Accounts :
                /\ Writers(S, a) # {} => lock_accounts(S, locks)[a] = LockMax
                /\ Readers(S, a) # {} => lock_accounts(S, locks)[a] # 0
                /\ locks[a] = LockMax => lock_accounts(S, locks)[a] = LockMax
                /\ locks[a] # 0 => lock_accounts(S, locks)[a] # 0
                /\ S = {} => lock_accounts(S, locks)[a] = locks[a]
<1> SUFFICES ASSUME NEW a \in Accounts
             PROVE  /\ lock_accounts(S, locks)[a] \in 0..LockMax
                    /\ Writers(S, a) # {} => lock_accounts(S, locks)[a] = LockMax
                    /\ Readers(S, a) # {} => lock_accounts(S, locks)[a] # 0
                    /\ locks[a] = LockMax => lock_accounts(S, locks)[a] = LockMax
                    /\ locks[a] # 0 => lock_accounts(S, locks)[a] # 0
                    /\ S = {} => lock_accounts(S, locks)[a] = locks[a]
  BY DEF lock_accounts
<1> DEFINE c == Cardinality(Readers(S, a))
<1>1. lock_accounts(S, locks)[a] =
        IF Writers(S, a) # {} THEN LockMax ELSE SaturatingAdd(locks[a], c)
  BY DEF lock_accounts
<1>2. c \in 0..(LockMax - 1) /\ (c = 0 <=> Readers(S, a) = {})
  BY FiniteAccess
<1>3. S = {} => Writers(S, a) = {} /\ Readers(S, a) = {}
  BY DEF Writers, Readers
<1>4. locks[a] \in 0..LockMax
  OBVIOUS
<1> HIDE DEF c
<1> QED
  BY <1>1, <1>2, <1>3, <1>4, LimitsAssumption, SMTT(30) DEF SaturatingAdd

\* Locking a set of transactions next to the running ones keeps the map exact.
LEMMA LockExact ==
    ASSUME Counting, TypeOK, RunningLocksExact, NEW S \in SUBSET Txs, S \cap Running = {},
           NEW a \in Accounts
    PROVE  lock_accounts(S, running_locks)[a] =
             IF Writers(Running \cup S, a) # {} THEN LockMax
             ELSE Cardinality(Readers(Running \cup S, a))
<1> DEFINE c == Cardinality(Readers(S, a))
           d == Cardinality(Readers(Running, a))
           e == Cardinality(Readers(Running \cup S, a))
<1>1. Running \in SUBSET Txs
  BY DEF TypeOK, Running
<1>2. /\ Writers(Running \cup S, a) = Writers(Running, a) \cup Writers(S, a)
      /\ Readers(Running \cup S, a) = Readers(Running, a) \cup Readers(S, a)
      /\ Readers(Running, a) \cap Readers(S, a) = {}
  BY DEF Writers, Readers
<1>3. c \in 0..(LockMax - 1) /\ IsFiniteSet(Readers(S, a))
  BY FiniteAccess
<1>4. d \in 0..(LockMax - 1) /\ IsFiniteSet(Readers(Running, a))
  BY <1>1, FiniteAccess
<1>5. e \in 0..(LockMax - 1)
  BY <1>1, FiniteAccess
<1>6. e = d + c
  BY <1>2, <1>3, <1>4, CardinalityDisjointUnion
<1>7. lock_accounts(S, running_locks)[a] =
        IF Writers(S, a) # {} THEN LockMax ELSE SaturatingAdd(running_locks[a], c)
  BY DEF lock_accounts
<1>8. running_locks[a] = IF Writers(Running, a) # {} THEN LockMax ELSE d
  BY DEF RunningLocksExact
<1> HIDE DEF c, d, e
<1>9. CASE Writers(S, a) # {}
  BY <1>2, <1>7, <1>9
<1>10. CASE Writers(S, a) = {}
  BY <1>2, <1>3, <1>4, <1>5, <1>6, <1>7, <1>8, <1>10, LimitsAssumption, SMTT(30)
     DEF SaturatingAdd, e
<1> QED
  BY <1>9, <1>10

\* Two running transactions have no account in common that one of them writes.
LEMMA RunningCompatible ==
    ASSUME Counting, TypeOK, ExactlyOnce, ConflictOrder, NEW i \in Running, NEW j \in Running,
           i # j, NEW a, a \in transactions[i].write
    PROVE  a \notin transactions[j].read /\ a \notin transactions[j].write
<1>1. i \in Txs /\ j \in Txs /\ i \in Int /\ j \in Int
  BY TxsFacts, SMTT(30) DEF TypeOK, Running
<1>2. i \notin Waiting /\ j \notin Waiting /\ i \notin Done /\ j \notin Done
  BY DEF ExactlyOnce, Done
<1>3. ~Conflict(i, j) /\ ~Conflict(j, i)
  <2>1. i < j \/ j < i
    BY <1>1, SMTT(30)
  <2>2. CASE i < j
    BY <2>2, <1>1, <1>2 DEF ConflictOrder, Conflict
  <2>3. CASE j < i
    BY <2>3, <1>1, <1>2 DEF ConflictOrder, Conflict
  <2> QED
    BY <2>1, <2>2, <2>3
<1> QED
  BY <1>3 DEF Conflict

\* Unlocking a range keeps the map exact for the ranges that stay.
LEMMA UnlockExact ==
    ASSUME Counting, TypeOK, ExactlyOnce, ConflictOrder, RunningLocksExact,
           NEW S \in SUBSET Running, NEW a \in Accounts
    PROVE  unlock_accounts(S, running_locks)[a] =
             IF Writers(Running \ S, a) # {} THEN LockMax
             ELSE Cardinality(Readers(Running \ S, a))
<1> DEFINE c == Cardinality(Readers(S, a))
           d == Cardinality(Readers(Running, a))
           e == Cardinality(Readers(Running \ S, a))
<1>1. Running \in SUBSET Txs /\ S \in SUBSET Txs /\ Running \ S \in SUBSET Txs
  BY DEF TypeOK, Running
<1>2. /\ Readers(Running \ S, a) = Readers(Running, a) \ Readers(S, a)
      /\ Readers(S, a) \in SUBSET Readers(Running, a)
      /\ Writers(Running, a) = Writers(Running \ S, a) \cup Writers(S, a)
  BY DEF Readers, Writers
<1>3. c \in 0..(LockMax - 1) /\ d \in 0..(LockMax - 1) /\ e \in 0..(LockMax - 1)
  BY <1>1, FiniteAccess
<1>4. e = d - c
  <2>1. IsFiniteSet(Readers(Running, a))
    BY <1>1, FiniteAccess
  <2> QED
    BY <1>2, <2>1, CardinalityWithout
<1>5. unlock_accounts(S, running_locks)[a] =
        IF Writers(S, a) # {} THEN 0 ELSE SaturatingSub(running_locks[a], c)
  BY DEF unlock_accounts
<1>6. running_locks[a] = IF Writers(Running, a) # {} THEN LockMax ELSE d
  BY DEF RunningLocksExact
<1>7. CASE Writers(S, a) # {}
  <2>1. PICK w \in S : a \in transactions[w].write
    BY <1>7 DEF Writers
  <2>2. \A j \in Running \ S : a \notin transactions[j].read /\ a \notin transactions[j].write
    BY <2>1, RunningCompatible
  <2>3. Writers(Running \ S, a) = {} /\ Readers(Running \ S, a) = {}
    BY <2>2 DEF Writers, Readers
  <2> QED
    BY <1>5, <1>7, <2>3 DEF Counting, FiniteEmpty
<1>8. CASE Writers(S, a) = {} /\ Writers(Running \ S, a) # {}
  <2>1. PICK w \in Running \ S : a \in transactions[w].write
    BY <1>8 DEF Writers
  <2>2. \A j \in S : a \notin transactions[j].read
    BY <2>1, RunningCompatible
  <2>3. c = 0
    BY <2>2 DEF Counting, FiniteEmpty, Readers
  <2>4. running_locks[a] = LockMax
    BY <1>2, <1>6, <1>8
  <2> QED
    BY <1>5, <1>8, <2>3, <2>4, LimitsAssumption, SMTT(30) DEF SaturatingSub
<1>9. CASE Writers(S, a) = {} /\ Writers(Running \ S, a) = {}
  <2>1. running_locks[a] = d
    BY <1>2, <1>6, <1>9
  <2>2. unlock_accounts(S, running_locks)[a] = SaturatingSub(d, c)
    BY <1>5, <1>9, <2>1
  <2> HIDE DEF c, d, e
  <2>3. SaturatingSub(d, c) = e
    BY <1>3, <1>4, SMTT(30) DEF SaturatingSub
  <2> QED
    BY <2>2, <2>3, <1>9 DEF e
<1> QED
  BY <1>7, <1>8, <1>9

-----------------------------------------------------------------------------
(* pop() *)

\* Which transactions a pop leaves in the queue, and in which order.
LEMMA DrainFacts ==
    ASSUME NEW S, NEW s \in Seq(S), NEW p \in Nat, NEW k \in Nat, p + k <= Len(s)
    PROVE  /\ Drain(s, p, k) \in Seq(S)
           /\ Len(Drain(s, p, k)) = Len(s) - k
           /\ \A q \in 1..(Len(s) - k) :
                 Drain(s, p, k)[q] = IF q <= p THEN s[q] ELSE s[q + k]
<1>1. Len(s) - k \in Nat
  BY SMTT(30)
<1>2. \A q \in 1..(Len(s) - k) : (IF q <= p THEN s[q] ELSE s[q + k]) \in S
  BY SMTT(30)
<1> QED
  BY <1>1, <1>2, SMTT(30) DEF Drain

\* The transactions a call schedules are waiting ones, behind the skipped ones,
\* and the call moves them from Waiting to Running.
LEMMA PopMoves ==
    ASSUME Counting, IInv, NEW k \in 0..(Len(indices) - next), pop(k)
    PROVE  /\ Scanned(k) \subseteq Waiting
           /\ Scanned(k) \cap Running = {}
           /\ Scanned(k) # {} <=> k > 0
           /\ Txs' = Txs
           /\ Waiting' = Waiting \ Scanned(k)
           /\ Running' = Running \cup Scanned(k)
           /\ Done' = Done
<1> USE DEF IInv
<1>1. /\ indices \in Seq(Txs) /\ Len(indices) \in Nat /\ next \in 0..Len(indices)
      /\ \A p \in 1..Len(indices) : indices[p] \in Int
  BY IndicesFacts
<1>2. Scanned(k) \subseteq Waiting
  BY <1>1, SMTT(30) DEF Scanned, Candidate, Waiting
<1>3. Scanned(k) \cap Running = {}
  BY <1>2 DEF ExactlyOnce
<1>4. Scanned(k) # {} <=> k > 0
  BY SMTT(30) DEF Scanned
<1>5. Txs' = Txs
  BY DEF pop, Txs
<1>6. Running' = Running \cup Scanned(k)
  <2>1. CASE k = 0
    BY <1>4, <2>1, SMTT(30) DEF pop, Running
  <2>2. CASE k # 0
    BY <2>2 DEF pop, Running
  <2> QED
    BY <2>1, <2>2
<1>7. Waiting' = Waiting \ Scanned(k)
  <2>1. /\ Len(indices') = Len(indices) - k
        /\ \A q \in 1..(Len(indices) - k) :
              indices'[q] = IF q <= next THEN indices[q] ELSE indices[q + k]
    <3>1. indices' = Drain(indices, next, k)
      BY DEF pop
    <3>2. next \in Nat /\ k \in Nat /\ next + k <= Len(indices)
      BY <1>1, SMTT(30)
    <3>3. /\ Len(Drain(indices, next, k)) = Len(indices) - k
          /\ \A q \in 1..(Len(indices) - k) :
                Drain(indices, next, k)[q] =
                    IF q <= next THEN indices[q] ELSE indices[q + k]
      BY <1>1, <3>2, DrainFacts, SMTT(30)
    <3> QED
      BY <3>1, <3>3
  <2>2. Waiting' = {indices'[q] : q \in 1..(Len(indices) - k)}
    BY <2>1 DEF Waiting
  <2>3. ASSUME NEW x \in Waiting' PROVE x \in Waiting \ Scanned(k)
    <3>1. PICK q \in 1..(Len(indices) - k) : x = indices'[q]
      BY <2>2, <2>3
    <3>2. PICK p \in 1..Len(indices) : /\ x = indices[p]
                                       /\ p <= next \/ p > next + k
      BY <2>1, <3>1, <1>1, SMTT(30)
    <3>3. ASSUME NEW m \in 1..k PROVE indices[next + m] # indices[p]
      <4>1. next + m \in 1..Len(indices) /\ (next + m < p \/ p < next + m)
        BY <3>2, <1>1, SMTT(30)
      <4>2. indices[next + m] < indices[p] \/ indices[p] < indices[next + m]
        BY <4>1 DEF ExactlyOnce
      <4> QED
        BY <4>1, <4>2, <1>1, SMTT(30)
    <3> QED
      BY <3>2, <3>3 DEF Waiting, Scanned, Candidate
  <2>4. ASSUME NEW x \in Waiting \ Scanned(k) PROVE x \in Waiting'
    <3>1. PICK p \in 1..Len(indices) : x = indices[p]
      BY <2>4 DEF Waiting
    <3>2. p <= next \/ p > next + k
      <4>1. ASSUME p > next, p <= next + k PROVE FALSE
        <5>1. p - next \in 1..k /\ p = next + (p - next)
          BY <4>1, <1>1, SMTT(30)
        <5> QED
          BY <5>1, <3>1, <2>4 DEF Scanned, Candidate
      <4> QED
        BY <4>1, <1>1, SMTT(30)
    <3>3. CASE p <= next
      <4>1. p \in 1..(Len(indices) - k)
        BY <3>3, <1>1, SMTT(30)
      <4> QED
        BY <3>1, <3>3, <4>1, <2>1, <2>2
    <3>4. CASE p > next + k
      <4>1. /\ p - k \in 1..(Len(indices) - k) /\ ~(p - k <= next) /\ (p - k) + k = p
        BY <3>4, <1>1, SMTT(30)
      <4> QED
        BY <3>1, <4>1, <2>1, <2>2
    <3> QED
      BY <3>2, <3>3, <3>4
  <2> QED
    BY <2>3, <2>4
<1>8. Done' = Done
  BY <1>2, <1>5, <1>6, <1>7 DEF Done
<1> QED
  BY <1>2, <1>3, <1>4, <1>5, <1>6, <1>7, <1>8

\* A conflict with a transaction that holds the locks blocks a transaction.
LEMMA LocksBlock ==
    ASSUME NEW i, NEW j, Conflict(i, j), NEW locks,
           \A a \in transactions[i].write : locks[a] = LockMax,
           \A a \in transactions[i].read : locks[a] # 0
    PROVE  is_blocked(j, locks)
BY LimitsAssumption DEF Conflict, is_blocked

\* A scheduled transaction has no unfinished earlier conflict.
LEMMA PopInOrder ==
    ASSUME Counting, IInv, NEW k \in 0..(Len(indices) - next), pop(k),
           NEW j \in Scanned(k), NEW i \in Txs, i < j, Conflict(i, j)
    PROVE  i \in Done
<1> USE DEF IInv
<1>1. /\ indices \in Seq(Txs) /\ Len(indices) \in Nat /\ next \in 0..Len(indices)
      /\ \A p \in 1..Len(indices) : indices[p] \in Txs /\ indices[p] \in Int
      /\ running_locks \in [Accounts -> 0..LockMax]
  BY IndicesFacts
<1>2. PICK m \in 0..(k - 1) : j = indices[next + m + 1] /\ ~BlockedAt(m)
  <2>1. PICK n \in 1..k : j = indices[next + n]
    BY DEF Scanned, Candidate
  <2>2. n - 1 \in 0..(k - 1) /\ next + (n - 1) + 1 = next + n
    BY <1>1, SMTT(30)
  <2>3. ~BlockedAt(n - 1)
    BY <2>2 DEF pop, Schedules
  <2> QED
    BY <2>1, <2>2, <2>3
<1>3. Candidate(m + 1) = j
  BY <1>1, <1>2, SMTT(30) DEF Candidate
<1> DEFINE held == lock_accounts(Scanned(m), running_locks)
<1>4. ~is_blocked(j, held) /\ ~is_blocked(j, skipped_locks)
  BY <1>2, <1>3 DEF BlockedAt
<1>5. Scanned(m) \in SUBSET Txs
  <2>1. \A n \in 1..m : next + n \in 1..Len(indices)
    BY <1>1, SMTT(30)
  <2> QED
    BY <1>1, <2>1 DEF Scanned, Candidate
<1>6. transactions[i].read \subseteq Accounts /\ transactions[i].write \subseteq Accounts
  BY TxsFacts
<1>7. ASSUME i \in Running PROVE FALSE
  <2>1. \A a \in transactions[i].write : Writers(Running, a) # {}
    BY <1>7 DEF Writers
  <2>2. \A a \in transactions[i].read : Readers(Running, a) # {}
    BY <1>7 DEF Readers
  <2>3. \A a \in transactions[i].write : held[a] = LockMax
    BY <2>1, <1>1, <1>5, <1>6, LockEffect DEF RunningLocksExact
  <2>4. \A a \in transactions[i].read : held[a] # 0
    <3> SUFFICES ASSUME NEW a \in transactions[i].read PROVE held[a] # 0
      OBVIOUS
    <3>1. Cardinality(Readers(Running, a)) # 0
      <4>1. Running \in SUBSET Txs
        BY DEF TypeOK, Running
      <4> QED
        BY <4>1, <2>2, FiniteAccess
    <3>2. running_locks[a] # 0
      BY <3>1, <1>6, LimitsAssumption DEF RunningLocksExact
    <3> QED
      BY <3>2, <1>1, <1>5, <1>6, LockEffect
  <2> QED
    BY <2>3, <2>4, <1>4, LocksBlock
<1>8. ASSUME i \in Waiting PROVE FALSE
  <2>1. PICK p \in 1..Len(indices) : i = indices[p]
    BY <1>8 DEF Waiting
  <2>2. p < next + m + 1
    <3>1. next + m + 1 \in 1..Len(indices)
      BY <1>1, <1>2, SMTT(30)
    <3>2. ASSUME p > next + m + 1 PROVE FALSE
      BY <3>1, <3>2, <2>1, <1>1, <1>2, SMTT(30) DEF ExactlyOnce
    <3>3. p # next + m + 1
      BY <3>1, <2>1, <1>1, <1>2, SMTT(30)
    <3> QED
      BY <3>1, <3>2, <3>3, <1>1, SMTT(30)
  <2>3. CASE p <= next
    <3>1. p \in 1..next
      BY <2>3, <1>1, SMTT(30)
    <3>2. /\ \A a \in transactions[i].write : skipped_locks[a] = LockMax
          /\ \A a \in transactions[i].read : skipped_locks[a] # 0
      BY <3>1, <2>1 DEF SkippedLocksHeld
    <3> QED
      BY <3>2, <1>4, LocksBlock
  <2>4. CASE p > next
    <3>1. p - next \in 1..m /\ p = next + (p - next)
      BY <2>2, <2>4, <1>1, <1>2, SMTT(30)
    <3>2. i \in Scanned(m)
      BY <3>1, <2>1 DEF Scanned, Candidate
    <3>3. /\ \A a \in transactions[i].write : Writers(Scanned(m), a) # {}
          /\ \A a \in transactions[i].read : Readers(Scanned(m), a) # {}
      BY <3>2 DEF Writers, Readers
    <3>4. /\ \A a \in transactions[i].write : held[a] = LockMax
          /\ \A a \in transactions[i].read : held[a] # 0
      BY <3>3, <1>1, <1>5, <1>6, LockEffect
    <3> QED
      BY <3>4, <1>4, LocksBlock
  <2> QED
    BY <2>2, <2>3, <2>4, <1>1, SMTT(30)
<1> QED
  BY <1>7, <1>8 DEF Done

\* A pop keeps the invariant.
LEMMA PopStep ==
    ASSUME Counting, IInv, NEW k \in 0..(Len(indices) - next), pop(k)
    PROVE  IInv'
<1> USE DEF IInv
<1> DEFINE S == Scanned(k)
<1>1. /\ indices \in Seq(Txs) /\ Len(indices) \in Nat /\ next \in 0..Len(indices)
      /\ \A p \in 1..Len(indices) : indices[p] \in Txs /\ indices[p] \in Int
      /\ running_locks \in [Accounts -> 0..LockMax]
      /\ skipped_locks \in [Accounts -> 0..LockMax]
  BY IndicesFacts
<1>2. /\ S \subseteq Waiting /\ S \cap Running = {} /\ (S # {} <=> k > 0)
      /\ Txs' = Txs /\ Waiting' = Waiting \ S /\ Running' = Running \cup S
      /\ Done' = Done
  BY PopMoves
<1>3. S \in SUBSET Txs
  BY <1>1, <1>2 DEF Waiting
<1>4. /\ transactions' = transactions /\ completed' = completed /\ finished' = finished
      /\ running_locks' = lock_accounts(S, running_locks)
      /\ indices' = Drain(indices, next, k)
      /\ running' = IF k = 0 THEN running ELSE running \cup {S}
  BY DEF pop
<1>5. /\ Drain(indices, next, k) \in Seq(Txs)
      /\ Len(Drain(indices, next, k)) = Len(indices) - k
      /\ \A q \in 1..(Len(indices) - k) :
            Drain(indices, next, k)[q] =
                IF q <= next THEN indices[q] ELSE indices[q + k]
  <2>1. next \in Nat /\ k \in Nat /\ next + k <= Len(indices)
    BY <1>1, SMTT(30)
  <2> QED
    BY <1>1, <2>1, DrainFacts, SMTT(30)
<1>5a. ASSUME NEW p \in 1..next PROVE indices'[p] = indices[p]
  <2>1. p \in 1..(Len(indices) - k) /\ p <= next
    BY <1>1, SMTT(30)
  <2> QED
    BY <2>1, <1>4, <1>5
<1>6. \/ /\ next' = next + 1 /\ next + k + 1 <= Len(indices)
         /\ skipped_locks' = lock_accounts({indices[next + k + 1]}, skipped_locks)
         /\ BlockedAt(k) /\ Reaches(k)
      \/ next' = next /\ skipped_locks' = skipped_locks
  <2>1. next + (k + 1) = next + k + 1
    BY <1>1, SMTT(30)
  <2> QED
    BY <2>1 DEF pop, Schedules, Reaches, Candidate
<1>7. TypeOK'
  <2>1. lock_accounts(S, running_locks) \in [Accounts -> 0..LockMax]
    BY <1>1, <1>3, LockEffect
  <2>2. skipped_locks' \in [Accounts -> 0..LockMax]
    <3>1. CASE next + k + 1 <= Len(indices) /\ skipped_locks' = lock_accounts({indices[next + k + 1]}, skipped_locks)
      <4>1. {indices[next + k + 1]} \in SUBSET Txs
        BY <3>1, <1>1, SMTT(30)
      <4> QED
        BY <4>1, <3>1, <1>1, LockEffect
    <3> QED
      BY <3>1, <1>6, <1>1
  <2>3. next' \in 0..Len(indices')
    BY <1>1, <1>4, <1>5, <1>6, SMTT(30)
  <2>4. running' \in SUBSET ((SUBSET Txs) \ {{}})
    BY <1>2, <1>3, <1>4, SMTT(30) DEF TypeOK
  <2>5. indices' \in Seq(Txs)
    BY <1>4, <1>5
  <2> QED
    BY <2>1, <2>2, <2>3, <2>4, <2>5, <1>2, <1>4 DEF TypeOK
<1>8. ExactlyOnce'
  <2>1. ASSUME NEW p \in 1..Len(indices'), NEW q \in 1..Len(indices'), p < q
        PROVE  indices'[p] < indices'[q]
    <3>1. p \in 1..(Len(indices) - k) /\ q \in 1..(Len(indices) - k)
      BY <1>4, <1>5
    <3>2. /\ indices'[p] = IF p <= next THEN indices[p] ELSE indices[p + k]
          /\ indices'[q] = IF q <= next THEN indices[q] ELSE indices[q + k]
      BY <3>1, <1>4, <1>5
    <3>3. /\ p \in 1..Len(indices) /\ p + k \in 1..Len(indices)
          /\ q \in 1..Len(indices) /\ q + k \in 1..Len(indices)
          /\ p < q /\ p < q + k /\ p + k < q + k /\ (p <= next \/ ~(q <= next))
      BY <3>1, <2>1, <1>1, SMTT(30)
    <3> QED
      BY <3>2, <3>3 DEF ExactlyOnce
  <2>2. \A r, s \in running' : r # s => r \cap s = {}
    <3>1. \A r \in running : r \cap S = {}
      BY <1>2 DEF Running
    <3> QED
      BY <3>1, <1>4, SMTT(30) DEF ExactlyOnce
  <2>3. Waiting' \cap Running' = {}
    BY <1>2 DEF ExactlyOnce
  <2> QED
    BY <2>1, <2>2, <2>3, <1>2, <1>4 DEF ExactlyOnce
<1>9. ConflictOrder'
  <2> SUFFICES ASSUME NEW i \in Txs, NEW j \in Txs, i < j, Conflict(i, j),
                      j \notin Waiting'
               PROVE  i \in Done
    BY <1>2, <1>4 DEF ConflictOrder, Conflict
  <2>1. CASE j \in S
    BY <2>1, PopInOrder
  <2>2. CASE j \notin S
    BY <2>2, <1>2 DEF ConflictOrder
  <2> QED
    BY <2>1, <2>2
<1>10. RunningLocksExact'
  <2> SUFFICES ASSUME NEW a \in Accounts
               PROVE  lock_accounts(S, running_locks)[a] =
                        IF Writers(Running \cup S, a) # {} THEN LockMax
                        ELSE Cardinality(Readers(Running \cup S, a))
    BY <1>2, <1>4 DEF RunningLocksExact, Writers, Readers
  <2> QED
    BY <1>2, <1>3, LockExact
<1>11. SkippedLocksHeld'
  <2>1. CASE next' = next /\ skipped_locks' = skipped_locks
    BY <2>1, <1>4, <1>5a DEF SkippedLocksHeld
  <2>2. CASE /\ next' = next + 1 /\ next + k + 1 <= Len(indices)
             /\ skipped_locks' = lock_accounts({indices[next + k + 1]}, skipped_locks)
    <3> DEFINE c == indices[next + k + 1]
    <3>1. c \in Txs
      BY <2>2, <1>1, SMTT(30)
    <3>2. \A p \in 1..next : indices'[p] = indices[p]
      BY <1>5a
    <3>3. indices'[next + 1] = c
      <4>1. next + 1 \in 1..(Len(indices) - k) /\ ~(next + 1 <= next)
            /\ (next + 1) + k = next + k + 1
        BY <1>1, <2>2, SMTT(30)
      <4> QED
        BY <4>1, <1>4, <1>5
    <3> HIDE DEF c
    <3>4. /\ \A a \in transactions[c].write : skipped_locks'[a] = LockMax
          /\ \A a \in transactions[c].read : skipped_locks'[a] # 0
      <4>1. /\ \A a \in transactions[c].write : Writers({c}, a) # {} /\ a \in Accounts
            /\ \A a \in transactions[c].read : Readers({c}, a) # {} /\ a \in Accounts
        BY <3>1, TxsFacts DEF Writers, Readers
      <4>2. skipped_locks' = lock_accounts({c}, skipped_locks) /\ {c} \in SUBSET Txs
        BY <2>2, <3>1 DEF c
      <4> QED
        BY <4>1, <4>2, <1>1, LockEffect
    <3>5. ASSUME NEW p \in 1..next
          PROVE  /\ \A a \in transactions[indices[p]].write : skipped_locks'[a] = LockMax
                 /\ \A a \in transactions[indices[p]].read : skipped_locks'[a] # 0
      <4>1. indices[p] \in Txs
        BY <1>1, SMTT(30)
      <4>2. /\ \A a \in transactions[indices[p]].write :
                  skipped_locks[a] = LockMax /\ a \in Accounts
            /\ \A a \in transactions[indices[p]].read :
                  skipped_locks[a] # 0 /\ a \in Accounts
        BY <4>1, TxsFacts DEF SkippedLocksHeld
      <4>3. skipped_locks' = lock_accounts({c}, skipped_locks) /\ {c} \in SUBSET Txs
        BY <2>2, <3>1 DEF c
      <4> QED
        BY <4>2, <4>3, <1>1, LockEffect
    <3>6. \A p \in 1..next' : p \in 1..next \/ p = next + 1
      BY <2>2, <1>1, SMTT(30)
    <3>7. next' # 0
      BY <2>2, <1>1, SMTT(30)
    <3> QED
      BY <3>2, <3>3, <3>4, <3>5, <3>6, <3>7, <1>4 DEF SkippedLocksHeld
  <2> QED
    BY <2>1, <2>2, <1>6
<1>12. SkipsNeedRunning'
  <2>1. CASE k > 0
    BY <2>1, <1>4, SMTT(30) DEF SkipsNeedRunning
  <2>2. CASE k = 0 /\ next > 0
    BY <2>2, <1>4 DEF SkipsNeedRunning
  <2>3. CASE k = 0 /\ next = 0
    <3> SUFFICES ASSUME running = {}, next' # 0 PROVE FALSE
      BY <2>3, <1>4 DEF SkipsNeedRunning
    <3>1. BlockedAt(0)
      BY <1>6, <2>3
    <3>2. S = {} /\ Scanned(0) = {}
      BY <1>2, <2>3, SMTT(30)
    <3>3. Running = {}
      BY DEF Running
    <3>4. \A a \in Accounts : running_locks[a] = 0 /\ skipped_locks[a] = 0
      <4>1. Cardinality({}) = 0
        BY DEF Counting, FiniteEmpty
      <4> QED
        BY <2>3, <3>3, <4>1, SMTT(30)
           DEF RunningLocksExact, Writers, Readers, SkippedLocksHeld, NoLocks
    <3>5. \A a \in Accounts : lock_accounts({}, running_locks)[a] = 0
      BY <3>4, <1>1, LockEffect
    <3>6. Candidate(1) \in Txs
      <4>1. next + 0 + 1 <= Len(indices)
        BY <1>6, <2>3
      <4> QED
        BY <4>1, <2>3, <1>1, SMTT(30) DEF Candidate
    <3>7. /\ transactions[Candidate(1)].read \subseteq Accounts
          /\ transactions[Candidate(1)].write \subseteq Accounts
      BY <3>6, TxsFacts
    <3>8. ~is_blocked(Candidate(1), lock_accounts({}, running_locks))
      BY <3>5, <3>7, LimitsAssumption DEF is_blocked
    <3>9. ~is_blocked(Candidate(1), skipped_locks)
      BY <3>4, <3>7, LimitsAssumption DEF is_blocked
    <3>10. 0 + 1 = 1
      BY SMTT(30)
    <3> QED
      BY <3>1, <3>2, <3>8, <3>9, <3>10 DEF BlockedAt
  <2> QED
    BY <2>1, <2>2, <2>3, <1>1, SMTT(30)
<1> QED
  BY <1>7, <1>8, <1>9, <1>10, <1>11, <1>12

-----------------------------------------------------------------------------
(* finish() and init() *)

\* A call moves the range from Running to Done.
LEMMA FinishMoves ==
    ASSUME IInv, NEW R \in running, finish(R)
    PROVE  /\ transactions' = transactions /\ indices' = indices /\ Txs' = Txs
           /\ Waiting' = Waiting
           /\ R \subseteq Running /\ R \in SUBSET Txs /\ R # {}
           /\ R \cap Waiting = {} /\ R \cap Done = {}
           /\ Running' = Running \ R
           /\ Done' = Done \cup R
<1> USE DEF IInv
<1>1. /\ transactions' = transactions /\ indices' = indices /\ Txs' = Txs
      /\ Waiting' = Waiting
  BY DEF finish, Txs, Waiting
<1>2. /\ R \subseteq Running /\ R \in SUBSET Txs /\ R # {}
      /\ R \cap Waiting = {} /\ R \cap Done = {}
  BY DEF Running, TypeOK, ExactlyOnce, Done
<1>3. Running' = Running \ R
  BY DEF finish, Running, ExactlyOnce
<1>4. Done' = Done \cup R
  BY <1>1, <1>2, <1>3 DEF Done
<1> QED
  BY <1>1, <1>2, <1>3, <1>4

\* Finishing a range keeps the invariant.
LEMMA FinishStep ==
    ASSUME Counting, IInv, NEW R \in running, finish(R)
    PROVE  IInv'
<1> USE DEF IInv
<1>1. /\ transactions' = transactions /\ indices' = indices /\ Txs' = Txs
      /\ Waiting' = Waiting
  BY FinishMoves
<1>2. /\ R \subseteq Running /\ R \in SUBSET Txs /\ R # {}
      /\ R \cap Waiting = {} /\ R \cap Done = {}
  BY FinishMoves
<1>3. Running' = Running \ R
  BY FinishMoves
<1>4. Done' = Done \cup R
  BY FinishMoves
<1>5. /\ IsFiniteSet(Txs) /\ IsFiniteSet(Done) /\ IsFiniteSet(R)
      /\ Done \cup R \in SUBSET Txs
      /\ Cardinality(Done \cup R) = Cardinality(Done) + Cardinality(R)
  <2>1. Done \in SUBSET Txs
    BY DEF Done
  <2>2. IsFiniteSet(Txs) /\ IsFiniteSet(Done) /\ IsFiniteSet(R)
    BY <2>1, <1>2, FiniteAccess, TxsFacts
  <2> QED
    BY <2>1, <2>2, <1>2, CardinalityDisjointUnion
<1>6. completed' = Cardinality(Done')
  BY <1>4, <1>5 DEF finish, ExactlyOnce
<1>7. unlock_accounts(R, running_locks) = running_locks'
  BY DEF finish
<1>8. TypeOK'
  <2>1. completed' \in 0..Cardinality(Txs)
    <3>1. /\ Cardinality(Done \cup R) <= Cardinality(Txs)
          /\ Cardinality(Done \cup R) \in Nat
      BY <1>5 DEF Counting, FiniteSubset, FiniteSize
    <3> QED
      BY <3>1, <1>4, <1>6, TxsFacts, SMTT(30)
  <2>2. running_locks' \in [Accounts -> 0..LockMax]
    <3>1. \A a \in Accounts : Cardinality(Readers(R, a)) \in 0..(LockMax - 1)
      BY <1>2, FiniteAccess
    <3>2. ASSUME NEW a \in Accounts
          PROVE  SaturatingSub(running_locks[a], Cardinality(Readers(R, a)))
                     \in 0..LockMax
      <4>1. running_locks[a] \in 0..LockMax
        BY DEF TypeOK
      <4> QED
        BY <4>1, <3>1, LimitsAssumption, SMTT(30) DEF SaturatingSub
    <3> QED
      BY <3>2, <1>7, LimitsAssumption, SMTT(30) DEF unlock_accounts
  <2>3. next' \in 0..Len(indices') /\ skipped_locks' \in [Accounts -> 0..LockMax]
    BY <1>1, LimitsAssumption, SMTT(30) DEF finish, TypeOK, NoLocks
  <2>4. running' \in SUBSET ((SUBSET Txs) \ {{}}) /\ finished' \in BOOLEAN
    BY DEF finish, TypeOK
  <2> QED
    BY <1>1, <2>1, <2>2, <2>3, <2>4 DEF TypeOK
<1>9. ExactlyOnce'
  <2>1. finished' <=> Done' = Txs
    <3>1. Cardinality(Done') = Cardinality(Txs) => Done' = Txs
      BY <1>4, <1>5 DEF Counting, FiniteSubset
    <3>2. finished' <=> Cardinality(Done') = Cardinality(Txs)
      BY <1>1, <1>6 DEF finish
    <3> QED
      BY <3>1, <3>2
  <2>2. \A r, s \in running' : r # s => r \cap s = {}
    BY DEF finish, ExactlyOnce
  <2>3. Waiting' \cap Running' = {}
    BY <1>1, <1>3 DEF ExactlyOnce
  <2> QED
    BY <1>1, <1>6, <2>1, <2>2, <2>3 DEF ExactlyOnce
<1>10. ConflictOrder'
  BY <1>1, <1>4 DEF ConflictOrder, Conflict
<1>11. RunningLocksExact'
  <2> SUFFICES ASSUME NEW a \in Accounts
               PROVE  unlock_accounts(R, running_locks)[a] =
                        IF Writers(Running \ R, a) # {} THEN LockMax
                        ELSE Cardinality(Readers(Running \ R, a))
    BY <1>1, <1>3, <1>7 DEF RunningLocksExact, Writers, Readers
  <2> QED
    BY <1>2, UnlockExact
<1>12. SkippedLocksHeld' /\ SkipsNeedRunning'
  BY SMTT(30) DEF finish, SkippedLocksHeld, SkipsNeedRunning
<1> QED
  BY <1>8, <1>9, <1>10, <1>11, <1>12

\* A new block waits as a whole.
LEMMA InitMoves ==
    ASSUME Counting, NEW b \in Blocks, init(b)
    PROVE  /\ transactions' = b /\ running' = {}
           /\ Waiting' = Txs' /\ Running' = {} /\ Done' = {}
           /\ \E n \in 0..(LockMax - 1) :
                 /\ n \in Nat /\ DOMAIN b = 0..(n - 1) /\ Cardinality(DOMAIN b) = n
                 /\ IsFiniteSet(DOMAIN b)
                 /\ indices' = [p \in 1..n |-> p - 1] /\ Txs' = 0..(n - 1)
                 /\ indices' \in Seq(0..(n - 1)) /\ Len(indices') = n
<1>1. PICK n \in 0..(LockMax - 1) : DOMAIN b = 0..(n - 1)
  BY BlocksAssumption
<1>2. n \in Nat /\ IsFiniteSet(DOMAIN b) /\ Cardinality(DOMAIN b) = n
  <2>1. n \in Nat
    BY LimitsAssumption, SMTT(30)
  <2> QED
    BY <1>1, <2>1, FirstNumbers
<1>3. /\ indices' = [p \in 1..n |-> p - 1] /\ Txs' = 0..(n - 1)
      /\ transactions' = b /\ running' = {}
  BY <1>1, <1>2 DEF init, Txs
<1>4. indices' \in Seq(0..(n - 1)) /\ Len(indices') = n
  <2>1. \A p \in 1..n : p - 1 \in 0..(n - 1)
    BY <1>2, SMTT(30)
  <2> QED
    BY <1>2, <1>3, <2>1, SMTT(30)
<1>5. Waiting' = Txs'
  <2>1. Waiting' = {p - 1 : p \in 1..n}
    BY <1>3, <1>4 DEF Waiting
  <2>2. \A i \in 0..(n - 1) : i + 1 \in 1..n /\ i = (i + 1) - 1
    BY <1>2, SMTT(30)
  <2>3. \A p \in 1..n : p - 1 \in 0..(n - 1)
    BY <1>2, SMTT(30)
  <2> QED
    BY <2>1, <2>2, <2>3, <1>3
<1>6. Running' = {} /\ Done' = {}
  BY <1>5 DEF init, Running, Done
<1> QED
  BY <1>1, <1>2, <1>3, <1>4, <1>5, <1>6

\* Starting a new block keeps the invariant.
LEMMA InitBlockStep ==
    ASSUME Counting, NEW b \in Blocks, init(b)
    PROVE  IInv'
<1>1. PICK n \in 0..(LockMax - 1) :
         /\ n \in Nat /\ DOMAIN b = 0..(n - 1) /\ Cardinality(DOMAIN b) = n
         /\ IsFiniteSet(DOMAIN b)
         /\ indices' = [p \in 1..n |-> p - 1] /\ Txs' = 0..(n - 1)
         /\ indices' \in Seq(0..(n - 1)) /\ Len(indices') = n
  BY InitMoves
<1>2. n \in Nat /\ IsFiniteSet(DOMAIN b) /\ Cardinality(DOMAIN b) = n
  BY <1>1
<1>3. /\ indices' = [p \in 1..n |-> p - 1] /\ Txs' = 0..(n - 1)
      /\ transactions' = b
  BY <1>1, InitMoves
<1>4. indices' \in Seq(0..(n - 1)) /\ Len(indices') = n
  BY <1>1
<1>5. Waiting' = Txs'
  BY InitMoves
<1>6. Running' = {} /\ Done' = {}
  BY InitMoves
<1>7. TypeOK'
  <2>1. NoLocks \in [Accounts -> 0..LockMax]
    BY LimitsAssumption, SMTT(30) DEF NoLocks
  <2>2. Cardinality(Txs') = n
    BY <1>1, <1>2, <1>3
  <2>3. indices' \in Seq(Txs') /\ next' \in 0..Len(indices')
    BY <1>2, <1>3, <1>4, SMTT(30) DEF init
  <2>4. completed' \in 0..Cardinality(Txs') /\ running' \in SUBSET ((SUBSET Txs') \ {{}})
    BY <1>2, <2>2, SMTT(30) DEF init
  <2> QED
    BY <1>3, <2>1, <2>3, <2>4 DEF init, TypeOK
<1>8. ExactlyOnce'
  <2>1. \A p, q \in 1..Len(indices') : p < q => indices'[p] < indices'[q]
    BY <1>2, <1>3, <1>4, SMTT(30)
  <2> QED
    BY <2>1, <1>6 DEF Counting, FiniteEmpty, init, ExactlyOnce
<1>9. ConflictOrder'
  BY <1>5 DEF ConflictOrder
<1>10. RunningLocksExact'
  BY <1>6 DEF Counting, FiniteEmpty, init, RunningLocksExact, Writers, Readers, NoLocks
<1>11. SkippedLocksHeld' /\ SkipsNeedRunning'
  BY SMTT(30) DEF init, SkippedLocksHeld, SkipsNeedRunning
<1> QED
  BY <1>7, <1>8, <1>9, <1>10, <1>11 DEF IInv

\* The invariant holds of a new scheduler.
LEMMA InitHolds == ASSUME Counting PROVE Init => IInv
<1> SUFFICES ASSUME Init PROVE IInv
  OBVIOUS
<1>1. Txs = {} /\ Waiting = {} /\ Running = {} /\ Done = {}
  BY SMTT(30) DEF Init, Txs, Waiting, Running, Done
<1>0. Cardinality({}) = 0
  BY DEF Counting, FiniteEmpty
<1>2. TypeOK
  <2>1. NoLocks \in [Accounts -> 0..LockMax]
    BY LimitsAssumption, SMTT(30) DEF NoLocks
  <2>2. indices \in Seq(Txs) /\ next \in 0..Len(indices)
    BY SMTT(30) DEF Init
  <2>3. completed \in 0..Cardinality(Txs) /\ running \in SUBSET ((SUBSET Txs) \ {{}})
    BY <1>0, <1>1, SMTT(30) DEF Init
  <2> QED
    BY <2>1, <2>2, <2>3 DEF Init, TypeOK
<1>3. ExactlyOnce
  BY <1>0, <1>1, SMTT(30) DEF Init, ExactlyOnce
<1>4. ConflictOrder
  BY <1>1 DEF ConflictOrder
<1>5. RunningLocksExact
  BY <1>1 DEF Counting, FiniteEmpty, Init, RunningLocksExact, Writers, Readers, NoLocks
<1>6. SkippedLocksHeld /\ SkipsNeedRunning
  BY SMTT(30) DEF Init, SkippedLocksHeld, SkipsNeedRunning
<1> QED
  BY <1>2, <1>3, <1>4, <1>5, <1>6 DEF IInv

-----------------------------------------------------------------------------
(* The steps of the scheduler *)

\* A stuttering step keeps the invariant.
LEMMA Stutter == IInv /\ UNCHANGED vars => IInv'
<1> SUFFICES ASSUME IInv, UNCHANGED vars PROVE IInv'
  OBVIOUS
<1> USE DEF IInv, vars
<1>1. /\ Txs' = Txs /\ Waiting' = Waiting /\ Running' = Running /\ Done' = Done
      /\ transactions' = transactions /\ indices' = indices /\ next' = next
  BY DEF Txs, Waiting, Running, Done
<1>2. TypeOK'
  BY <1>1 DEF TypeOK
<1>3. ExactlyOnce'
  BY <1>1 DEF ExactlyOnce
<1>4. ConflictOrder'
  BY <1>1 DEF ConflictOrder, Conflict
<1>5. RunningLocksExact'
  BY <1>1 DEF RunningLocksExact, Writers, Readers
<1>6. SkippedLocksHeld' /\ SkipsNeedRunning'
  BY <1>1 DEF SkippedLocksHeld, SkipsNeedRunning
<1> QED
  BY <1>2, <1>3, <1>4, <1>5, <1>6

\* Each action of the scheduler keeps the invariant.
LEMMA SchedulerStep == ASSUME Counting PROVE IInv /\ [Next]_vars => IInv'
  BY PopStep, FinishStep, InitBlockStep, Stutter DEF Next, Pop, Finish, InitBlock

\* With nothing in flight no lock is left.
LEMMA IdleUnlocked == ASSUME Counting, IInv PROVE IdleIsUnlocked
<1> SUFFICES ASSUME running = {} PROVE IdleIsUnlocked
  BY DEF IdleIsUnlocked
<1>1. next = 0 /\ skipped_locks = NoLocks
  BY SMTT(30) DEF IInv, TypeOK, SkipsNeedRunning, SkippedLocksHeld
<1>2. Running = {}
  BY DEF Running
<1>3. \A a \in Accounts : running_locks[a] = 0
  BY <1>2 DEF Counting, FiniteEmpty, IInv, RunningLocksExact, Writers, Readers
<1>4. running_locks = NoLocks
  BY <1>3 DEF IInv, TypeOK, NoLocks
<1> QED
  BY <1>1, <1>4 DEF IdleIsUnlocked

-----------------------------------------------------------------------------
(* The inductive invariant of BlockConsumer *)

Outcomes == {"processed", "unprocessed"}

Result == [range : SUBSET Txs, status : UNION {[r -> Outcomes] : r \in SUBSET Txs}]

\* The types of the consumer's own variables.
Types ==
    /\ driver \in {"idle", "loop", "pop", "recv", "join", "returned", "panicked"}
    /\ next_worker \in Threads
    /\ queue \in [Threads -> Seq(SUBSET Txs)]
    /\ finish_rx \in Seq(Result)
    /\ wpc \in [Threads -> {"recv", "prepare", "execute", "relock", "cache", "commit",
                            "send", "drop", "exited", "dead"}]
    /\ range \in [Threads -> SUBSET Txs] /\ locked \in [Threads -> SUBSET Txs]
    /\ outcome \in [Txs -> Outcomes \cup {"none"}]

\* A worker that has a range the scheduler counts as running.
Busy == {"prepare", "execute", "relock", "cache", "commit", "send"}

\* What a worker holds, and has done with it, at each of its steps.
WorkerInv ==
    \A w \in Threads :
        /\ wpc[w] \in {"recv", "exited"} => range[w] = {}
        /\ wpc[w] \in Busy \cup {"dead"} => range[w] \in running
        /\ wpc[w] = "drop" => range[w] \cap Waiting = {}
        /\ wpc[w] \in {"prepare", "execute"} => \A i \in range[w] : outcome[i] = "none"
        /\ wpc[w] \in {"relock", "cache", "commit", "send", "drop"} =>
               \A i \in range[w] : outcome[i] # "none"

\* The locks a worker holds at each of its steps; only with contention does
\* another stage lock anything.
LockInv ==
    /\ \A w \in Threads :
          /\ locked[w] \subseteq range[w]
          /\ wpc[w] \in {"recv", "exited", "dead", "prepare", "relock"} => locked[w] = {}
          /\ wpc[w] \in {"cache", "commit", "send", "drop"} /\ "contention" \notin faults =>
                 locked[w] = range[w]
    /\ "contention" \notin faults => in_hand = {} /\ holding = {}

\* A worker that has its locks, or had them when it executed, has no conflict
\* with the locks of one that has reported a range and not dropped its batch.
Separated ==
    \A w, v \in Threads :
        /\ w # v /\ wpc[v] = "drop"
        /\ \/ wpc[w] \in {"relock", "cache", "commit", "send"}
           \/ wpc[w] = "execute" /\ locked[w] = range[w]
        => \A i \in range[w], j \in locked[v] : ~Conflict(i, j)

\* Ranges sent to workers are running and untouched.
QueueInv ==
    \A w \in Threads : \A p \in DOMAIN queue[w] :
        /\ queue[w][p] \in running
        /\ \A i \in queue[w][p] : outcome[i] = "none"

\* Results on their way back are those of running ranges.
ResultInv ==
    \A p \in DOMAIN finish_rx :
        /\ finish_rx[p].range \in running
        /\ \A i \in finish_rx[p].range :
              outcome[i] # "none" /\ finish_rx[p].status[i] = outcome[i]

\* A range is in one place only.
Apart ==
    /\ \A w, v \in Threads : \A p \in DOMAIN queue[w], q \in DOMAIN queue[v] :
          w # v \/ p # q => queue[w][p] \cap queue[v][q] = {}
    /\ \A w, v \in Threads : \A p \in DOMAIN queue[w] : queue[w][p] \cap range[v] = {}
    /\ \A w, v \in Threads : w # v => range[w] \cap range[v] = {}
    /\ \A p, q \in DOMAIN finish_rx :
          p # q => finish_rx[p].range \cap finish_rx[q].range = {}
    /\ \A p \in DOMAIN finish_rx, w \in Threads :
          wpc[w] # "drop" => finish_rx[p].range \cap range[w] = {}

\* A transaction that waits is untouched; one that is done was executed, its
\* status is stored, and its worker has committed it.
OrderInv ==
    /\ \A i \in Waiting : outcome[i] = "none"
    /\ \A i \in Done :
          /\ outcome[i] # "none" /\ details[i] = outcome[i]
          /\ \A w \in Threads : i \in range[w] => wpc[w] = "drop"

\* Nothing executes once the driver has returned, and the last blockhash is
\* registered only then.
EndInv ==
    /\ driver \in {"idle", "returned", "panicked"} =>
          \A w \in Threads : wpc[w] \in {"exited", "dead"}
    /\ blockhash_queue = "registered" => driver \in {"returned", "panicked"}

\* x is what the last of the transactions P that writes a leaves, or else v.
LastOf(P, a, v, x) ==
    \/ x = v /\ \A j \in P : a \notin transactions[j].write
    \/ \E m \in P : /\ a \in transactions[m].write /\ x = m + 1
                    /\ \A j \in P : a \in transactions[j].write => j <= m

Cached == {i \in Txs : outcome[i] = "processed"
                       /\ \A w \in Threads : i \in range[w] => wpc[w] \notin {"relock", "cache"}}

Committed == {i \in Txs : outcome[i] = "processed"
                          /\ \A w \in Threads : i \in range[w] => wpc[w] \in {"send", "drop"}}

\* The overrides hold the writes of the cached ranges, the store those of the
\* committed ones.
ValuesInv ==
    /\ overrides \in [Accounts -> Int] /\ store \in [Accounts -> Int]
    /\ \A a \in Accounts : LastOf(Cached, a, NoOverride, overrides[a])
    /\ \A a \in Accounts : LastOf(Committed, a, 0, store[a])

ConsumerInv ==
    /\ IInv
    /\ Types /\ WorkerInv /\ LockInv /\ Separated /\ QueueInv /\ ResultInv /\ Apart
    /\ OrderInv /\ EndInv /\ ValuesInv /\ SerialReads

-----------------------------------------------------------------------------
(* The scheduler *)

\* What the scheduler's invariant says of running, waiting and finished
\* transactions.
LEMMA SchedulerFacts ==
    ASSUME Counting, IInv
    PROVE  /\ Txs \subseteq Nat
           /\ Waiting \subseteq Txs /\ Done = Txs \ (Waiting \cup UNION running)
           /\ \A r \in running : /\ r \in SUBSET Txs /\ r # {}
                                 /\ r \cap Waiting = {} /\ r \cap Done = {}
           /\ \A r, s \in running : r # s => r \cap s = {}
           /\ \A i, j \in Txs : i < j /\ Conflict(i, j) /\ j \notin Waiting => i \in Done
           /\ finished => Done = Txs
           /\ \A i \in Txs : /\ transactions[i].read \subseteq Accounts
                             /\ transactions[i].write \subseteq Accounts
<1>1. TypeOK /\ ExactlyOnce /\ ConflictOrder
  BY DEF IInv
<1>2. Txs \subseteq Nat
  BY <1>1, TxsFacts, SMTT(30)
<1>3. Waiting \subseteq Txs
  BY <1>1, SMTT(30) DEF TypeOK, Waiting
<1>4. Done = Txs \ (Waiting \cup UNION running)
  BY DEF Done, Running
<1>5. \A r \in running : /\ r \in SUBSET Txs /\ r # {}
                         /\ r \cap Waiting = {} /\ r \cap Done = {}
  BY <1>1, <1>4 DEF TypeOK, ExactlyOnce, Running
<1> QED
  BY <1>1, <1>2, <1>3, <1>4, <1>5, TxsFacts DEF ExactlyOnce, ConflictOrder

\* Conflicts go both ways.
LEMMA ConflictSymmetric == \A i, j : Conflict(i, j) => Conflict(j, i)
BY DEF Conflict

\* Two running transactions do not conflict.
LEMMA RunningApart ==
    ASSUME Counting, IInv, NEW r \in running, NEW s \in running, NEW i \in r, NEW j \in s, i # j
    PROVE  ~Conflict(i, j)
<1>1. /\ i \in Txs /\ j \in Txs /\ i \in Nat /\ j \in Nat
      /\ i \notin Waiting /\ j \notin Waiting /\ i \notin Done /\ j \notin Done
  BY SchedulerFacts
<1>2. i < j \/ j < i
  BY ONLY <1>1, i # j, SMTT(30)
<1> QED
  BY <1>1, <1>2, SchedulerFacts, ConflictSymmetric

\* A step that leaves the scheduler alone.
LEMMA SchedulerStays ==
    ASSUME UNCHANGED scheduler
    PROVE  /\ IInv => IInv'
           /\ Txs' = Txs /\ Waiting' = Waiting /\ Done' = Done
           /\ running' = running /\ transactions' = transactions /\ finished' = finished
           /\ \A i, j : Conflict(i, j)' <=> Conflict(i, j)
<1>1. IInv => IInv'
  BY Stutter DEF scheduler
<1> QED
  BY <1>1 DEF scheduler, vars, Txs, Waiting, Done, Running, Conflict

\* A call of pop moves a range of waiting transactions to the running ones.
LEMMA SchedulerPops ==
    ASSUME Counting, IInv, NEW k \in 0..(Len(indices) - next), pop(k)
    PROVE  /\ IInv'
           /\ Txs' = Txs /\ transactions' = transactions /\ finished' = finished
           /\ Done' = Done /\ Waiting' = Waiting \ Scanned(k)
           /\ Scanned(k) \subseteq Waiting
           /\ running' = IF k = 0 THEN running ELSE running \cup {Scanned(k)}
           /\ \A i, j : Conflict(i, j)' <=> Conflict(i, j)
<1>1. IInv' /\ Scanned(k) \subseteq Waiting /\ Waiting' = Waiting \ Scanned(k) /\ Done' = Done
  BY PopStep, PopMoves
<1> QED
  BY <1>1 DEF pop, Txs, Conflict

\* A call of finish moves a range from the running transactions to the done ones.
LEMMA SchedulerFinishes ==
    ASSUME Counting, IInv, NEW r, finish(r)
    PROVE  /\ IInv'
           /\ Txs' = Txs /\ transactions' = transactions
           /\ Done' = Done \cup r /\ Waiting' = Waiting
           /\ r \in running /\ running' = running \ {r}
           /\ \A i, j : Conflict(i, j)' <=> Conflict(i, j)
<1>1. r \in running
  BY SMTT(30) DEF finish
<1>2. IInv' /\ Waiting' = Waiting /\ Done' = Done \cup r
  BY <1>1, FinishStep, FinishMoves
<1> QED
  BY <1>1, <1>2 DEF finish, Txs, Conflict

-----------------------------------------------------------------------------
(* Account values *)

\* The last write of P is what Written says.
LEMMA LastIsWritten ==
    ASSUME NEW P \in SUBSET Nat, NEW a, NEW v, NEW x, LastOf(P, a, v, x)
    PROVE  x = Written(P, a, v)
<1> DEFINE W == {i \in P : a \in transactions[i].write}
<1>1. CASE x = v /\ \A j \in P : a \notin transactions[j].write
  BY <1>1 DEF Written
<1>2. CASE \E m \in P : /\ a \in transactions[m].write /\ x = m + 1
                        /\ \A j \in P : a \in transactions[j].write => j <= m
  <2>1. PICK m \in P : /\ a \in transactions[m].write /\ x = m + 1
                       /\ \A j \in P : a \in transactions[j].write => j <= m
    BY <1>2
  <2>2. m \in W /\ \A y \in W : m >= y
    BY <2>1
  <2>3. ASSUME NEW z \in W, \A y \in W : z >= y PROVE z = m
    <3>1. z >= m /\ m >= z
      BY <2>2, <2>3
    <3>2. z \in Nat /\ m \in Nat
      BY <2>2
    <3> HIDE DEF W
    <3> QED
      BY ONLY <3>1, <3>2, SMTT(30)
  <2>4. Max(W) = m
    BY <2>2, <2>3 DEF Max
  <2> QED
    BY <2>1, <2>2, <2>4 DEF Written
<1> QED
  BY <1>1, <1>2 DEF LastOf

\* A group of transactions that writes an account at most once, after all of P.
LEMMA LastOfLater ==
    ASSUME NEW P \in SUBSET Nat, NEW G \in SUBSET Nat, NEW a, NEW v, NEW x,
           LastOf(P, a, v, x),
           \A i \in G, j \in P \cup G :
               a \in transactions[i].write /\ a \in transactions[j].write => j <= i
    PROVE  LastOf(P \cup G, a, v, Written(G, a, x))
<1>1. CASE \A i \in G : a \notin transactions[i].write
  <2>1. Written(G, a, x) = x
    BY <1>1 DEF Written
  <2> QED
    BY <1>1, <2>1 DEF LastOf
<1>2. CASE \E i \in G : a \in transactions[i].write
  <2>1. PICK m \in G : a \in transactions[m].write
    BY <1>2
  <2>2. \A j \in P \cup G : a \in transactions[j].write => j <= m
    BY <2>1
  <2>3. LastOf(G, a, x, m + 1)
    BY <2>1, <2>2 DEF LastOf
  <2>4. Written(G, a, x) = m + 1
    BY <2>3, LastIsWritten
  <2> QED
    BY <2>1, <2>2, <2>4 DEF LastOf
<1> QED
  BY <1>1, <1>2

-----------------------------------------------------------------------------
(* The workers *)

\* A worker's step moves that worker only.
LEMMA MoveFacts ==
    ASSUME Types, NEW w \in Threads, NEW l, Move(w, l)
    PROVE  /\ wpc'[w] = l /\ \A v \in Threads : v # w => wpc'[v] = wpc[v]
           /\ l \in {"recv", "prepare", "execute", "relock", "cache", "commit",
                     "send", "drop", "exited", "dead"} =>
                wpc' \in [Threads -> {"recv", "prepare", "execute", "relock", "cache",
                                      "commit", "send", "drop", "exited", "dead"}]
BY DEF Types, Move

\* What the transactions of a block read is written down when they execute.
LEMMA SerialStays ==
    ASSUME SerialReads, transactions' = transactions, outcome' = outcome, seen' = seen
    PROVE  SerialReads'
<1> DEFINE Before(i) == {j \in Txs : j < i /\ outcome[j] = "processed"}
<1>1. Txs' = Txs
  BY DEF Txs
<1>2. \A i : Before(i)' = Before(i) /\ AccountsOf(i)' = AccountsOf(i)
  BY <1>1 DEF AccountsOf
<1>3. \A i, a : Written(Before(i), a, 0)' = Written(Before(i), a, 0)
  BY <1>2 DEF Written
<1> HIDE DEF Before
<1>4. SerialReads <=> \A i \in Txs : outcome[i] # "none" =>
          \A a \in AccountsOf(i) : seen[i][a] = Written(Before(i), a, 0)
  BY DEF SerialReads, Before
<1>5. SerialReads' <=> \A i \in Txs' : outcome'[i] # "none" =>
          \A a \in AccountsOf(i)' : seen'[i][a] = Written(Before(i), a, 0)'
  BY DEF SerialReads, Before
<1> QED
  BY <1>1, <1>2, <1>3, <1>4, <1>5

\* Ranges stay apart while they are not moved and no worker leaves its drop.
LEMMA ApartStays ==
    ASSUME Apart, queue' = queue, range' = range, finish_rx' = finish_rx,
           \A v \in Threads : wpc[v] = "drop" => wpc'[v] = "drop"
    PROVE  Apart'
<1>1. \A p \in DOMAIN finish_rx', v \in Threads :
          wpc'[v] # "drop" => finish_rx'[p].range \cap range'[v] = {}
  BY DEF Apart
<1> QED
  BY <1>1 DEF Apart

\* What is queued and reported stays right while outcomes and the running ranges do.
LEMMA ResultsStay ==
    ASSUME QueueInv, ResultInv, running' = running, outcome' = outcome, finish_rx' = finish_rx,
           \A v \in Threads : \A p \in DOMAIN queue'[v] :
               p \in DOMAIN queue[v] /\ queue'[v][p] = queue[v][p]
    PROVE  QueueInv' /\ ResultInv'
BY SMTT(30) DEF QueueInv, ResultInv

\* The order of the block is kept while ranges and outcomes stay.
LEMMA OrderStays ==
    ASSUME OrderInv, Waiting' = Waiting, Done' = Done, outcome' = outcome, details' = details,
           range' = range, \A v \in Threads : wpc[v] = "drop" => wpc'[v] = "drop"
    PROVE  OrderInv'
BY DEF OrderInv

\* A worker takes the first range of its queue.
LEMMA WorkerRecvStep ==
    ASSUME Counting, ConsumerInv, NEW w \in Threads, WorkerRecv(w)
    PROVE  ConsumerInv'
<1> USE DEF ConsumerInv
<1> DEFINE r == Head(queue[w])
<1>1. /\ wpc[w] = "recv" /\ queue[w] # <<>> /\ Move(w, "prepare")
      /\ range' = [range EXCEPT ![w] = r] /\ queue' = [queue EXCEPT ![w] = Tail(@)]
      /\ UNCHANGED scheduler
      /\ driver' = driver /\ next_worker' = next_worker /\ details' = details
      /\ faults' = faults /\ in_hand' = in_hand /\ holding' = holding
      /\ blockhash_queue' = blockhash_queue /\ finish_rx' = finish_rx /\ locked' = locked
      /\ outcome' = outcome /\ seen' = seen /\ overrides' = overrides /\ store' = store
  BY DEF WorkerRecv, DriverUnchanged, others, results
<1>2. /\ IInv' /\ Txs' = Txs /\ Waiting' = Waiting /\ Done' = Done
      /\ running' = running /\ transactions' = transactions
      /\ \A i, j : Conflict(i, j)' <=> Conflict(i, j)
  BY <1>1, SchedulerStays
<1>3. /\ wpc'[w] = "prepare" /\ \A v \in Threads : v # w => wpc'[v] = wpc[v]
      /\ wpc' \in [Threads -> {"recv", "prepare", "execute", "relock", "cache",
                               "commit", "send", "drop", "exited", "dead"}]
  BY <1>1, MoveFacts
<1>4. /\ queue[w] \in Seq(SUBSET Txs) /\ Len(queue[w]) \in Nat \ {0}
      /\ r = queue[w][1] /\ 1 \in DOMAIN queue[w]
      /\ Tail(queue[w]) \in Seq(SUBSET Txs)
      /\ \A p \in DOMAIN Tail(queue[w]) :
            p + 1 \in DOMAIN queue[w] /\ p + 1 # 1 /\ Tail(queue[w])[p] = queue[w][p + 1]
  <2>1. queue[w] \in Seq(SUBSET Txs) /\ queue[w] # <<>>
    BY <1>1 DEF Types
  <2> QED
    BY ONLY <2>1, SMTT(30)
<1>5. r \in running /\ r \in SUBSET Txs /\ \A i \in r : outcome[i] = "none"
  <2>1. 1 \in DOMAIN queue[w] /\ r = queue[w][1]
    BY <1>4
  <2> HIDE DEF r
  <2>2. queue[w][1] \in running /\ \A i \in queue[w][1] : outcome[i] = "none"
    BY <2>1 DEF QueueInv
  <2> QED
    BY <2>1, <2>2, SchedulerFacts
<1>6. /\ range'[w] = r /\ \A v \in Threads : v # w => range'[v] = range[v]
      /\ range[w] = {} /\ range' \in [Threads -> SUBSET Txs]
  BY <1>1, <1>5 DEF Types, WorkerInv
<1>7. /\ queue'[w] = Tail(queue[w]) /\ \A v \in Threads : v # w => queue'[v] = queue[v]
      /\ queue' \in [Threads -> Seq(SUBSET Txs)]
  BY <1>1, <1>4 DEF Types
<1> DEFINE at(v, p) == IF v = w THEN p + 1 ELSE p
<1>8. \A v \in Threads : \A p \in DOMAIN queue'[v] :
          /\ at(v, p) \in DOMAIN queue[v] /\ queue'[v][p] = queue[v][at(v, p)]
          /\ v = w => at(v, p) # 1
  BY <1>4, <1>7
<1>8a. \A u, v \in Threads : \A p \in DOMAIN queue'[u], q \in DOMAIN queue'[v] :
          u # v \/ p # q => u # v \/ at(u, p) # at(v, q)
  <2>1. \A v \in Threads : \A p \in DOMAIN queue'[v] : p \in Int
    BY ONLY <1>7, SMTT(30)
  <2> QED
    BY ONLY <2>1, SMTT(30)
<1> HIDE DEF at
<1> HIDE DEF r
<1>9. Types'
  BY <1>1, <1>2, <1>3, <1>6, <1>7 DEF Types, Result
<1>10. WorkerInv'
  BY <1>1, <1>2, <1>3, <1>5, <1>6 DEF WorkerInv, Busy
<1>11. LockInv'
  BY <1>1, <1>3, <1>6 DEF LockInv
<1>12. Separated'
  <2> SUFFICES ASSUME NEW u \in Threads, NEW v \in Threads, u # v, wpc'[v] = "drop",
                      \/ wpc'[u] \in {"relock", "cache", "commit", "send"}
                      \/ wpc'[u] = "execute" /\ locked'[u] = range'[u],
                      NEW i \in range'[u], NEW j \in locked'[v]
               PROVE  ~Conflict(i, j)
    BY <1>2 DEF Separated
  <2>1. u # w /\ v # w
    BY <1>3
  <2>2. /\ wpc[v] = "drop" /\ i \in range[u] /\ j \in locked[v]
        /\ \/ wpc[u] \in {"relock", "cache", "commit", "send"}
           \/ wpc[u] = "execute" /\ locked[u] = range[u]
    BY <1>1, <1>3, <1>6, <2>1
  <2> QED
    BY <2>2 DEF Separated
<1>13. QueueInv'
  <2> SUFFICES ASSUME NEW v \in Threads, NEW p \in DOMAIN queue'[v]
               PROVE  queue'[v][p] \in running /\ \A i \in queue'[v][p] : outcome[i] = "none"
    BY <1>1, <1>2 DEF QueueInv
  <2>1. at(v, p) \in DOMAIN queue[v] /\ queue'[v][p] = queue[v][at(v, p)]
    BY <1>8
  <2> QED
    BY <2>1 DEF QueueInv
<1>14. ResultInv'
  BY <1>1, <1>2 DEF ResultInv
<1>15. Apart'
  <2>1. \A v \in Threads : \A p \in DOMAIN queue'[v] : queue'[v][p] \cap r = {}
    <3> SUFFICES ASSUME NEW v \in Threads, NEW p \in DOMAIN queue'[v]
                 PROVE  queue'[v][p] \cap r = {}
      OBVIOUS
    <3>1. /\ at(v, p) \in DOMAIN queue[v] /\ queue'[v][p] = queue[v][at(v, p)]
          /\ v # w \/ at(v, p) # 1
      BY <1>8
    <3>2. queue[v][at(v, p)] \cap queue[w][1] = {}
      BY <1>4, <3>1 DEF Apart
    <3> QED
      BY <1>4, <3>1, <3>2
  <2>2. \A v \in Threads : r \cap range[v] = {}
    BY <1>4 DEF Apart
  <2>3. \A p \in DOMAIN finish_rx : finish_rx[p].range \cap r = {}
    BY <1>5 DEF ResultInv
  <2>4. \A u, v \in Threads : \A p \in DOMAIN queue'[u], q \in DOMAIN queue'[v] :
            u # v \/ p # q => queue'[u][p] \cap queue'[v][q] = {}
    <3> SUFFICES ASSUME NEW u \in Threads, NEW v \in Threads,
                        NEW p \in DOMAIN queue'[u], NEW q \in DOMAIN queue'[v],
                        u # v \/ p # q
                 PROVE  queue'[u][p] \cap queue'[v][q] = {}
      OBVIOUS
    <3>1. /\ at(u, p) \in DOMAIN queue[u] /\ queue'[u][p] = queue[u][at(u, p)]
          /\ at(v, q) \in DOMAIN queue[v] /\ queue'[v][q] = queue[v][at(v, q)]
      BY <1>8
    <3>2. u # v \/ at(u, p) # at(v, q)
      BY <1>8a
    <3>3. queue[u][at(u, p)] \cap queue[v][at(v, q)] = {}
      BY <3>1, <3>2 DEF Apart
    <3> QED
      BY <3>1, <3>3
  <2>5. \A u, v \in Threads : \A p \in DOMAIN queue'[u] : queue'[u][p] \cap range'[v] = {}
    <3> SUFFICES ASSUME NEW u \in Threads, NEW v \in Threads, NEW p \in DOMAIN queue'[u]
                 PROVE  queue'[u][p] \cap range'[v] = {}
      OBVIOUS
    <3>1. CASE v = w
      BY <1>6, <2>1, <3>1
    <3>2. CASE v # w
      <4>1. at(u, p) \in DOMAIN queue[u] /\ queue'[u][p] = queue[u][at(u, p)]
        BY <1>8
      <4>2. queue[u][at(u, p)] \cap range[v] = {}
        BY <4>1 DEF Apart
      <4> QED
        BY <1>6, <3>2, <4>1, <4>2
    <3> QED
      BY <3>1, <3>2
  <2>6. \A u, v \in Threads : u # v => range'[u] \cap range'[v] = {}
    BY <1>6, <2>2 DEF Apart
  <2>7. \A p, q \in DOMAIN finish_rx' :
            p # q => finish_rx'[p].range \cap finish_rx'[q].range = {}
    BY <1>1 DEF Apart
  <2>8. ASSUME NEW p \in DOMAIN finish_rx, NEW v \in Threads, wpc'[v] # "drop"
        PROVE  finish_rx[p].range \cap range'[v] = {}
    <3>1. CASE v = w
      BY <1>6, <2>3, <3>1
    <3>2. CASE v # w
      BY <1>3, <1>6, <2>8, <3>2 DEF Apart
    <3> QED
      BY <3>1, <3>2
  <2>9. \A p \in DOMAIN finish_rx', v \in Threads :
            wpc'[v] # "drop" => finish_rx'[p].range \cap range'[v] = {}
    BY <1>1, <2>8
  <2> QED
    BY <2>4, <2>5, <2>6, <2>7, <2>9 DEF Apart
<1>16. OrderInv'
  <2>1. ASSUME NEW i \in Done, NEW v \in Threads, i \in range'[v]
        PROVE  wpc'[v] = "drop"
    <3>1. v # w
      BY <1>5, <1>6, <2>1 DEF OrderInv
    <3>2. range'[v] = range[v] /\ wpc'[v] = wpc[v]
      BY <1>3, <1>6, <3>1
    <3> QED
      BY <2>1, <3>2 DEF OrderInv
  <2> QED
    BY <1>1, <1>2, <2>1 DEF OrderInv
<1>17. EndInv'
  BY <1>1, <1>3 DEF EndInv
<1>18. ValuesInv'
  <2>1. Cached' = Cached /\ Committed' = Committed
    BY ONLY <1>1, <1>2, <1>3, <1>5, <1>6, SMTT(30) DEF Cached, Committed
  <2> QED
    BY <1>1, <1>2, <2>1 DEF ValuesInv, LastOf
<1>19. SerialReads'
  BY <1>1, <1>2, SerialStays
<1> QED
  BY <1>2, <1>9, <1>10, <1>11, <1>12, <1>13, <1>14, <1>15, <1>16, <1>17, <1>18, <1>19

\* A worker whose channel has ended leaves.
LEMMA WorkerExitStep ==
    ASSUME ConsumerInv, NEW w \in Threads, WorkerExit(w)
    PROVE  ConsumerInv'
<1> USE DEF ConsumerInv
<1>1. /\ wpc[w] = "recv" /\ Move(w, "exited") /\ UNCHANGED scheduler
      /\ driver' = driver /\ next_worker' = next_worker /\ details' = details
      /\ faults' = faults /\ in_hand' = in_hand /\ holding' = holding
      /\ blockhash_queue' = blockhash_queue /\ finish_rx' = finish_rx
      /\ queue' = queue /\ range' = range /\ locked' = locked
      /\ outcome' = outcome /\ seen' = seen /\ overrides' = overrides /\ store' = store
  BY DEF WorkerExit, DriverUnchanged, others, results
<1>2. /\ IInv' /\ Txs' = Txs /\ Waiting' = Waiting /\ Done' = Done
      /\ running' = running /\ transactions' = transactions
      /\ \A i, j : Conflict(i, j)' <=> Conflict(i, j)
  BY <1>1, SchedulerStays
<1>3. /\ wpc'[w] = "exited" /\ \A v \in Threads : v # w => wpc'[v] = wpc[v]
      /\ wpc' \in [Threads -> {"recv", "prepare", "execute", "relock", "cache",
                               "commit", "send", "drop", "exited", "dead"}]
  BY <1>1, MoveFacts
<1>4. range[w] = {}
  BY <1>1 DEF WorkerInv
<1>5. Types' /\ QueueInv' /\ ResultInv'
  <2>1. Types'
    BY <1>1, <1>2, <1>3 DEF Types, Result
  <2>2. QueueInv' /\ ResultInv'
    BY <1>1, <1>2, ResultsStay
  <2> QED
    BY <2>1, <2>2
<1>6. WorkerInv' /\ LockInv' /\ EndInv'
  <2>1. WorkerInv'
    BY <1>1, <1>2, <1>3, <1>4 DEF WorkerInv, Busy
  <2>2. LockInv'
    BY <1>1, <1>3 DEF LockInv
  <2>3. EndInv'
    BY <1>1, <1>3 DEF EndInv
  <2> QED
    BY <2>1, <2>2, <2>3
<1>7. Separated'
  BY <1>1, <1>2, <1>3 DEF Separated
<1>8. Apart' /\ OrderInv'
  <2>1. \A v \in Threads : wpc[v] = "drop" => wpc'[v] = "drop"
    BY <1>1, <1>3
  <2> QED
    BY <1>1, <1>2, <2>1, ApartStays, OrderStays
<1>9. Cached' = Cached /\ Committed' = Committed
  BY <1>1, <1>2, <1>3, <1>4 DEF Cached, Committed
<1>10. ValuesInv'
  BY <1>1, <1>2, <1>9 DEF ValuesInv, LastOf
<1> QED
  BY <1>1, <1>2, <1>5, <1>6, <1>7, <1>8, <1>10, SerialStays

\* Nothing that another worker has locked conflicts with a range that has been
\* executed and waits for its second batch.
LEMMA SiblingsGiveWay ==
    ASSUME Counting, ConsumerInv, NEW w \in Threads, wpc[w] = "relock",
           NEW v \in Threads \ {w}, NEW i \in range[w], NEW j \in locked[v]
    PROVE  ~Conflict(i, j)
<1> USE DEF ConsumerInv
<1>1. range[w] \in running
  BY DEF WorkerInv, Busy
<1>2. j \in range[v] /\ wpc[v] \in {"execute", "cache", "commit", "send", "drop"}
  BY DEF LockInv, Types
<1>3. CASE wpc[v] = "drop"
  BY <1>3 DEF Separated
<1>4. CASE wpc[v] # "drop"
  <2>1. range[v] \in running
    BY <1>2, <1>4 DEF WorkerInv, Busy
  <2>2. range[w] \cap range[v] = {}
    BY DEF Apart
  <2>3. i # j
    BY <1>2, <2>2
  <2> QED
    BY <1>1, <1>2, <2>1, <2>3, RunningApart
<1> QED
  BY <1>3, <1>4

\* What a batch gets: at the first try, nothing that another worker has locked;
\* at the second, its whole range, unless another stage has come.
LEMMA TryLockFacts ==
    ASSUME Counting, ConsumerInv, NEW w \in Threads, NEW L \in SUBSET range[w], TryLock(w, L),
           wpc[w] \in {"prepare", "relock"}
    PROVE  /\ L = range[w] => \A v \in Threads : w # v =>
                  \A i \in range[w], j \in locked[v] : ~Conflict(i, j)
           /\ wpc[w] = "relock" /\ "contention" \notin faults => L = range[w]
<1> USE DEF ConsumerInv
<1>1. L = range[w] => \A v \in Threads : w # v =>
          \A i \in range[w], j \in locked[v] : ~Conflict(i, j)
  BY DEF TryLock
<1>2. ASSUME wpc[w] = "relock", "contention" \notin faults, NEW i \in range[w] PROVE i \in L
  <2>1. range[w] \in running
    BY <1>2 DEF WorkerInv, Busy
  <2>2. \A v \in Threads \ {w} : \A j \in locked[v] : ~Conflict(i, j)
    BY <1>2, SiblingsGiveWay
  <2>3. ASSUME NEW j \in L, j < i PROVE ~Conflict(i, j)
    <3>1. i \in Nat /\ j \in Nat /\ j \in range[w]
      BY <1>2, <2>1, <2>3, SchedulerFacts
    <3>2. i # j
      BY ONLY <2>3, <3>1, SMTT(30)
    <3> QED
      BY <1>2, <2>1, <3>1, <3>2, RunningApart
  <2>4. holding = {}
    BY <1>2 DEF LockInv
  <2> QED
    BY <1>2, <2>2, <2>3, <2>4 DEF TryLock
<1> QED
  BY <1>1, <1>2

\* The account locks of a batch are taken.
LEMMA LockBatchStep ==
    ASSUME Counting, ConsumerInv, NEW w \in Threads, Prepare(w) \/ Relock(w)
    PROVE  ConsumerInv'
<1> USE DEF ConsumerInv
<1>0. PICK to \in {"execute", "cache"} :
          /\ to = "execute" => LockBatch(w, "prepare", to)
          /\ to = "cache" => LockBatch(w, "relock", to)
  BY DEF Prepare, Relock
<1>1. /\ to = "execute" => wpc[w] = "prepare"
      /\ to = "cache" => wpc[w] = "relock"
      /\ Move(w, to) /\ UNCHANGED scheduler
      /\ driver' = driver /\ next_worker' = next_worker /\ details' = details
      /\ faults' = faults /\ in_hand' = in_hand /\ holding' = holding
      /\ blockhash_queue' = blockhash_queue /\ finish_rx' = finish_rx
      /\ queue' = queue /\ range' = range
      /\ outcome' = outcome /\ seen' = seen /\ overrides' = overrides /\ store' = store
      /\ \E L \in SUBSET range[w] : TryLock(w, L) /\ locked' = [locked EXCEPT ![w] = L]
  BY <1>0 DEF LockBatch, DriverUnchanged, others, results
<1>2. /\ IInv' /\ Txs' = Txs /\ Waiting' = Waiting /\ Done' = Done
      /\ running' = running /\ transactions' = transactions
      /\ \A i, j : Conflict(i, j)' <=> Conflict(i, j)
  BY <1>1, SchedulerStays
<1>3. /\ wpc'[w] = to /\ \A v \in Threads : v # w => wpc'[v] = wpc[v]
      /\ wpc' \in [Threads -> {"recv", "prepare", "execute", "relock", "cache",
                               "commit", "send", "drop", "exited", "dead"}]
  BY <1>1, MoveFacts
<1>4. PICK L \in SUBSET range[w] : TryLock(w, L) /\ locked' = [locked EXCEPT ![w] = L]
  BY <1>1
<1>5. /\ locked'[w] = L /\ \A v \in Threads : v # w => locked'[v] = locked[v]
      /\ locked' \in [Threads -> SUBSET Txs]
  BY <1>4 DEF Types
<1>6. /\ L = range[w] => \A v \in Threads : w # v =>
             \A i \in range[w], j \in locked[v] : ~Conflict(i, j)
      /\ wpc[w] = "relock" /\ "contention" \notin faults => L = range[w]
  BY <1>1, <1>4, TryLockFacts
<1>7. Types' /\ QueueInv' /\ ResultInv'
  <2>1. Types'
    BY <1>1, <1>2, <1>3, <1>5 DEF Types, Result
  <2>2. QueueInv' /\ ResultInv'
    BY <1>1, <1>2, ResultsStay
  <2> QED
    BY <2>1, <2>2
<1>8. WorkerInv' /\ EndInv'
  BY <1>1, <1>2, <1>3 DEF WorkerInv, Busy, EndInv
<1>9. LockInv'
  BY <1>1, <1>3, <1>5, <1>6 DEF LockInv
<1>10. Separated'
  BY <1>1, <1>2, <1>3, <1>5, <1>6 DEF Separated
<1>11. Apart' /\ OrderInv'
  <2>1. \A v \in Threads : wpc[v] = "drop" => wpc'[v] = "drop"
    BY <1>1, <1>3
  <2> QED
    BY <1>1, <1>2, <2>1, ApartStays, OrderStays
<1>12. Cached' = Cached /\ Committed' = Committed
  <2>1. wpc[w] = "prepare" => \A i \in range[w] : outcome[i] = "none"
    BY DEF WorkerInv
  <2> QED
    BY <1>1, <1>2, <1>3, <2>1 DEF Cached, Committed
<1>13. ValuesInv'
  BY <1>1, <1>2, <1>12 DEF ValuesInv, LastOf
<1>14. SerialReads'
  BY <1>1, <1>2, SerialStays
<1> QED
  BY <1>2, <1>7, <1>8, <1>9, <1>10, <1>11, <1>13, <1>14

\* A worker reports its range, with the locks still held.
LEMMA SendStep ==
    ASSUME Counting, ConsumerInv, NEW w \in Threads, Send(w)
    PROVE  ConsumerInv'
<1> USE DEF ConsumerInv
<1> DEFINE res == [range |-> range[w], status |-> [i \in range[w] |-> outcome[i]]]
<1>1. /\ wpc[w] = "send" /\ Move(w, "drop") /\ UNCHANGED scheduler
      /\ driver' = driver /\ next_worker' = next_worker /\ details' = details
      /\ faults' = faults /\ in_hand' = in_hand /\ holding' = holding
      /\ blockhash_queue' = blockhash_queue /\ finish_rx' = Append(finish_rx, res)
      /\ queue' = queue /\ range' = range /\ locked' = locked
      /\ outcome' = outcome /\ seen' = seen /\ overrides' = overrides /\ store' = store
  BY DEF Send, DriverUnchanged, others, results
<1>2. /\ IInv' /\ Txs' = Txs /\ Waiting' = Waiting /\ Done' = Done
      /\ running' = running /\ transactions' = transactions
      /\ \A i, j : Conflict(i, j)' <=> Conflict(i, j)
  BY <1>1, SchedulerStays
<1>3. /\ wpc'[w] = "drop" /\ \A v \in Threads : v # w => wpc'[v] = wpc[v]
      /\ wpc' \in [Threads -> {"recv", "prepare", "execute", "relock", "cache",
                               "commit", "send", "drop", "exited", "dead"}]
  BY <1>1, MoveFacts
<1>4. /\ range[w] \in running /\ range[w] \in SUBSET Txs
      /\ \A i \in range[w] : outcome[i] # "none"
      /\ range[w] \cap Waiting = {}
  BY <1>1, SchedulerFacts DEF WorkerInv, Busy
<1>5. /\ res.range = range[w] /\ \A i \in range[w] : res.status[i] = outcome[i]
      /\ res \in Result
  <2>1. \A i \in range[w] : outcome[i] \in Outcomes
    BY <1>4 DEF Types
  <2>2. [i \in range[w] |-> outcome[i]] \in [range[w] -> Outcomes]
    BY <2>1
  <2>3. [i \in range[w] |-> outcome[i]] \in UNION {[r -> Outcomes] : r \in SUBSET Txs}
    BY <1>4, <2>2
  <2> QED
    BY <1>4, <2>3 DEF Result
<1> HIDE DEF res
<1>6. /\ finish_rx' \in Seq(Result)
      /\ \A p \in DOMAIN finish_rx' :
            \/ p \in DOMAIN finish_rx /\ finish_rx'[p] = finish_rx[p]
            \/ p = Len(finish_rx) + 1 /\ finish_rx'[p] = res
  <2>1. finish_rx \in Seq(Result) /\ res \in Result /\ finish_rx' = Append(finish_rx, res)
    BY <1>1, <1>5 DEF Types
  <2> QED
    BY ONLY <2>1, SMTT(30)
<1>7. Types' /\ QueueInv'
  <2>1. Result' = Result
    BY <1>2 DEF Result
  <2>2. Types'
    BY <1>1, <1>2, <1>3, <1>6, <2>1 DEF Types
  <2>3. QueueInv'
    BY <1>1, <1>2 DEF QueueInv
  <2> QED
    BY <2>2, <2>3
<1>8. ResultInv'
  <2>1. ASSUME NEW p \in DOMAIN finish_rx'
        PROVE  /\ finish_rx'[p].range \in running
               /\ \A i \in finish_rx'[p].range :
                     outcome[i] # "none" /\ finish_rx'[p].status[i] = outcome[i]
    <3>1. CASE p \in DOMAIN finish_rx /\ finish_rx'[p] = finish_rx[p]
      BY <3>1 DEF ResultInv
    <3>2. CASE finish_rx'[p] = res
      BY <1>4, <1>5, <3>2
    <3> QED
      BY <1>6, <3>1, <3>2
  <2> QED
    BY <1>1, <1>2, <2>1 DEF ResultInv
<1>9. WorkerInv' /\ LockInv' /\ EndInv'
  <2>1. WorkerInv'
    BY <1>1, <1>2, <1>3, <1>4 DEF WorkerInv, Busy
  <2>2. LockInv'
    BY <1>1, <1>3 DEF LockInv
  <2>3. EndInv'
    BY <1>1, <1>3 DEF EndInv
  <2> QED
    BY <2>1, <2>2, <2>3
<1>10. Separated'
  <2>1. ASSUME NEW u \in Threads, u # w, wpc[u] \in Busy,
               NEW i \in range[u], NEW j \in locked[w]
        PROVE  ~Conflict(i, j)
    <3>1. j \in range[w]
      BY <2>1 DEF LockInv
    <3>2. range[u] \in running
      BY <2>1 DEF WorkerInv
    <3>3. range[u] \cap range[w] = {}
      BY <2>1 DEF Apart
    <3>4. i # j
      BY <2>1, <3>1, <3>3
    <3> QED
      BY <1>4, <2>1, <3>1, <3>2, <3>4, RunningApart
  <2> QED
    BY <1>1, <1>2, <1>3, <2>1 DEF Separated, Busy
<1>11. Apart'
  <2>1. \A p \in DOMAIN finish_rx : finish_rx[p].range \cap range[w] = {}
    BY <1>1 DEF Apart
  <2>2. \A p, q \in DOMAIN finish_rx' :
            p # q => finish_rx'[p].range \cap finish_rx'[q].range = {}
    <3> SUFFICES ASSUME NEW p \in DOMAIN finish_rx', NEW q \in DOMAIN finish_rx', p # q
                 PROVE  finish_rx'[p].range \cap finish_rx'[q].range = {}
      OBVIOUS
    <3> DEFINE Old(i) == i \in DOMAIN finish_rx /\ finish_rx'[i] = finish_rx[i]
               New(i) == i = Len(finish_rx) + 1 /\ finish_rx'[i].range = range[w]
    <3>1. (Old(p) \/ New(p)) /\ (Old(q) \/ New(q))
      BY <1>5, <1>6
    <3>2. CASE Old(p) /\ Old(q)
      BY <3>2 DEF Apart
    <3>3. CASE Old(p) /\ New(q)
      BY <2>1, <3>3
    <3>4. CASE New(p) /\ Old(q)
      <4>1. finish_rx[q].range \cap range[w] = {}
        BY <2>1, <3>4
      <4> QED
        BY <3>4, <4>1
    <3> QED
      BY <3>1, <3>2, <3>3, <3>4
  <2>3. \A p \in DOMAIN finish_rx', v \in Threads :
            wpc'[v] # "drop" => finish_rx'[p].range \cap range[v] = {}
    BY <1>3, <1>5, <1>6 DEF Apart
  <2>4. /\ \A u, v \in Threads : \A p \in DOMAIN queue'[u], q \in DOMAIN queue'[v] :
              u # v \/ p # q => queue'[u][p] \cap queue'[v][q] = {}
        /\ \A u, v \in Threads : \A p \in DOMAIN queue'[u] : queue'[u][p] \cap range'[v] = {}
        /\ \A u, v \in Threads : u # v => range'[u] \cap range'[v] = {}
    BY <1>1 DEF Apart
  <2>5. \A p \in DOMAIN finish_rx', v \in Threads :
            wpc'[v] # "drop" => finish_rx'[p].range \cap range'[v] = {}
    BY <1>1, <2>3
  <2> QED
    BY <2>2, <2>4, <2>5 DEF Apart
<1>12. OrderInv'
  BY <1>1, <1>2, <1>3 DEF OrderInv
<1>13. Cached' = Cached /\ Committed' = Committed
  BY <1>1, <1>2, <1>3 DEF Cached, Committed
<1>14. ValuesInv'
  BY <1>1, <1>2, <1>13 DEF ValuesInv, LastOf
<1> QED
  BY <1>1, <1>2, <1>7, <1>8, <1>9, <1>10, <1>11, <1>12, <1>14, SerialStays

\* A worker is done with its range, or panics.
LEMMA LeaveStep ==
    ASSUME ConsumerInv, NEW w \in Threads, Drop(w) \/ WorkerPanic(w)
    PROVE  ConsumerInv'
<1> USE DEF ConsumerInv
<1>0. PICK to \in {"recv", "dead"} : (to = "recv" => Drop(w)) /\ (to = "dead" => WorkerPanic(w))
  OBVIOUS
<1>1. /\ Move(w, to) /\ UNCHANGED scheduler
      /\ driver' = driver /\ next_worker' = next_worker /\ details' = details
      /\ faults' = faults /\ in_hand' = in_hand /\ holding' = holding
      /\ blockhash_queue' = blockhash_queue /\ finish_rx' = finish_rx
      /\ locked' = [locked EXCEPT ![w] = {}]
      /\ outcome' = outcome /\ seen' = seen /\ overrides' = overrides /\ store' = store
      /\ to = "recv" => /\ wpc[w] = "drop" /\ queue' = queue
                        /\ range' = [range EXCEPT ![w] = {}]
      /\ to = "dead" => /\ wpc[w] \in {"execute", "commit"} /\ range' = range
                        /\ queue' = [queue EXCEPT ![w] = <<>>]
  BY <1>0 DEF Drop, WorkerPanic, DriverUnchanged, others, results
<1>2. /\ IInv' /\ Txs' = Txs /\ Waiting' = Waiting /\ Done' = Done
      /\ running' = running /\ transactions' = transactions
      /\ \A i, j : Conflict(i, j)' <=> Conflict(i, j)
  BY <1>1, SchedulerStays
<1>3. /\ wpc'[w] = to /\ \A v \in Threads : v # w => wpc'[v] = wpc[v]
      /\ wpc' \in [Threads -> {"recv", "prepare", "execute", "relock", "cache",
                               "commit", "send", "drop", "exited", "dead"}]
  BY <1>1, MoveFacts
<1>4. /\ locked'[w] = {} /\ \A v \in Threads : v # w => locked'[v] = locked[v]
      /\ locked' \in [Threads -> SUBSET Txs]
  BY <1>1 DEF Types
<1>5. /\ range'[w] = IF to = "recv" THEN {} ELSE range[w]
      /\ \A v \in Threads : v # w => range'[v] = range[v]
      /\ range' \in [Threads -> SUBSET Txs]
  BY <1>1 DEF Types
<1>6. /\ queue' \in [Threads -> Seq(SUBSET Txs)]
      /\ \A v \in Threads : \A p \in DOMAIN queue'[v] :
            p \in DOMAIN queue[v] /\ queue'[v][p] = queue[v][p]
  <2>1. CASE to = "recv"
    BY <1>1, <2>1 DEF Types
  <2>2. CASE to = "dead"
    <3>0. <<>> \in Seq(SUBSET Txs)
      BY ONLY SMTT(30)
    <3>1. /\ queue' \in [Threads -> Seq(SUBSET Txs)] /\ queue'[w] = <<>>
          /\ \A v \in Threads : v # w => queue'[v] = queue[v]
      BY <1>1, <2>2, <3>0 DEF Types
    <3>2. DOMAIN queue'[w] = {}
      BY ONLY <3>1, SMTT(30)
    <3> QED
      BY <3>1, <3>2
  <2> QED
    BY <2>1, <2>2
<1>7. Types' /\ QueueInv' /\ ResultInv'
  <2>1. Types'
    BY <1>1, <1>2, <1>3, <1>4, <1>5, <1>6 DEF Types, Result
  <2>2. QueueInv' /\ ResultInv'
    BY <1>1, <1>2, <1>6, ResultsStay
  <2> QED
    BY <2>1, <2>2
<1>8. WorkerInv' /\ LockInv' /\ EndInv'
  <2>1. WorkerInv'
    BY <1>1, <1>2, <1>3, <1>5 DEF WorkerInv, Busy
  <2>2. LockInv'
    BY <1>1, <1>3, <1>4, <1>5 DEF LockInv
  <2>3. EndInv'
    BY <1>1, <1>3 DEF EndInv
  <2> QED
    BY <2>1, <2>2, <2>3
<1>9. Separated'
  <2> SUFFICES ASSUME NEW u \in Threads, NEW v \in Threads, u # v, wpc'[v] = "drop",
                      \/ wpc'[u] \in {"relock", "cache", "commit", "send"}
                      \/ wpc'[u] = "execute" /\ locked'[u] = range'[u],
                      NEW i \in range'[u], NEW j \in locked'[v]
               PROVE  ~Conflict(i, j)
    BY <1>2 DEF Separated
  <2>1. u # w /\ v # w
    BY <1>3
  <2>2. /\ wpc[v] = "drop" /\ i \in range[u] /\ j \in locked[v]
        /\ \/ wpc[u] \in {"relock", "cache", "commit", "send"}
           \/ wpc[u] = "execute" /\ locked[u] = range[u]
    BY <1>3, <1>4, <1>5, <2>1
  <2> QED
    BY <2>2 DEF Separated
<1>10. Apart'
  <2>1. \A v \in Threads : range'[v] \subseteq range[v]
    BY <1>5
  <2>2. \A p \in DOMAIN finish_rx', v \in Threads :
            wpc'[v] # "drop" => finish_rx'[p].range \cap range'[v] = {}
    <3>1. range'[w] = {} \/ (range'[w] = range[w] /\ wpc[w] # "drop")
      BY <1>1, <1>5
    <3>2. \A v \in Threads : wpc'[v] # "drop" =>
              range'[v] = {} \/ (range'[v] = range[v] /\ wpc[v] # "drop")
      BY <1>3, <1>5, <3>1
    <3> QED
      BY <1>1, <3>2 DEF Apart
  <2>3. /\ \A u, v \in Threads : \A p \in DOMAIN queue'[u] : queue'[u][p] \cap range'[v] = {}
        /\ \A u, v \in Threads : u # v => range'[u] \cap range'[v] = {}
    <3>1. \A u, v \in Threads : \A p \in DOMAIN queue[u] : queue[u][p] \cap range[v] = {}
      BY DEF Apart
    <3>2. \A u, v \in Threads : u # v => range[u] \cap range[v] = {}
      BY DEF Apart
    <3>3. ASSUME NEW u \in Threads, NEW v \in Threads, NEW p \in DOMAIN queue'[u]
          PROVE  queue'[u][p] \cap range'[v] = {}
      <4>1. queue'[u][p] = queue[u][p] /\ range'[v] \subseteq range[v]
        BY <1>6, <2>1
      <4>2. queue[u][p] \cap range[v] = {}
        BY <1>6, <3>1
      <4> QED
        BY ONLY <4>1, <4>2
    <3>4. ASSUME NEW u \in Threads, NEW v \in Threads, u # v
          PROVE  range'[u] \cap range'[v] = {}
      <4>1. range'[u] \subseteq range[u] /\ range'[v] \subseteq range[v]
        BY <2>1
      <4>2. range[u] \cap range[v] = {}
        BY <3>2, <3>4
      <4> QED
        BY ONLY <4>1, <4>2
    <3> QED
      BY <3>3, <3>4
  <2>4. \A u, v \in Threads : \A p \in DOMAIN queue'[u], q \in DOMAIN queue'[v] :
            u # v \/ p # q => queue'[u][p] \cap queue'[v][q] = {}
    BY <1>6 DEF Apart
  <2> QED
    BY <1>1, <2>2, <2>3, <2>4 DEF Apart
<1>11. OrderInv'
  BY <1>1, <1>2, <1>3, <1>5 DEF OrderInv
<1>12. Cached' = Cached /\ Committed' = Committed
  <2>1. wpc[w] = "execute" => \A i \in range[w] : outcome[i] = "none"
    BY DEF WorkerInv
  <2> QED
    BY <1>1, <1>2, <1>3, <1>5, <2>1 DEF Cached, Committed
<1>13. ValuesInv'
  BY <1>1, <1>2, <1>12 DEF ValuesInv, LastOf
<1> QED
  BY <1>1, <1>2, <1>7, <1>8, <1>9, <1>10, <1>11, <1>13, SerialStays

\* In a running range an account has at most one writer, and every earlier
\* transaction of the block that touches an account a writes of the range is done.
LEMMA RangeOrder ==
    ASSUME Counting, ConsumerInv, NEW r \in running, NEW i \in r, NEW j \in Txs, Conflict(i, j), i # j
    PROVE  /\ j < i => j \in Done
           /\ i < j => j \in Waiting
<1>1. i \in Txs /\ i \in Nat /\ j \in Nat /\ i \notin Waiting /\ i \notin Done
  BY SchedulerFacts DEF ConsumerInv
<1> QED
  BY <1>1, SchedulerFacts, ConflictSymmetric DEF ConsumerInv

\* No account is written by two transactions of a running range, and those that
\* were executed before and write one of its accounts are earlier.
LEMMA RangeLast ==
    ASSUME Counting, ConsumerInv, NEW r \in running, NEW a,
           NEW P \in SUBSET {j \in Txs : outcome[j] = "processed"}
    PROVE  /\ P \subseteq Nat /\ r \subseteq Nat
           /\ \A i \in r, j \in P \cup r :
                 a \in transactions[i].write /\ a \in transactions[j].write => j <= i
<1>1. /\ r \subseteq Txs /\ P \subseteq Txs /\ Txs \subseteq Nat
      /\ \A i \in Waiting : outcome[i] = "none"
      /\ r \cap Waiting = {}
  BY SchedulerFacts DEF ConsumerInv, OrderInv
<1>2. ASSUME NEW i \in r, NEW j \in P \cup r,
             a \in transactions[i].write, a \in transactions[j].write, ~(j <= i)
      PROVE  FALSE
  <2>0. i \in Nat /\ j \in Nat /\ j \in Txs
    BY <1>1
  <2>1. i < j /\ i # j /\ i \in Nat /\ j \in Nat /\ j \in Txs
    BY ONLY <1>2, <2>0, SMTT(30)
  <2>2. Conflict(i, j) /\ i # j
    BY <1>2, <2>1 DEF Conflict
  <2>3. j \in Waiting
    BY <2>1, <2>2, RangeOrder
  <2> QED
    BY <1>1, <1>2, <2>3
<1> QED
  BY <1>1, <1>2

\* The writes of a range are put in the account overrides.
LEMMA CacheStep ==
    ASSUME Counting, ConsumerInv, NEW w \in Threads, Cache(w)
    PROVE  ConsumerInv'
<1> USE DEF ConsumerInv
<1>1. /\ wpc[w] = "cache" /\ Move(w, "commit") /\ UNCHANGED scheduler
      /\ driver' = driver /\ next_worker' = next_worker /\ details' = details
      /\ faults' = faults /\ in_hand' = in_hand /\ holding' = holding
      /\ blockhash_queue' = blockhash_queue /\ finish_rx' = finish_rx
      /\ queue' = queue /\ range' = range /\ locked' = locked
      /\ outcome' = outcome /\ seen' = seen /\ store' = store
      /\ overrides' = [a \in Accounts |-> Written(Processed(w), a, overrides[a])]
  BY DEF Cache, DriverUnchanged, others, results
<1>2. /\ IInv' /\ Txs' = Txs /\ Waiting' = Waiting /\ Done' = Done
      /\ running' = running /\ transactions' = transactions
      /\ \A i, j : Conflict(i, j)' <=> Conflict(i, j)
  BY <1>1, SchedulerStays
<1>3. /\ wpc'[w] = "commit" /\ \A v \in Threads : v # w => wpc'[v] = wpc[v]
      /\ wpc' \in [Threads -> {"recv", "prepare", "execute", "relock", "cache",
                               "commit", "send", "drop", "exited", "dead"}]
  BY <1>1, MoveFacts
<1>4. Types' /\ QueueInv' /\ ResultInv'
  <2>1. Types'
    BY <1>1, <1>2, <1>3 DEF Types, Result
  <2>2. QueueInv' /\ ResultInv'
    BY <1>1, <1>2, ResultsStay
  <2> QED
    BY <2>1, <2>2
<1>5. WorkerInv' /\ LockInv' /\ EndInv'
  BY <1>1, <1>2, <1>3 DEF WorkerInv, Busy, LockInv, EndInv
<1>6. Separated'
  BY <1>1, <1>2, <1>3 DEF Separated
<1>7. Apart' /\ OrderInv'
  <2>1. \A v \in Threads : wpc[v] = "drop" => wpc'[v] = "drop"
    BY <1>1, <1>3
  <2> QED
    BY <1>1, <1>2, <2>1, ApartStays, OrderStays
<1>8. range[w] \in running /\ range[w] \subseteq Txs
  BY <1>1, SchedulerFacts DEF WorkerInv, Busy
<1>9. Committed' = Committed /\ Cached' = Cached \cup Processed(w)
  <2>1. Committed' = Committed
    BY <1>1, <1>2, <1>3 DEF Committed
  <2>2. \A i \in range[w], v \in Threads : i \in range[v] => v = w
    BY DEF Apart
  <2> QED
    BY <1>1, <1>2, <1>3, <1>8, <2>1, <2>2 DEF Cached, Processed
<1>10. ValuesInv'
  <2>1. ASSUME NEW a \in Accounts
        PROVE  LastOf(Cached \cup Processed(w), a, NoOverride, overrides'[a])
    <3>1. /\ Cached \in SUBSET Nat /\ Processed(w) \in SUBSET Nat
          /\ \A i \in Processed(w), j \in Cached \cup Processed(w) :
                a \in transactions[i].write /\ a \in transactions[j].write => j <= i
      <4>1. Cached \in SUBSET {j \in Txs : outcome[j] = "processed"}
        BY DEF Cached
      <4>2. Processed(w) \subseteq range[w]
        BY DEF Processed
      <4> QED
        BY <1>8, <4>1, <4>2, RangeLast
    <3>2. LastOf(Cached, a, NoOverride, overrides[a])
      BY DEF ValuesInv
    <3> QED
      BY <1>1, <3>1, <3>2, LastOfLater
  <2>2. \A a \in Accounts : LastOf(Cached, a, NoOverride, overrides[a])' 
    BY <1>2, <1>9, <2>1 DEF LastOf, NoOverride
  <2>3. overrides' \in [Accounts -> Int]
    <3>1. \A a \in Accounts : overrides'[a] \in Int
      <4>1. Cached \cup Processed(w) \subseteq Nat
        BY <1>8, SchedulerFacts DEF Cached, Processed
      <4> QED
        BY ONLY <2>1, <4>1, SMTT(30) DEF LastOf, NoOverride
    <3> QED
      BY <1>1, <3>1
  <2>4. \A a \in Accounts : LastOf(Committed, a, 0, store[a])'
    BY <1>1, <1>2, <1>9 DEF ValuesInv, LastOf
  <2> QED
    BY <1>1, <2>2, <2>3, <2>4 DEF ValuesInv
<1> QED
  BY <1>1, <1>2, <1>4, <1>5, <1>6, <1>7, <1>10, SerialStays

\* The writes of a range are put in the accounts store.
LEMMA CommitStep ==
    ASSUME Counting, ConsumerInv, NEW w \in Threads, Commit(w)
    PROVE  ConsumerInv'
<1> USE DEF ConsumerInv
<1>1. /\ wpc[w] = "commit" /\ Move(w, "send") /\ UNCHANGED scheduler
      /\ driver' = driver /\ next_worker' = next_worker /\ details' = details
      /\ faults' = faults /\ in_hand' = in_hand /\ holding' = holding
      /\ blockhash_queue' = blockhash_queue /\ finish_rx' = finish_rx
      /\ queue' = queue /\ range' = range /\ locked' = locked
      /\ outcome' = outcome /\ seen' = seen /\ overrides' = overrides
      /\ store' = [a \in Accounts |-> Written(Processed(w), a, store[a])]
  BY DEF Commit, DriverUnchanged, others, results
<1>2. /\ IInv' /\ Txs' = Txs /\ Waiting' = Waiting /\ Done' = Done
      /\ running' = running /\ transactions' = transactions
      /\ \A i, j : Conflict(i, j)' <=> Conflict(i, j)
  BY <1>1, SchedulerStays
<1>3. /\ wpc'[w] = "send" /\ \A v \in Threads : v # w => wpc'[v] = wpc[v]
      /\ wpc' \in [Threads -> {"recv", "prepare", "execute", "relock", "cache",
                               "commit", "send", "drop", "exited", "dead"}]
  BY <1>1, MoveFacts
<1>4. Types' /\ QueueInv' /\ ResultInv'
  <2>1. Types'
    BY <1>1, <1>2, <1>3 DEF Types, Result
  <2>2. QueueInv' /\ ResultInv'
    BY <1>1, <1>2, ResultsStay
  <2> QED
    BY <2>1, <2>2
<1>5. WorkerInv' /\ LockInv' /\ EndInv'
  BY <1>1, <1>2, <1>3 DEF WorkerInv, Busy, LockInv, EndInv
<1>6. Separated'
  BY <1>1, <1>2, <1>3 DEF Separated
<1>7. Apart' /\ OrderInv'
  <2>1. \A v \in Threads : wpc[v] = "drop" => wpc'[v] = "drop"
    BY <1>1, <1>3
  <2> QED
    BY <1>1, <1>2, <2>1, ApartStays, OrderStays
<1>8. range[w] \in running /\ range[w] \subseteq Txs
  BY <1>1, SchedulerFacts DEF WorkerInv, Busy
<1>9. Cached' = Cached /\ Committed' = Committed \cup Processed(w)
  <2>1. Cached' = Cached
    BY <1>1, <1>2, <1>3 DEF Cached
  <2>2. \A i \in range[w], v \in Threads : i \in range[v] => v = w
    BY DEF Apart
  <2> QED
    BY <1>1, <1>2, <1>3, <1>8, <2>1, <2>2 DEF Committed, Processed
<1>10. ValuesInv'
  <2>1. ASSUME NEW a \in Accounts
        PROVE  LastOf(Committed \cup Processed(w), a, 0, store'[a])
    <3>1. /\ Committed \in SUBSET Nat /\ Processed(w) \in SUBSET Nat
          /\ \A i \in Processed(w), j \in Committed \cup Processed(w) :
                a \in transactions[i].write /\ a \in transactions[j].write => j <= i
      <4>1. Committed \in SUBSET {j \in Txs : outcome[j] = "processed"}
        BY DEF Committed
      <4>2. Processed(w) \subseteq range[w]
        BY DEF Processed
      <4> QED
        BY <1>8, <4>1, <4>2, RangeLast
    <3>2. LastOf(Committed, a, 0, store[a])
      BY DEF ValuesInv
    <3> QED
      BY <1>1, <3>1, <3>2, LastOfLater
  <2>2. \A a \in Accounts : LastOf(Committed, a, 0, store[a])'
    BY <1>2, <1>9, <2>1 DEF LastOf
  <2>3. store' \in [Accounts -> Int]
    <3>1. \A a \in Accounts : store'[a] \in Int
      <4>1. Committed \cup Processed(w) \subseteq Nat
        BY <1>8, SchedulerFacts DEF Committed, Processed
      <4> QED
        BY ONLY <2>1, <4>1, SMTT(30) DEF LastOf
    <3> QED
      BY <1>1, <3>1
  <2>4. \A a \in Accounts : LastOf(Cached, a, NoOverride, overrides[a])'
    BY <1>1, <1>2, <1>9 DEF ValuesInv, LastOf, NoOverride
  <2> QED
    BY <1>1, <2>2, <2>3, <2>4 DEF ValuesInv
<1> QED
  BY <1>1, <1>2, <1>4, <1>5, <1>6, <1>7, <1>10, SerialStays
=============================================================================
