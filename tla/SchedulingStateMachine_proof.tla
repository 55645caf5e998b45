-------------------- MODULE SchedulingStateMachine_proof --------------------
(***************************************************************************)
(* RunnableExclusive, ArrivalOrder, QueueAsserts and NoDeadlock hold of    *)
(* SchedulingStateMachine for every set of tasks and addresses, whatever   *)
(* the tasks lock, with FIFO queues and with priority queues.              *)
(***************************************************************************)
EXTENDS SchedulingStateMachine, FiniteSetTheorems, WellFoundedInduction, TLAPS

\* Most steps need no arithmetic: Zenon proves them unless SMT is named.
USE ZenonT(40)

-----------------------------------------------------------------------------
(* The inductive invariant *)

Arrived == {u \in Task : state[u] # "new"}

\* The addresses task u is blocked at.
At(u) == {a \in Addr : u \in blocked[a]}

\* An active task holds or awaits each address it locks, and no task is in
\* another queue.
Placed ==
    /\ \A a \in Addr : \A u \in current[a] \cup blocked[a] : u \in Active /\ a \in Locked(u)
    /\ \A a \in Addr : current[a] \cap blocked[a] = {}
    /\ \A u \in Active : \A a \in Locked(u) : u \in current[a] \cup blocked[a]

\* blocked_usage_count is exact, and not zero just when the task is blocked.
Counted ==
    \A u \in Task :
        /\ count[u] = Cardinality(At(u))
        /\ count[u] # 0 <=> At(u) # {}
        /\ count[u] # 0 <=> state[u] = "blocked"

\* The holders of an address only read it, or there is one.
Compatible == \A a \in Addr : \A u, v \in current[a] : u # v => Shared(u, v, a)

NonEmpty == \A a \in Addr : current[a] = {} => blocked[a] = {}

\* A reader is blocked behind readers only because of a writer in between.
WriterBetween ==
    \A a \in Addr : \A u \in blocked[a] : \A v \in current[a] :
        Shared(u, v, a) => \E w \in blocked[a] : rank[w] < rank[u] /\ ~Shared(w, v, a)

\* A task is blocked by a conflicting one of a lower rank only if that one
\* is blocked nowhere: it cannot be reblocked any more.
NoInversion ==
    \A a \in Addr : \A u \in blocked[a], v \in current[a] :
        ~Shared(u, v, a) /\ rank[u] < rank[v] => count[v] = 0

FifoOrder ==
    capability = "FifoQueueing" =>
        \A a \in Addr : \A u \in blocked[a], v \in current[a] : rank[v] < rank[u]

\* Tasks that arrived have different ranks: in FIFO queues the number of
\* tasks that had arrived, in priority queues the task's id.
Ranked ==
    /\ capability = "FifoQueueing" => \A u \in Arrived : rank[u] <= Cardinality(Arrived)
    /\ capability = "PriorityQueueing" => \A u \in Arrived : rank[u] = u
    /\ \A u, v \in Arrived : u # v => rank[u] # rank[v]

Queued ==
    /\ \A i \in 1..Len(unblocked) : state[unblocked[i]] = "unblocked"
    /\ \A i, j \in 1..Len(unblocked) : i # j => unblocked[i] # unblocked[j]

\* What the usage queues and the counts keep between them.
Queues ==
    /\ Placed /\ Counted /\ Compatible /\ NonEmpty /\ WriterBetween
    /\ NoInversion /\ FifoOrder /\ Ranked

IInv == TypeOK /\ Queues /\ Queued /\ ArrivalOrder

\* A blocked task is blocked at some address, any other task at none.
LEMMA CountFacts ==
    ASSUME Counted, NEW u \in Task
    PROVE  /\ count[u] # 0 <=> At(u) # {}
           /\ count[u] # 0 <=> state[u] = "blocked"
BY DEF Counted

-----------------------------------------------------------------------------
(* What the invariant implies *)

\* A task that can run holds every address it locks.
LEMMA RunnableHolds ==
    ASSUME TypeOK, Placed, Counted, NEW u \in Runnable, NEW a \in Locked(u)
    PROVE  u \in current[a]
<1>1. u \in Task /\ a \in Addr /\ u \in Active /\ state[u] # "blocked"
  BY DEF Runnable, Active, Locked
<1>2. u \notin blocked[a]
  BY <1>1, CountFacts DEF At
<1> QED
  BY <1>1, <1>2 DEF Placed

\* Tasks that can run hold what they lock, and holders are compatible.
LEMMA IInvExclusive == TypeOK /\ Queues => RunnableExclusive
<1> SUFFICES ASSUME TypeOK, Queues, NEW t \in Runnable, NEW u \in Runnable, t # u,
                    NEW a \in Locked(t) \cap Locked(u)
             PROVE  Shared(t, u, a)
  BY DEF RunnableExclusive, Conflict
<1>1. a \in Addr /\ t \in current[a] /\ u \in current[a]
  BY RunnableHolds DEF Queues, Locked
<1> QED
  BY <1>1 DEF Queues, Compatible

\* In FIFO queues a task that can run conflicts with no earlier active one.
FirstRuns ==
    capability = "FifoQueueing" =>
        \A t \in Active, u \in Runnable : ~(Conflict(t, u) /\ rank[t] < rank[u])

\* With FIFO queues an earlier conflicting task would be in front of it.
LEMMA RunnableIsFirst == TypeOK /\ Queues => FirstRuns
<1> SUFFICES ASSUME TypeOK, Queues, capability = "FifoQueueing",
                    NEW t \in Active, NEW u \in Runnable, Conflict(t, u), rank[t] < rank[u]
             PROVE  FALSE
  BY DEF FirstRuns
<1>1. PICK a \in Locked(t) \cap Locked(u) : ~Shared(t, u, a)
  BY DEF Conflict
<1>2. a \in Addr /\ u \in current[a] /\ u \in Task /\ t \in Task
  BY <1>1, RunnableHolds DEF Queues, Locked, Runnable, Active
<1>3. rank[t] \in Nat /\ rank[u] \in Nat /\ t # u
  BY <1>2, SMTT(30) DEF TypeOK
<1>4. t \in current[a] \cup blocked[a]
  BY <1>1 DEF Queues, Placed
<1>5. t \notin current[a]
  BY <1>1, <1>2, <1>3 DEF Queues, Compatible
<1>6. rank[u] < rank[t]
  BY <1>2, <1>4, <1>5 DEF Queues, FifoOrder
<1> QED
  BY <1>3, <1>6, SMTT(30)

-----------------------------------------------------------------------------
(* A task arrives *)

\* schedule_or_buffer_task, but for the queue of unblocked tasks.
Arrives(t) ==
    /\ state[t] = "new"
    /\ try_lock_usage_queues(t)
    /\ UNCHANGED <<capability, usage>>
    /\ \E s \in {"blocked", "unblocked", "running"} :
          /\ state' = [state EXCEPT ![t] = s]
          /\ s = "blocked" <=> BlockedAt(t) # {}

\* What counting says of the arrival of t: its rank is new, and the counts of
\* the tasks that are not blocked stay zero.
Tallied(t) ==
    /\ rank' \in [Task -> Nat] /\ Ranked'
    /\ capability = "FifoQueueing" => \A u \in Arrived : rank'[u] < rank'[t]
    /\ \A u \in Task \ {t} : count[u] = 0 => count'[u] = 0

\* A new task is in no queue, and takes an address only from blocked tasks of
\* a lower priority.
LEMMA ReblockedFacts ==
    ASSUME TypeOK, Queues, NEW t \in Task, state[t] = "new", NEW a \in Addr
    PROVE  /\ t \notin current[a] /\ t \notin blocked[a]
           /\ \A u \in Reblocked(t, a) :
                 /\ u \in current[a] /\ u \in Task /\ u # t
                 /\ state[u] = "blocked" /\ count[u] # 0
                 /\ capability = "PriorityQueueing" /\ a \in Locked(t)
                 /\ ~Shared(t, u, a) /\ t < rank[u] /\ rank[u] = u
<1>1. t \notin current[a] /\ t \notin blocked[a]
  BY DEF Queues, Placed, Active
<1>2. ASSUME NEW u \in Reblocked(t, a)
      PROVE  /\ u \in current[a] /\ u \in Task /\ u # t
             /\ state[u] = "blocked" /\ count[u] # 0
             /\ capability = "PriorityQueueing" /\ a \in Locked(t)
             /\ ~Shared(t, u, a) /\ t < rank[u] /\ rank[u] = u
  <2>1. /\ u \in current[a] /\ ~Shared(t, u, a) /\ t < u /\ count[u] # 0
        /\ capability # "FifoQueueing" /\ a \in Locked(t)
    BY DEF Reblocked, CanReblock
  <2>2. u \in Task /\ capability = "PriorityQueueing"
    BY <2>1 DEF TypeOK, Capabilities
  <2>3. state[u] = "blocked"
    BY <2>1, <2>2, CountFacts DEF Queues
  <2>4. rank[u] = u
    BY <2>2, <2>3 DEF Queues, Ranked, Arrived
  <2> QED
    BY <1>1, <2>1, <2>2, <2>3, <2>4
<1> QED
  BY <1>1, <1>2

\* A task that gets an address on arrival comes before all that are blocked
\* there: in particular if it took the address from a blocked holder.
LEMMA LockedFirst ==
    ASSUME TypeOK, Queues, NEW t \in Task, state[t] = "new", NEW a \in Locked(t), Locks(t, a),
           NEW u \in blocked[a]
    PROVE  capability = "PriorityQueueing" /\ t < rank[u]
<1>1. a \in Addr /\ u \in Task /\ u \in Arrived
  BY DEF Locked, TypeOK, Queues, Placed, Active, Arrived
<1>2. capability = "PriorityQueueing"
  BY DEF Locks, TypeOK, Capabilities
<1>3. rank[u] = u
  BY <1>1, <1>2 DEF Queues, Ranked
<1>4. CASE current[a] \ Reblocked(t, a) # {}
  BY <1>2, <1>3, <1>4 DEF Locks
<1>5. CASE current[a] \ Reblocked(t, a) = {}
  <2>1. PICK w \in current[a] : TRUE
    BY <1>1 DEF Queues, NonEmpty
  <2>2. w \in Reblocked(t, a)
    BY <1>5, <2>1
  <2>3. w \in Task /\ count[w] # 0 /\ t < rank[w] /\ rank[w] \in Nat /\ rank[u] \in Nat
    BY <1>1, <2>2, ReblockedFacts, SMTT(30) DEF TypeOK
  <2>4. ASSUME NEW x \in blocked[a], ~Shared(x, w, a) PROVE ~(rank[x] < rank[w])
    BY <1>1, <2>1, <2>3, <2>4 DEF Queues, NoInversion
  <2>5. CASE ~Shared(u, w, a)
    BY <1>2, <2>3, <2>4, <2>5, TaskAssumption, SMTT(30)
  <2>6. CASE Shared(u, w, a)
    <3>1. PICK x \in blocked[a] : rank[x] < rank[u] /\ ~Shared(x, w, a)
      BY <1>1, <2>1, <2>6 DEF Queues, WriterBetween
    <3>2. x \in Task /\ rank[x] \in Nat
      BY <1>1, <3>1 DEF TypeOK
    <3> QED
      BY <1>2, <2>3, <2>4, <3>1, <3>2, TaskAssumption, SMTT(30)
  <2> QED
    BY <1>2, <2>5, <2>6
<1> QED
  BY <1>2, <1>4, <1>5

\* A reader that joins readers takes the address from nobody.
LEMMA JoinsReaders ==
    ASSUME TypeOK, Queues, NEW t \in Task, state[t] = "new", NEW a \in Addr, Locks(t, a),
           NEW v \in current[a] \ Reblocked(t, a)
    PROVE  Shared(t, v, a) /\ Reblocked(t, a) = {}
<1>1. Shared(t, v, a)
  BY DEF Locks
<1>2. ASSUME NEW u \in Reblocked(t, a) PROVE FALSE
  <2>1. u \in current[a] /\ ~Shared(t, u, a)
    BY ReblockedFacts
  <2>2. Shared(u, v, a)
    BY <2>1 DEF Queues, Compatible
  <2> QED
    BY <1>1, <2>1, <2>2 DEF Shared
<1> QED
  BY <1>1, <1>2

\* What the queues and the states are once t has arrived.
LEMMA ArrivesStep ==
    ASSUME TypeOK, Queues, NEW t \in Task, Arrives(t)
    PROVE  /\ current' \in [Addr -> SUBSET Task] /\ blocked' \in [Addr -> SUBSET Task]
           /\ \A a \in Addr :
                 /\ t \in current'[a] <=> a \in Locked(t) /\ Locks(t, a)
                 /\ t \in blocked'[a] <=> a \in Locked(t) /\ ~Locks(t, a)
                 /\ \A u \in Task \ {t} :
                       /\ u \in current'[a] <=> u \in current[a] \ Reblocked(t, a)
                       /\ u \in blocked'[a] <=> u \in blocked[a] \cup Reblocked(t, a)
           /\ \A u \in Task \ {t} : state'[u] = state[u] /\ rank'[u] = rank[u]
           /\ \A u, v \in Task, a \in Addr : Shared(u, v, a)' <=> Shared(u, v, a)
           /\ \A u \in Task : Locked(u)' = Locked(u)
           /\ rank'[t] = NewRank(t) /\ state'[t] # "new" /\ state' \in [Task -> States]
<1>1. \A u, v \in Task, a \in Addr : Shared(u, v, a)' <=> Shared(u, v, a)
  BY DEF Arrives, Shared
<1>2. \A u \in Task : Locked(u)' = Locked(u)
  BY DEF Arrives, Locked
<1>3. rank'[t] = NewRank(t)
  BY DEF Arrives, try_lock_usage_queues, TypeOK
<1>4. state' \in [Task -> States] /\ state'[t] # "new"
  BY SMTT(30) DEF Arrives, TypeOK, States
<1>5. \A u \in Task \ {t} : state'[u] = state[u] /\ rank'[u] = rank[u]
  BY DEF Arrives, try_lock_usage_queues, TypeOK
<1>6. state[t] = "new"
  BY DEF Arrives
<1>7. \A a \in Addr : Reblocked(t, a) \in SUBSET Task /\ t \notin Reblocked(t, a)
  BY <1>6, ReblockedFacts
<1>8. \A a \in Addr : t \notin current[a] /\ t \notin blocked[a]
  BY <1>6, ReblockedFacts
<1>9. current' \in [Addr -> SUBSET Task] /\ blocked' \in [Addr -> SUBSET Task]
  BY <1>7, SMTT(30) DEF Arrives, try_lock_usage_queues, TypeOK
<1>10. ASSUME NEW a \in Addr
       PROVE  /\ t \in current'[a] <=> a \in Locked(t) /\ Locks(t, a)
              /\ t \in blocked'[a] <=> a \in Locked(t) /\ ~Locks(t, a)
              /\ \A u \in Task \ {t} :
                    /\ u \in current'[a] <=> u \in current[a] \ Reblocked(t, a)
                    /\ u \in blocked'[a] <=> u \in blocked[a] \cup Reblocked(t, a)
  BY <1>7, <1>8 DEF Arrives, try_lock_usage_queues, BlockedAt
<1> QED
  BY <1>1, <1>2, <1>3, <1>4, <1>5, <1>9, <1>10, SMTT(30)

\* A new task is granted only what its holders share with it.
LEMMA ArrivesCompatible ==
    ASSUME TypeOK, Queues, NEW t \in Task, Arrives(t)
    PROVE  Compatible' /\ NonEmpty'
<1>1. ASSUME NEW a \in Addr, NEW u \in current'[a], NEW v \in current'[a], u # v
      PROVE  Shared(u, v, a)'
  <2>1. u \in Task /\ v \in Task
    BY ArrivesStep, SMTT(30)
  <2>2. CASE u # t /\ v # t
    BY <1>1, <2>1, <2>2, ArrivesStep, SMTT(30) DEF Queues, Compatible
  <2>3. CASE u = t
    BY <1>1, <2>1, <2>3, ArrivesStep, JoinsReaders DEF Arrives
  <2>4. CASE v = t
    <3>1. Shared(t, u, a)
      BY <1>1, <2>1, <2>4, ArrivesStep, JoinsReaders DEF Arrives
    <3> QED
      BY <2>1, <2>4, <3>1, ArrivesStep, SMTT(30) DEF Shared
  <2> QED
    BY <2>2, <2>3, <2>4
<1>2. ASSUME NEW a \in Addr, current'[a] = {}, NEW u \in blocked'[a] PROVE FALSE
  <2>1. u \in Task
    BY ArrivesStep, SMTT(30)
  <2>2. current[a] \ Reblocked(t, a) = {} /\ ~(a \in Locked(t) /\ Locks(t, a))
    <3>1. \A w \in current[a] \ Reblocked(t, a) : w \in Task \ {t}
      BY ReblockedFacts, SMTT(30) DEF TypeOK, Arrives
    <3> QED
      BY <1>2, <3>1, ArrivesStep
  <2>3. a \in Locked(t) => capability = "FifoQueueing" /\ blocked[a] # {}
    BY <2>2 DEF Locks
  <2>4. Reblocked(t, a) = {}
    BY <2>3 DEF Reblocked
  <2>5. blocked[a] = {}
    BY <2>2, <2>4 DEF Queues, NonEmpty
  <2>6. u = t
    BY <2>1, <2>4, <2>5, ArrivesStep
  <2> QED
    BY <2>3, <2>5, <2>6, ArrivesStep
<1> QED
  BY <1>1, <1>2 DEF Compatible, NonEmpty

\* A new task holds or awaits each of its addresses; others keep theirs.
LEMMA ArrivesPlaced ==
    ASSUME TypeOK, Queues, NEW t \in Task, Arrives(t)
    PROVE  Placed'
<1>1. ASSUME NEW a \in Addr, NEW u \in current'[a] \cup blocked'[a]
      PROVE  u \in Active' /\ a \in Locked(u)'
  <2>1. u \in Task
    BY ArrivesStep, SMTT(30)
  <2>2. CASE u = t
    <3>1. state'[t] \in {"blocked", "unblocked", "running"}
      BY DEF Arrives, TypeOK
    <3> QED
      BY <1>1, <2>2, <3>1, ArrivesStep, SMTT(30) DEF Active
  <2>3. CASE u # t
    <3>1. u \in current[a] \cup blocked[a]
      BY <1>1, <2>1, <2>3, ArrivesStep, ReblockedFacts DEF Arrives
    <3> QED
      BY <2>1, <2>3, <3>1, ArrivesStep, SMTT(30) DEF Queues, Placed, Active
  <2> QED
    BY <2>2, <2>3
<1>2. ASSUME NEW a \in Addr, NEW u \in current'[a] \cap blocked'[a] PROVE FALSE
  <2>1. u \in Task
    BY ArrivesStep, SMTT(30)
  <2> QED
    BY <1>2, <2>1, ArrivesStep, SMTT(30) DEF Queues, Placed
<1>3. ASSUME NEW u \in Active', NEW a \in Locked(u)' PROVE u \in current'[a] \cup blocked'[a]
  <2>1. u \in Task /\ a \in Addr /\ a \in Locked(u)
    BY ArrivesStep DEF Active, Locked
  <2>2. CASE u = t
    BY <2>1, <2>2, ArrivesStep
  <2>3. CASE u # t
    <3>1. u \in Active
      BY <2>1, <2>3, ArrivesStep, SMTT(30) DEF Active
    <3> QED
      BY <2>1, <2>3, <3>1, ArrivesStep DEF Queues, Placed
  <2> QED
    BY <2>2, <2>3
<1> QED
  BY <1>1, <1>2, <1>3 DEF Placed

\* With FIFO queues nobody is moved, and the new task is the last.
LEMMA ArrivesFifoOrder ==
    ASSUME TypeOK, Queues, NEW t \in Task, Arrives(t), Tallied(t)
    PROVE  FifoOrder'
<1> SUFFICES ASSUME capability = "FifoQueueing", NEW a \in Addr,
                    NEW u \in blocked'[a], NEW v \in current'[a]
             PROVE  rank'[v] < rank'[u]
  BY DEF FifoOrder, Arrives
<1>1. u \in Task /\ v \in Task /\ Reblocked(t, a) = {}
  BY ArrivesStep, SMTT(30) DEF Reblocked
<1>2. CASE v = t
  <2>1. blocked[a] = {} /\ t \notin blocked'[a]
    BY <1>2, ArrivesStep DEF Locks
  <2> QED
    BY <1>1, <2>1, ArrivesStep
<1>3. CASE u = t /\ v # t
  <2>1. v \in Arrived
    BY <1>1, <1>3, ArrivesStep DEF Queues, Placed, Active, Arrived
  <2> QED
    BY <1>3, <2>1 DEF Tallied
<1>4. CASE u # t /\ v # t
  BY <1>1, <1>4, ArrivesStep, SMTT(30) DEF Queues, FifoOrder
<1> QED
  BY <1>2, <1>3, <1>4

\* A new task of higher rank takes back what blocked tasks hold.
LEMMA ArrivesNoInversion ==
    ASSUME TypeOK, Queues, NEW t \in Task, Arrives(t), Tallied(t)
    PROVE  NoInversion'
<1> SUFFICES ASSUME NEW a \in Addr, NEW u \in blocked'[a], NEW v \in current'[a],
                    ~Shared(u, v, a)', rank'[u] < rank'[v]
             PROVE  count'[v] = 0
  BY DEF NoInversion
<1>1. u \in Task /\ v \in Task /\ ~Shared(u, v, a)
  BY ArrivesStep
<1>2. u # v
  BY ArrivesPlaced DEF Placed
<1>3. FifoOrder' /\ Ranked' /\ capability' = capability /\ Placed'
  BY ArrivesFifoOrder, ArrivesPlaced DEF Arrives, Tallied
<1>4. capability = "PriorityQueueing"
  <2>1. rank'[v] \in Nat /\ rank'[u] \in Nat
    BY <1>1 DEF Tallied
  <2> QED
    BY <1>3, <2>1, SMTT(30) DEF FifoOrder, TypeOK, Capabilities
<1>5. rank'[u] = u /\ rank'[v] = v /\ u < v
  BY <1>1, <1>3, <1>4 DEF Placed, Active, Arrived, Ranked
<1>6. CASE v = t
  <2>1. a \in Locked(t) /\ Locks(t, a)
    BY <1>6, ArrivesStep
  <2>2. u \in blocked[a] \/ u \in Reblocked(t, a)
    BY <1>1, <1>2, <1>6, ArrivesStep
  <2>3. t < rank[u] /\ rank[u] = rank'[u]
    BY <1>1, <1>2, <1>6, <2>1, <2>2, LockedFirst, ReblockedFacts, ArrivesStep DEF Arrives
  <2> QED
    BY <1>1, <1>5, <1>6, <2>3, TaskAssumption, SMTT(30)
<1>7. CASE u = t
  <2>1. v \in current[a] /\ v \notin Reblocked(t, a) /\ a \in Locked(t)
    BY <1>1, <1>2, <1>7, ArrivesStep
  <2>2. count[v] = 0
    BY <1>1, <1>4, <1>5, <1>7, <2>1 DEF Reblocked, CanReblock
  <2> QED
    BY <1>1, <1>2, <1>7, <2>2 DEF Tallied
<1>8. CASE u # t /\ v # t
  <2>1. v \in current[a] /\ v \notin Reblocked(t, a)
    BY <1>1, <1>8, ArrivesStep
  <2>2. u \notin Reblocked(t, a)
    BY <1>1, <1>2, <2>1, ReblockedFacts DEF Queues, Compatible, Arrives
  <2>3. u \in blocked[a] /\ rank[u] < rank[v]
    BY <1>1, <1>8, <2>2, ArrivesStep, SMTT(30)
  <2>4. count[v] = 0
    BY <1>1, <2>1, <2>3 DEF Queues, NoInversion
  <2> QED
    BY <1>1, <1>8, <2>4 DEF Tallied
<1> QED
  BY <1>6, <1>7, <1>8

\* A reader that does not join the readers has a writer in front of it.
LEMMA ArrivesWriterBetween ==
    ASSUME TypeOK, Queues, NEW t \in Task, Arrives(t), Tallied(t)
    PROVE  WriterBetween'
<1> SUFFICES ASSUME NEW a \in Addr, NEW u \in blocked'[a], NEW v \in current'[a],
                    Shared(u, v, a)'
             PROVE  \E w \in blocked'[a] : rank'[w] < rank'[u] /\ ~Shared(w, v, a)'
  BY DEF WriterBetween
<1>1. u \in Task /\ v \in Task /\ Shared(u, v, a)
  BY ArrivesStep
<1>2. state[t] = "new" /\ t \notin current[a] /\ t \notin blocked[a] /\ u # v
  <2>1. state[t] = "new"
    BY DEF Arrives
  <2>2. u # v
    BY ArrivesPlaced DEF Placed
  <2> QED
    BY <2>1, <2>2, ReblockedFacts
<1>3. SUFFICES \E w \in Task : w \in blocked'[a] /\ rank'[w] < rank'[u] /\ ~Shared(w, v, a)
  BY <1>1, ArrivesStep
<1>4. ASSUME NEW w \in blocked[a] PROVE w \in Task \ {t} /\ w \in blocked'[a] /\ rank'[w] = rank[w]
  BY SMTT(30), <1>2, ArrivesStep DEF TypeOK
<1>5. CASE v = t
  <2>1. a \in Locked(t) /\ Locks(t, a)
    BY <1>5, ArrivesStep
  <2>2. u \in blocked[a] /\ u # t
    BY <1>1, <1>2, <1>5, ArrivesStep, ReblockedFacts, SMTT(30) DEF Shared
  <2>3. CASE current[a] \ Reblocked(t, a) # {}
    <3>1. PICK x \in current[a] \ Reblocked(t, a) : TRUE
      BY <2>3
    <3>2. Shared(t, x, a)
      BY <1>2, <2>1, <3>1, JoinsReaders
    <3>3. PICK w \in blocked[a] : rank[w] < rank[u] /\ ~Shared(w, x, a)
      BY <1>1, <1>5, <2>2, <3>1, <3>2 DEF Queues, WriterBetween, Shared
    <3> QED
      BY <1>1, <1>4, <1>5, <2>2, <3>2, <3>3 DEF Shared
  <2>4. CASE current[a] \ Reblocked(t, a) = {}
    <3>1. PICK w \in current[a] : TRUE
      BY <2>2 DEF Queues, NonEmpty
    <3>2. /\ w \in Reblocked(t, a) /\ w \in Task \ {t} /\ count[w] # 0 /\ ~Shared(t, w, a)
          /\ state[w] = "blocked"
      BY <1>2, <2>4, <3>1, ReblockedFacts, SMTT(30)
    <3>3. w \in blocked'[a] /\ rank'[w] = rank[w]
      BY <3>2, ArrivesStep
    <3>4. ~Shared(u, w, a) /\ ~Shared(w, t, a)
      BY <1>1, <1>5, <3>2 DEF Shared
    <3>5. w # u /\ w \in Arrived /\ u \in Arrived
      BY <2>2, <3>1, <3>2, SMTT(30) DEF Queues, Placed, Arrived, Active
    <3>6. ~(rank[u] < rank[w]) /\ rank[u] # rank[w]
      BY <2>2, <3>1, <3>2, <3>4, <3>5 DEF Queues, NoInversion, Ranked
    <3>7. rank[w] < rank[u]
      BY <1>1, <3>2, <3>6, SMTT(30) DEF TypeOK
    <3> QED
      BY <1>4, <1>5, <2>2, <3>2, <3>3, <3>4, <3>7
  <2> QED
    BY <2>3, <2>4
<1>6. CASE u = t
  <2>1. a \in Locked(t) /\ ~Locks(t, a) /\ v \in current[a] \ Reblocked(t, a)
    BY <1>1, <1>2, <1>6, ArrivesStep
  <2>2. \A x \in current[a] \ Reblocked(t, a) : Shared(t, x, a)
    BY <1>1, <1>6, <2>1 DEF Queues, Compatible, Shared
  <2>3. PICK x \in blocked[a] : rank'[x] < rank'[t]
    <3>1. CASE capability = "FifoQueueing"
      <4>1. blocked[a] # {}
        BY <2>1, <2>2, <3>1 DEF Locks
      <4>2. \A x \in blocked[a] : x \in Arrived
        BY <1>4 DEF Queues, Placed, Active, Arrived
      <4> QED
        BY <3>1, <4>1, <4>2 DEF Tallied
    <3>2. CASE capability = "PriorityQueueing"
      <4>1. PICK x \in blocked[a] : ~(t < x)
        BY <2>1, <2>2, <3>2 DEF Locks
      <4>2. x \in Task \ {t} /\ rank'[x] = rank[x] /\ rank[x] = x
        BY <1>4, <3>2 DEF Queues, Placed, Active, Arrived, Ranked
      <4>3. rank'[t] = t
        BY <3>2, ArrivesStep DEF NewRank
      <4> QED
        BY <4>1, <4>2, <4>3, TaskAssumption, SMTT(30)
    <3> QED
      BY <3>1, <3>2 DEF TypeOK, Capabilities
  <2>4. CASE ~Shared(x, v, a)
    BY <1>4, <1>6, <2>3, <2>4
  <2>5. CASE Shared(x, v, a)
    <3>1. PICK w \in blocked[a] : rank[w] < rank[x] /\ ~Shared(w, v, a)
      BY <2>1, <2>5 DEF Queues, WriterBetween
    <3>2. rank'[w] \in Nat /\ rank'[x] \in Nat /\ rank'[t] \in Nat
      BY <1>4 DEF Tallied
    <3> QED
      BY <1>4, <1>6, <2>3, <3>1, <3>2, SMTT(30)
  <2> QED
    BY <2>4, <2>5
<1>7. CASE u # t /\ v # t
  <2>1. v \in current[a] \ Reblocked(t, a)
    BY <1>1, <1>7, ArrivesStep
  <2>2. CASE u \in blocked[a]
    <3>1. PICK w \in blocked[a] : rank[w] < rank[u] /\ ~Shared(w, v, a)
      BY <1>1, <2>1, <2>2 DEF Queues, WriterBetween
    <3> QED
      BY <1>4, <2>2, <3>1
  <2>3. CASE u \in Reblocked(t, a)
    <3>1. /\ capability = "PriorityQueueing" /\ ~Shared(t, u, a) /\ t < rank[u]
          /\ a \in Locked(t)
      BY <1>2, <2>3, ReblockedFacts
    <3>2. ~Shared(t, v, a)
      BY <1>1, <3>1 DEF Shared
    <3>3. t \in blocked'[a]
      BY <2>1, <3>1, <3>2, ArrivesStep DEF Locks
    <3>4. rank'[t] = t /\ rank'[u] = rank[u]
      BY <1>1, <1>7, <3>1, ArrivesStep, SMTT(30) DEF NewRank
    <3> QED
      BY <3>1, <3>2, <3>3, <3>4
  <2> QED
    BY <1>1, <1>7, <2>2, <2>3, ArrivesStep
<1> QED
  BY <1>5, <1>6, <1>7

-----------------------------------------------------------------------------
(* A task finishes *)

\* The tasks that get an address of t's were blocked there, and share it.
LEMMA PoppedFacts ==
    ASSUME TypeOK, Queues, NEW t \in Task, state[t] = "running", NEW a \in Addr
    PROVE  /\ t \notin blocked[a]
           /\ \A u \in Popped(t, a) : u \in blocked[a] /\ u \in Task \ {t} /\ current[a] = {t}
           /\ \A u, v \in Popped(t, a) : u # v => Shared(u, v, a)
<1>1. t \notin blocked[a]
  <2>1. At(t) = {}
    BY CountFacts DEF Queues
  <2> QED
    BY <2>1 DEF At
<1>2. \A u \in Popped(t, a) : u \in blocked[a] /\ u \in Task \ {t} /\ current[a] = {t}
  BY <1>1 DEF Popped, TypeOK
<1>3. ASSUME NEW u \in Popped(t, a), NEW v \in Popped(t, a), u # v PROVE Shared(u, v, a)
  <2>1. u \in Task /\ v \in Task /\ u \in blocked[a] /\ v \in blocked[a]
    BY <1>2
  <2>2. rank[u] # rank[v] /\ rank[u] \in Nat /\ rank[v] \in Nat
    BY <1>3, <2>1 DEF Queues, Placed, Ranked, Arrived, Active, TypeOK
  <2>3. rank[u] < rank[v] => Shared(u, v, a)
    BY <2>1 DEF Popped
  <2>4. rank[v] < rank[u] => Shared(v, u, a)
    BY <2>1 DEF Popped
  <2> QED
    BY <2>2, <2>3, <2>4, SMTT(30) DEF Shared
<1> QED
  BY <1>1, <1>2, <1>3

\* What the queues and the counts are once t has finished.
LEMMA FinishStep ==
    ASSUME TypeOK, Queues, NEW t \in Task, deschedule_task(t)
    PROVE  /\ current' \in [Addr -> SUBSET Task] /\ blocked' \in [Addr -> SUBSET Task]
           /\ \A a \in Addr, u \in Task :
                 /\ u \in current'[a] <=> (u \in current[a] /\ u # t) \/ u \in Popped(t, a)
                 /\ u \in blocked'[a] <=> u \in blocked[a] /\ u \notin Popped(t, a)
           /\ \A u, v \in Task, a \in Addr : Shared(u, v, a)' <=> Shared(u, v, a)
           /\ \A u \in Task : Locked(u)' = Locked(u)
           /\ rank' = rank /\ capability' = capability
<1>1. state[t] = "running" /\ unlock_usage_queues(t)
  BY DEF deschedule_task
<1>2. \A u, v \in Task, a \in Addr : Shared(u, v, a)' <=> Shared(u, v, a)
  BY DEF deschedule_task, Shared
<1>3. \A u \in Task : Locked(u)' = Locked(u)
  BY DEF deschedule_task, Locked
<1>4. \A a \in Addr : Popped(t, a) \in SUBSET Task
  BY <1>1, PoppedFacts
<1>5. current' \in [Addr -> SUBSET Task] /\ blocked' \in [Addr -> SUBSET Task]
  BY <1>1, <1>4 DEF unlock_usage_queues, TypeOK
<1>6. \A a \in Addr, u \in Task :
         /\ u \in current'[a] <=> (u \in current[a] /\ u # t) \/ u \in Popped(t, a)
         /\ u \in blocked'[a] <=> u \in blocked[a] /\ u \notin Popped(t, a)
  BY <1>1 DEF unlock_usage_queues
<1> QED
  BY <1>2, <1>3, <1>5, <1>6 DEF deschedule_task

\* The states after t has finished.
LEMMA FinishStates ==
    ASSUME TypeOK, Queues, NEW t \in Task, deschedule_task(t)
    PROVE  /\ state' \in [Task -> States] /\ state'[t] = "done" /\ t \notin Unblocks(t)
           /\ \A u \in Task \ {t} :
                 state'[u] = IF u \in Unblocks(t) THEN "unblocked" ELSE state[u]
           /\ Arrived' = Arrived
           /\ \A u \in Task : u \in Active' <=> u \in Active /\ u # t
           /\ \A u \in Unblocks(t) : state[u] = "blocked"
<1>1. state[t] = "running"
  BY DEF deschedule_task
<1>2. \A u \in Unblocks(t) : u \in Task /\ state[u] = "blocked"
  <2>1. \A u \in Unblocks(t) : u \in Task /\ At(u) # {}
    BY <1>1, PoppedFacts DEF Unblocks, PoppedAt, At
  <2> QED
    BY <2>1, CountFacts DEF Queues
<1>3. state' \in [Task -> States] /\ state'[t] = "done"
  BY DEF deschedule_task, TypeOK, States
<1>4. \A u \in Task \ {t} : state'[u] = IF u \in Unblocks(t) THEN "unblocked" ELSE state[u]
  BY DEF deschedule_task
<1>5. Arrived' = Arrived
  BY <1>1, <1>2, <1>3, <1>4 DEF Arrived
<1>6. \A u \in Task : u \in Active' <=> u \in Active /\ u # t
  BY <1>2, <1>3, <1>4 DEF Active
<1> QED
  BY <1>1, <1>2, <1>3, <1>4, <1>5, <1>6

\* A finished task is in no queue; one it unblocks holds what it awaited.
LEMMA FinishPlaced ==
    ASSUME TypeOK, Queues, NEW t \in Task, deschedule_task(t)
    PROVE  Placed' /\ Ranked'
<1>1. state[t] = "running"
  BY DEF deschedule_task
<1>2. ASSUME NEW a \in Addr, NEW u \in current'[a] \cup blocked'[a]
      PROVE  u \in Active' /\ a \in Locked(u)'
  <2>1. u \in Task
    BY FinishStep
  <2>2. u \in current[a] \cup blocked[a] /\ u # t
    BY <1>1, <2>1, FinishStep, PoppedFacts
  <2> QED
    BY SMTT(60), <2>1, <2>2, FinishStep, FinishStates DEF Queues, Placed
<1>3. ASSUME NEW a \in Addr, NEW u \in current'[a] \cap blocked'[a] PROVE FALSE
  <2>1. u \in Task
    BY FinishStep
  <2> QED
    BY <1>3, <2>1, FinishStep DEF Queues, Placed
<1>4. ASSUME NEW u \in Active', NEW a \in Locked(u)' PROVE u \in current'[a] \cup blocked'[a]
  <2>1. u \in Task
    BY DEF Active
  <2>2. a \in Addr /\ a \in Locked(u) /\ u \in Active /\ u # t
    BY <2>1, FinishStep, FinishStates, SMTT(30) DEF Locked
  <2> QED
    BY <2>1, <2>2, FinishStep DEF Queues, Placed
<1>5. Placed'
  BY <1>2, <1>3, <1>4 DEF Placed
<1>6. Ranked'
  <2>1. Arrived' = Arrived /\ rank' = rank /\ capability' = capability
    BY FinishStep, FinishStates
  <2> QED
    BY <2>1 DEF Queues, Ranked
<1> QED
  BY <1>5, <1>6

\* What is granted next is the first in the queue: the orders are kept.
LEMMA FinishOrder ==
    ASSUME TypeOK, Queues, NEW t \in Task, deschedule_task(t), NEW a \in Addr,
           \A x \in Task : count[x] = 0 => count'[x] = 0,
           NEW u \in blocked'[a], NEW v \in current'[a]
    PROVE  /\ Shared(u, v, a) => \E w \in blocked'[a] : rank[w] < rank[u] /\ ~Shared(w, v, a)
           /\ ~Shared(u, v, a) /\ rank[u] < rank[v] => count'[v] = 0
           /\ capability = "FifoQueueing" => rank[v] < rank[u]
<1>1. u \in Task /\ v \in Task /\ u \in blocked[a] /\ u \notin Popped(t, a)
  BY FinishStep
<1>2. state[t] = "running"
  BY DEF deschedule_task
<1>3. CASE v \in current[a] /\ v # t
  <2>1. Popped(t, a) = {}
    BY <1>2, <1>3, PoppedFacts, SMTT(30)
  <2>2. \A w \in Task : w \in blocked[a] => w \in blocked'[a]
    BY <2>1, FinishStep
  <2>3. count[v] = 0 => count'[v] = 0
    BY <1>1
  <2> QED
    BY <1>1, <1>3, <2>2, <2>3 DEF Queues, WriterBetween, NoInversion, FifoOrder, TypeOK
<1>4. CASE v \in Popped(t, a)
  <2>1. /\ v \in blocked[a] /\ a \in Locked(t) /\ current[a] = {t}
        /\ \A w \in blocked[a] : rank[w] < rank[v] => Shared(w, v, a)
    BY <1>4 DEF Popped
  <2>2. PICK w \in blocked[a] : rank[w] < rank[u] /\ ~Shared(w, u, a)
    BY <1>1, <2>1 DEF Popped
  <2>3. u # v /\ w \in Task
    BY <1>1, <1>4, <2>2 DEF TypeOK
  <2>4. rank[u] # rank[v] /\ rank[u] \in Nat /\ rank[v] \in Nat /\ rank[w] \in Nat
    BY <1>1, <2>1, <2>3 DEF Queues, Placed, Ranked, Arrived, Active, TypeOK
  <2>5. rank[v] < rank[u]
    <3>1. ASSUME rank[u] < rank[v] PROVE FALSE
      <4>1. Shared(u, v, a) /\ Shared(w, v, a)
        BY <1>1, <2>1, <2>2, <2>4, <3>1, SMTT(30)
      <4> QED
        BY <2>2, <4>1 DEF Shared
    <3> QED
      BY <2>4, <3>1, SMTT(30)
  <2>6. ASSUME Shared(u, v, a) PROVE w \in blocked'[a] /\ ~Shared(w, v, a)
    <3>1. ~Shared(w, v, a)
      BY <2>2, <2>6 DEF Shared
    <3>2. w # v
      BY <2>2, <2>6 DEF Shared
    <3>3. w \notin Popped(t, a)
      BY <1>2, <1>4, <3>1, <3>2, PoppedFacts
    <3> QED
      BY <2>2, <2>3, <3>1, <3>3, FinishStep
  <2> QED
    BY <2>2, <2>4, <2>5, <2>6, SMTT(30)
<1> QED
  BY <1>1, <1>3, <1>4, FinishStep

-----------------------------------------------------------------------------
(* Sets and ranks *)

\* Two disjoint finite sets: the cardinality of the union is the sum.
LEMMA CardinalityDisjointUnion ==
    ASSUME NEW S, NEW T, IsFiniteSet(S), IsFiniteSet(T), S \cap T = {}
    PROVE  Cardinality(S \cup T) = Cardinality(S) + Cardinality(T)
<1>1. Cardinality(S \cup T) = Cardinality(S) + Cardinality(T) - Cardinality(S \cap T)
  BY FS_Union
<1>2. Cardinality(S \cap T) = 0
  BY FS_EmptySet
<1>3. Cardinality(S) \in Nat /\ Cardinality(T) \in Nat
  BY FS_CardinalityType
<1> QED
  BY <1>1, <1>2, <1>3, SMTT(30)

\* Sets of addresses are finite; only the empty one has cardinality zero.
LEMMA AddrSets ==
    ASSUME NEW S \in SUBSET Addr
    PROVE  /\ IsFiniteSet(S) /\ Cardinality(S) \in Nat
           /\ Cardinality(S) = 0 <=> S = {}
<1>1. IsFiniteSet(S)
  BY AddrAssumption, FS_Subset
<1> QED
  BY <1>1, FS_CardinalityType, FS_EmptySet

\* A set of tasks has one of the smallest rank.
LEMMA SmallestRank ==
    ASSUME TypeOK, NEW S \in SUBSET Task, S # {}
    PROVE  \E u \in S : \A v \in S : rank[u] <= rank[v]
<1> DEFINE R == {rank[u] : u \in S}
           Less == {ss \in Nat \X Nat : ss[1] < ss[2]}
<1>1. R \subseteq Nat /\ R # {}
  BY DEF TypeOK
<1>2. IsWellFoundedOn(Less, Nat)
  BY NatLessThanWellFounded DEF OpToRel
<1>3. PICK m \in R : \A n \in R : ~(<<n, m>> \in Less)
  <2> HIDE DEF R, Less
  <2> QED
    BY <1>1, <1>2, WFMin
<1>4. ASSUME NEW n \in R PROVE m <= n
  <2>1. n \in Nat /\ m \in Nat
    BY <1>1
  <2>2. n < m => <<n, m>> \in Less
    BY <2>1
  <2> HIDE DEF R, Less
  <2> QED
    BY <1>3, <2>1, <2>2, SMTT(30)
<1>5. PICK u \in S : rank[u] = m
  OBVIOUS
<1> QED
  BY <1>4, <1>5

-----------------------------------------------------------------------------
(* Nothing is left over, and somebody can run *)

\* The assertions of the usage queues follow from the invariant.
LEMMA IInvQueueAsserts == IInv => QueueAsserts
<1> SUFFICES ASSUME IInv PROVE QueueAsserts
  OBVIOUS
<1>1. ASSUME Active = {}
      PROVE  unblocked = <<>> /\ \A a \in Addr : current[a] = {} /\ blocked[a] = {}
  <2>1. unblocked \in Seq(Task)
    BY DEF IInv, TypeOK
  <2>2. ASSUME Len(unblocked) # 0 PROVE FALSE
    <3>1. 1 \in 1..Len(unblocked) /\ unblocked[1] \in Task
      BY <2>1, <2>2, SMTT(30)
    <3> QED
      BY <1>1, <3>1 DEF IInv, Queued, Active
  <2>3. unblocked = <<>>
    BY <2>1, <2>2, SMTT(30)
  <2>4. \A a \in Addr : current[a] = {} /\ blocked[a] = {}
    BY <1>1 DEF IInv, Queues, Placed
  <2> QED
    BY <2>3, <2>4
<1> QED
  BY <1>1 DEF IInv, Queues, NonEmpty, WriterBetween, QueueAsserts, has_no_active_task

\* The first of the active tasks, by rank, is not blocked by one that is
\* blocked itself.
LEMMA IInvNoDeadlock == IInv => NoDeadlock
<1> SUFFICES ASSUME IInv, Active # {}, Runnable = {} PROVE FALSE
  BY DEF NoDeadlock
<1>1. Active \in SUBSET Task /\ TypeOK /\ Queues
  BY DEF Active, IInv
<1>2. PICK u \in Active : \A v \in Active : rank[u] <= rank[v]
  BY <1>1, SmallestRank
<1>3. \A v \in Active : state[v] = "blocked"
  BY DEF Active, Runnable
<1>4. \A v \in Active : count[v] # 0 /\ At(v) # {}
  BY <1>1, <1>3, CountFacts DEF Queues
<1>5. PICK a \in Addr : u \in blocked[a]
  BY <1>4 DEF At
<1>6. PICK v \in current[a] : TRUE
  BY <1>1, <1>5 DEF Queues, NonEmpty
<1>7. v \in Active /\ u # v
  BY <1>1, <1>5, <1>6, SMTT(30) DEF Queues, Placed
<1>8. rank[u] < rank[v] /\ rank[u] \in Nat /\ rank[v] \in Nat
  <2>1. u \in Arrived /\ v \in Arrived
    BY <1>7 DEF Active, Arrived
  <2>2. rank[u] # rank[v] /\ rank[u] <= rank[v]
    BY <1>1, <1>2, <1>7, <2>1 DEF Queues, Ranked
  <2>3. rank[u] \in Nat /\ rank[v] \in Nat
    BY <1>1, <1>7 DEF TypeOK
  <2> QED
    BY <2>2, <2>3, SMTT(30)
<1>9. CASE Shared(u, v, a)
  <2>1. PICK w \in blocked[a] : rank[w] < rank[u]
    BY <1>1, <1>5, <1>6, <1>9 DEF Queues, WriterBetween
  <2>2. w \in Active /\ w \in Task
    BY <1>1, <1>5, <2>1 DEF Queues, Placed
  <2>3. rank[u] <= rank[w] /\ rank[w] \in Nat
    BY <1>1, <1>2, <2>2 DEF TypeOK
  <2> QED
    BY <1>8, <2>1, <2>3, SMTT(30)
<1>10. CASE ~Shared(u, v, a)
  BY <1>1, <1>4, <1>5, <1>6, <1>7, <1>8, <1>10 DEF Queues, NoInversion
<1> QED
  BY <1>9, <1>10

-----------------------------------------------------------------------------
(* Ranks and counts *)

\* The rank of a new task is used by no other task.
LEMMA ArrivesRanked ==
    ASSUME TypeOK, Queues, NEW t \in Task, Arrives(t)
    PROVE  /\ rank' \in [Task -> Nat] /\ Ranked'
           /\ capability = "FifoQueueing" => \A u \in Arrived : rank'[u] < rank'[t]
<1>1. Arrived' = Arrived \cup {t} /\ t \notin Arrived
  <2>1. \A u \in Task : state'[u] # "new" <=> u = t \/ state[u] # "new"
    BY DEF Arrives, TypeOK
  <2> QED
    BY <2>1 DEF Arrived, Arrives
<1>2. IsFiniteSet(Arrived)
  BY TaskAssumption, FS_Subset DEF Arrived
<1>3. Cardinality(Arrived') = Cardinality(Arrived) + 1 /\ Cardinality(Arrived) \in Nat
  BY <1>1, <1>2, FS_AddElement, FS_CardinalityType
<1>4. NewRank(t) \in Nat /\ rank' \in [Task -> Nat]
  <2>1. NewRank(t) \in Nat
    BY <1>3, TaskAssumption, SMTT(30) DEF NewRank, Arrived
  <2> QED
    BY <2>1 DEF Arrives, try_lock_usage_queues, TypeOK
<1>5. \A u \in Arrived : rank'[u] = rank[u] /\ rank[u] \in Nat
  BY <1>1, ArrivesStep, SMTT(30) DEF Arrived, TypeOK
<1>6. capability' = capability
  BY DEF Arrives
<1>7. CASE capability = "FifoQueueing"
  <2>1. rank'[t] = Cardinality(Arrived) + 1
    BY <1>7, ArrivesStep DEF NewRank, Arrived
  <2>2. \A u \in Arrived : rank'[u] < rank'[t]
    BY <1>3, <1>5, <1>7, <2>1, SMTT(30) DEF Queues, Ranked
  <2>3. \A u \in Arrived' : rank'[u] <= Cardinality(Arrived')
    BY <1>1, <1>3, <1>5, <1>7, <2>1, SMTT(30) DEF Queues, Ranked
  <2>4. ASSUME NEW u \in Arrived', NEW v \in Arrived', u # v PROVE rank'[u] # rank'[v]
    <3>1. rank'[t] \in Nat
      BY <1>4
    <3> QED
      BY <1>1, <1>5, <2>2, <2>4, <3>1, SMTT(30) DEF Queues, Ranked
  <2> QED
    BY <1>4, <1>6, <1>7, <2>2, <2>3, <2>4 DEF Ranked
<1>8. CASE capability = "PriorityQueueing"
  <2>1. rank'[t] = t
    BY <1>8, ArrivesStep DEF NewRank
  <2>2. \A u \in Arrived' : rank'[u] = u
    BY <1>1, <1>5, <1>8, <2>1 DEF Queues, Ranked
  <2> QED
    BY <1>4, <1>6, <1>8, <2>2 DEF Ranked
<1> QED
  BY <1>7, <1>8 DEF TypeOK, Capabilities

\* The counts of the tasks that t takes addresses from grow by as many, and
\* no other task's does.
LEMMA ArrivesCounted ==
    ASSUME TypeOK, Queues, NEW t \in Task, Arrives(t)
    PROVE  /\ Counted' /\ count' \in [Task -> Nat]
           /\ \A u \in Task \ {t} : count[u] = 0 => count'[u] = 0
<1>1. At(t)' = BlockedAt(t)
  BY ArrivesStep DEF At, BlockedAt, Locked
<1>2. count'[t] = Cardinality(At(t)')
  BY <1>1 DEF Arrives, try_lock_usage_queues
<1>3. ASSUME NEW u \in Task \ {t}
      PROVE  /\ count'[u] = Cardinality(At(u)')
             /\ count[u] = 0 => count'[u] = 0
             /\ count[u] # 0 => count'[u] # 0
  <2> DEFINE R == {a \in Addr : u \in Reblocked(t, a)}
  <2>1. At(u)' = At(u) \cup R
    BY ArrivesStep DEF At
  <2>2. At(u) \cap R = {}
    BY ReblockedFacts DEF At, Queues, Placed, Arrives
  <2>3. /\ IsFiniteSet(At(u)) /\ IsFiniteSet(R) /\ Cardinality(R) \in Nat
        /\ R = {} => Cardinality(R) = 0
    <3>1. At(u) \in SUBSET Addr /\ R \in SUBSET Addr
      BY DEF At
    <3> QED
      BY <3>1, AddrSets
  <2>4. count'[u] = count[u] + Cardinality(R)
    BY DEF Arrives, try_lock_usage_queues
  <2>5. count[u] = Cardinality(At(u)) /\ count[u] \in Nat
    BY DEF Queues, Counted, TypeOK
  <2>6. count[u] = 0 => R = {}
    BY ReblockedFacts, SMTT(30) DEF Arrives
  <2> HIDE DEF R
  <2>7. Cardinality(At(u) \cup R) = Cardinality(At(u)) + Cardinality(R)
    BY <2>2, <2>3, CardinalityDisjointUnion
  <2> QED
    BY SMTT(30), <2>1, <2>3, <2>4, <2>5, <2>6, <2>7
<1>4. ASSUME NEW u \in Task
      PROVE  /\ count'[u] = Cardinality(At(u)') /\ count'[u] \in Nat
             /\ count'[u] # 0 <=> At(u)' # {}
  <2>1. count'[u] = Cardinality(At(u)')
    BY <1>2, <1>3
  <2>2. At(u)' \in SUBSET Addr
    BY DEF At
  <2> QED
    BY <2>1, <2>2, AddrSets
<1>5. count'[t] # 0 <=> state'[t] = "blocked"
  <2>1. state'[t] = "blocked" <=> BlockedAt(t) # {}
    BY DEF Arrives, TypeOK
  <2> QED
    BY <1>1, <1>4, <2>1
<1>6. \A u \in Task \ {t} : count'[u] # 0 <=> state'[u] = "blocked"
  BY <1>3, ArrivesStep, CountFacts, SMTT(30) DEF Queues
<1>7. count' \in [Task -> Nat]
  BY <1>4 DEF Arrives, try_lock_usage_queues
<1> QED
  BY <1>3, <1>4, <1>5, <1>6, <1>7 DEF Counted

\* All that the usage queues and the counts keep, when a task arrives.
LEMMA ArrivesQueues ==
    ASSUME TypeOK, Queues, NEW t \in Task, Arrives(t)
    PROVE  Queues'
<1>1. Tallied(t) /\ Counted' /\ Ranked'
  BY ArrivesRanked, ArrivesCounted DEF Tallied
<1> QED
  BY <1>1, ArrivesCompatible, ArrivesPlaced, ArrivesFifoOrder, ArrivesNoInversion,
     ArrivesWriterBetween DEF Queues

\* Each task's count falls by the addresses it gets, and the tasks that are
\* unblocked are the blocked ones that get the last they waited for.
LEMMA FinishCounts ==
    ASSUME TypeOK, Queues, NEW t \in Task, deschedule_task(t), NEW u \in Task
    PROVE  /\ count'[u] = Cardinality(At(u)') /\ count'[u] \in Nat
           /\ count'[u] # 0 <=> At(u)' # {}
           /\ count[u] = 0 => count'[u] = 0
           /\ u \in Unblocks(t) => state[u] = "blocked" /\ count'[u] = 0
           /\ u \notin Unblocks(t) /\ count[u] # 0 => count'[u] # 0
<1> DEFINE P == PoppedAt(t, u)
<1>1. state[t] = "running"
  BY DEF deschedule_task
<1>2. At(u)' = At(u) \ P
  BY FinishStep DEF At, PoppedAt
<1>3. P \subseteq At(u)
  BY <1>1, PoppedFacts DEF PoppedAt, At
<1>4. P \in SUBSET Addr /\ At(u) \in SUBSET Addr
  BY DEF PoppedAt, At
<1>5. count'[u] = count[u] - Cardinality(P)
  BY DEF deschedule_task, unlock_usage_queues
<1>6. count[u] = Cardinality(At(u)) /\ count[u] \in Nat
  BY DEF Queues, Counted, TypeOK
<1>7. u \in Unblocks(t) <=> P # {} /\ count[u] = Cardinality(P)
  BY DEF Unblocks
<1>8. count[u] # 0 <=> At(u) # {}
  BY CountFacts DEF Queues
<1>9. count[u] # 0 <=> state[u] = "blocked"
  BY CountFacts DEF Queues
<1> HIDE DEF P
<1>10. /\ IsFiniteSet(P) /\ Cardinality(P) \in Nat /\ (Cardinality(P) = 0 <=> P = {})
       /\ IsFiniteSet(At(u))
  BY <1>4, AddrSets
<1>11. Cardinality(At(u) \ P) = Cardinality(At(u)) - Cardinality(P)
  <2>1. Cardinality(At(u) \ P) = Cardinality(At(u)) - Cardinality(At(u) \cap P)
    BY <1>10, FS_Difference
  <2>2. At(u) \cap P = P
    BY <1>3
  <2> QED
    BY <2>1, <2>2
<1>12. Cardinality(At(u) \ P) \in Nat
  BY <1>4, AddrSets
<1>13. Cardinality(At(u) \ P) = 0 <=> At(u) \ P = {}
  BY <1>4, AddrSets
<1> QED
  BY SMTT(60), <1>2, <1>3, <1>5, <1>6, <1>7, <1>8, <1>9, <1>10, <1>11, <1>12, <1>13

\* All that the usage queues and the counts keep, when a task is done.
LEMMA FinishQueues ==
    ASSUME TypeOK, Queues, NEW t \in Task, deschedule_task(t)
    PROVE  Queues'
<1>1. state[t] = "running"
  BY DEF deschedule_task
<1>2. ASSUME NEW a \in Addr, NEW u \in current'[a], NEW v \in current'[a], u # v
      PROVE  Shared(u, v, a)'
  <2>1. u \in Task /\ v \in Task
    BY FinishStep
  <2>2. Popped(t, a) # {} => current[a] = {t}
    BY <1>1, PoppedFacts
  <2>3. (u \in Popped(t, a) /\ v \in Popped(t, a)) \/ (u \in current[a] /\ v \in current[a])
    BY <2>1, <2>2, FinishStep
  <2>4. Shared(u, v, a)
    BY <1>1, <1>2, <2>3, PoppedFacts DEF Queues, Compatible
  <2> QED
    BY <2>1, <2>4, FinishStep
<1>3. ASSUME NEW a \in Addr, current'[a] = {}, NEW u \in blocked'[a] PROVE FALSE
  <2>1. u \in Task /\ u \in blocked[a]
    BY FinishStep
  <2>2. current[a] # {} /\ current[a] \in SUBSET Task /\ blocked[a] \in SUBSET Task
    BY <2>1 DEF Queues, NonEmpty, TypeOK
  <2>3. \A v \in Task : v \notin Popped(t, a) /\ (v \in current[a] => v = t)
    BY <1>3, FinishStep
  <2>4. current[a] = {t} /\ a \in Locked(t)
    BY <2>2, <2>3, SMTT(30) DEF Queues, Placed
  <2>5. PICK x \in blocked[a] : \A w \in blocked[a] : rank[x] <= rank[w]
    BY <2>1, <2>2, SmallestRank
  <2>6. \A w \in blocked[a] : ~(rank[w] < rank[x])
    BY <2>2, <2>5, SMTT(30) DEF TypeOK
  <2>7. x \in Popped(t, a)
    BY <2>4, <2>5, <2>6 DEF Popped
  <2> QED
    BY <2>2, <2>3, <2>5, <2>7
<1>4. Counted'
  <2>1. ASSUME NEW u \in Task
        PROVE  /\ count'[u] = Cardinality(At(u)')
               /\ count'[u] # 0 <=> At(u)' # {}
               /\ count'[u] # 0 <=> state'[u] = "blocked"
    <3>1. /\ count[u] # 0 <=> state[u] = "blocked"
          /\ state[t] = "running"
      BY CountFacts DEF Queues, deschedule_task
    <3>2. /\ count'[u] = Cardinality(At(u)') /\ (count'[u] # 0 <=> At(u)' # {})
          /\ count[u] = 0 => count'[u] = 0
          /\ u \in Unblocks(t) => count'[u] = 0
          /\ u \notin Unblocks(t) /\ count[u] # 0 => count'[u] # 0
      BY FinishCounts
    <3>3. CASE u = t
      BY <3>1, <3>2, <3>3, FinishStates
    <3>4. CASE u # t
      <4>1. state'[u] = IF u \in Unblocks(t) THEN "unblocked" ELSE state[u]
        BY <3>4, FinishStates
      <4> QED
        BY <3>1, <3>2, <4>1
    <3> QED
      BY <3>3, <3>4
  <2> QED
    BY <2>1 DEF Counted
<1>5. WriterBetween' /\ NoInversion' /\ FifoOrder'
  <2>1. \A a \in Addr : current'[a] \in SUBSET Task /\ blocked'[a] \in SUBSET Task
    BY FinishStep
  <2>2. \A u, v \in Task, a \in Addr : Shared(u, v, a)' <=> Shared(u, v, a)
    BY FinishStep
  <2>3. rank' = rank /\ capability' = capability
    BY FinishStep
  <2>4. \A x \in Task : count[x] = 0 => count'[x] = 0
    BY FinishCounts
  <2>5. WriterBetween'
    BY <2>1, <2>2, <2>3, <2>4, FinishOrder DEF WriterBetween
  <2>6. NoInversion'
    BY <2>1, <2>2, <2>3, <2>4, FinishOrder DEF NoInversion
  <2>7. FifoOrder'
    BY <2>1, <2>3, <2>4, FinishOrder DEF FifoOrder
  <2> QED
    BY <2>5, <2>6, <2>7
<1> QED
  BY <1>2, <1>3, <1>4, <1>5, FinishPlaced DEF Queues, Compatible, NonEmpty

-----------------------------------------------------------------------------
(* The queue of unblocked tasks and the order of arrival *)

\* Appending different tasks that are not in the queue leaves each in it once.
LEMMA QueuedConcat ==
    ASSUME unblocked \in Seq(Task), NEW s \in Seq(Task), unblocked' = unblocked \o s,
           \A i, j \in 1..Len(unblocked) : i # j => unblocked[i] # unblocked[j],
           \A i \in 1..Len(unblocked) : state'[unblocked[i]] = "unblocked",
           \A i, j \in 1..Len(s) : i # j => s[i] # s[j],
           \A i \in 1..Len(s) : state'[s[i]] = "unblocked",
           \A i \in 1..Len(unblocked), j \in 1..Len(s) : unblocked[i] # s[j]
    PROVE  Queued' /\ unblocked' \in Seq(Task)
<1>1. /\ unblocked' \in Seq(Task) /\ Len(unblocked') = Len(unblocked) + Len(s)
      /\ \A i \in 1..Len(unblocked') :
            unblocked'[i] = IF i <= Len(unblocked) THEN unblocked[i] ELSE s[i - Len(unblocked)]
  BY SMTT(30)
<1>2. Len(unblocked) \in Nat /\ Len(s) \in Nat
  BY SMTT(30)
<1>3. ASSUME NEW i \in 1..Len(unblocked')
      PROVE  \/ i \in 1..Len(unblocked) /\ unblocked'[i] = unblocked[i]
             \/ i - Len(unblocked) \in 1..Len(s) /\ unblocked'[i] = s[i - Len(unblocked)]
  BY <1>1, <1>2, SMTT(30)
<1>4. \A i \in 1..Len(unblocked') : state'[unblocked'[i]] = "unblocked"
  BY <1>3, SMTT(30)
<1>5. ASSUME NEW i \in 1..Len(unblocked'), NEW j \in 1..Len(unblocked'), i # j
      PROVE  unblocked'[i] # unblocked'[j]
  <2>1. i \in Int /\ j \in Int /\ i - Len(unblocked) # j - Len(unblocked)
    BY <1>1, <1>2, <1>5, SMTT(30)
  <2> QED
    BY <1>3, <1>5, <2>1, SMTT(30)
<1> QED
  BY <1>1, <1>4, <1>5 DEF Queued

\* The arrival of a task keeps the invariant.
LEMMA ArrivesIInv ==
    ASSUME IInv, NEW t \in Task, NEW force_buffering \in BOOLEAN,
           schedule_or_buffer_task(t, force_buffering)
    PROVE  IInv'
<1>1. Arrives(t)
  BY DEF schedule_or_buffer_task, Arrives
<1>2. TypeOK /\ Queues /\ unblocked \in Seq(Task)
  BY DEF IInv, TypeOK
<1>3. Queues'
  BY <1>1, <1>2, ArrivesQueues
<1>4. \A i \in 1..Len(unblocked) : /\ unblocked[i] \in Task \ {t}
                                   /\ state'[unblocked[i]] = "unblocked"
  <2>1. \A i \in 1..Len(unblocked) : unblocked[i] \in Task
    BY <1>2, SMTT(30)
  <2> QED
    BY <1>1, <1>2, <2>1, ArrivesStep DEF IInv, Queued, Arrives
<1>5. Queued' /\ unblocked' \in Seq(Task)
  <2>1. CASE UNCHANGED unblocked
    BY <1>2, <1>4, <2>1 DEF IInv, Queued
  <2>2. CASE unblocked' = Append(unblocked, t) /\ state'[t] = "unblocked"
    <3>1. unblocked' = unblocked \o <<t>> /\ <<t>> \in Seq(Task)
      BY <1>2, <2>2, SMTT(30)
    <3>2. \A i \in 1..Len(<<t>>) : <<t>>[i] = t /\ i = 1
      BY SMTT(30)
    <3> QED
      BY SMTT(30), <1>2, <1>4, <2>2, <3>1, <3>2, QueuedConcat DEF IInv, Queued
  <2> QED
    BY <1>2, <2>1, <2>2 DEF schedule_or_buffer_task, TypeOK
<1>6. TypeOK'
  BY <1>1, <1>2, <1>5, ArrivesStep, ArrivesRanked, ArrivesCounted DEF TypeOK, Arrives
<1>7. FirstRuns'
  BY <1>3, <1>6, RunnableIsFirst, PTL
<1>8. ASSUME capability = "FifoQueueing", NEW x \in Task, NEW y \in Task,
             Conflict(x, y)', rank'[x] < rank'[y], state'[x] # "new",
             state'[y] \in {"unblocked", "running", "done"}
      PROVE  state'[x] = "done"
  <2>1. CASE state'[y] \in {"unblocked", "running"}
    <3>1. x \in Active' \/ state'[x] = "done"
      BY <1>6, <1>8 DEF TypeOK, Active, States
    <3>2. y \in Runnable' /\ capability' = "FifoQueueing"
      BY <1>1, <1>8, <2>1 DEF Runnable, Arrives
    <3> QED
      BY <1>7, <1>8, <3>1, <3>2 DEF FirstRuns
  <2>2. CASE state'[y] = "done"
    <3>1. y # t /\ state[y] = "done"
      BY <1>1, <1>2, <2>2 DEF Arrives, TypeOK
    <3>2. x # t
      <4>1. rank'[y] < rank'[t] /\ rank'[y] \in Nat /\ rank'[t] \in Nat
        BY <1>1, <1>2, <1>8, <3>1, ArrivesRanked DEF Arrived
      <4> QED
        BY <1>8, <4>1, SMTT(30)
    <3>3. Conflict(x, y) /\ rank[x] < rank[y] /\ state[x] # "new" /\ state'[x] = state[x]
      <4>1. state'[x] = state[x] /\ rank'[x] = rank[x] /\ rank'[y] = rank[y]
        BY <1>1, <1>2, <3>1, <3>2, ArrivesStep, SMTT(30)
      <4>2. Conflict(x, y)' <=> Conflict(x, y)
        BY <1>1 DEF Arrives, Conflict, Shared, Locked
      <4> QED
        BY <1>8, <4>1, <4>2
    <3> QED
      BY <1>8, <3>1, <3>3 DEF IInv, ArrivalOrder
  <2> QED
    BY <1>8, <2>1, <2>2
<1>9. ArrivalOrder'
  BY <1>1, <1>8 DEF ArrivalOrder, Arrives
<1> QED
  BY <1>3, <1>5, <1>6, <1>9 DEF IInv

\* The end of a task keeps the invariant.
LEMMA FinishIInv ==
    ASSUME IInv, NEW t \in Task, deschedule_task(t)
    PROVE  IInv'
<1>1. TypeOK /\ Queues /\ unblocked \in Seq(Task) /\ state[t] = "running"
  BY DEF IInv, TypeOK, deschedule_task
<1>2. Queues'
  BY <1>1, FinishQueues
<1>3. \A u \in Task : u \in Unblocks(t) => state[u] = "blocked"
  BY <1>1, FinishStates
<1>4. \A i \in 1..Len(unblocked) : /\ unblocked[i] \in Task /\ unblocked[i] \notin Unblocks(t)
                                   /\ state'[unblocked[i]] = "unblocked"
  <2>1. \A i \in 1..Len(unblocked) : /\ unblocked[i] \in Task
                                     /\ state[unblocked[i]] = "unblocked"
    BY <1>1, SMTT(30) DEF IInv, Queued
  <2> QED
    BY <1>1, <1>3, <2>1, FinishStates
<1>5. PICK s \in Injection(1..Cardinality(Unblocks(t)), Unblocks(t)) : unblocked' = unblocked \o s
  BY DEF deschedule_task, unlock_usage_queues
<1>6. Queued' /\ unblocked' \in Seq(Task)
  <2>1. IsFiniteSet(Unblocks(t))
    BY TaskAssumption, FS_Subset DEF Unblocks
  <2>2. PICK n \in Nat : s \in [1..n -> Unblocks(t)] /\ \A i, j \in 1..n : i # j => s[i] # s[j]
    BY <1>5, <2>1, FS_CardinalityType DEF Injection, IsInjective
  <2>3. s \in Seq(Task) /\ Len(s) = n
    BY <2>2, SMTT(30) DEF Unblocks
  <2>4. \A i \in 1..Len(s) : s[i] \in Unblocks(t) /\ state'[s[i]] = "unblocked"
    BY SMTT(60), <1>1, <2>2, <2>3, FinishStates DEF Unblocks
  <2> QED
    BY <1>1, <1>4, <1>5, <2>2, <2>3, <2>4, QueuedConcat DEF IInv, Queued
<1>7. TypeOK'
  <2>1. count' \in [Task -> Nat]
    <3>1. \A u \in Task : count'[u] \in Nat
      BY <1>1, FinishCounts
    <3> QED
      BY <3>1 DEF deschedule_task, unlock_usage_queues
  <2> QED
    BY <1>1, <1>6, <2>1, FinishStep, FinishStates DEF TypeOK, deschedule_task
<1>8. FirstRuns'
  BY <1>2, <1>7, RunnableIsFirst, PTL
<1>9. ASSUME capability = "FifoQueueing", NEW x \in Task, NEW y \in Task,
             Conflict(x, y)', rank'[x] < rank'[y], state'[x] # "new",
             state'[y] \in {"unblocked", "running", "done"}
      PROVE  state'[x] = "done"
  <2>1. CASE state'[y] \in {"unblocked", "running"}
    <3>1. x \in Active' \/ state'[x] = "done"
      BY <1>7, <1>9 DEF TypeOK, Active, States
    <3>2. y \in Runnable' /\ capability' = "FifoQueueing"
      BY <1>9, <2>1 DEF Runnable, deschedule_task
    <3> QED
      BY <1>8, <1>9, <3>1, <3>2 DEF FirstRuns
  <2>2. CASE state'[y] = "done"
    <3>1. state[y] \in {"running", "done"}
      BY <1>1, <2>2, FinishStates
    <3>2. Conflict(x, y) /\ rank[x] < rank[y] /\ state[x] # "new"
      <4>1. state[x] # "new"
        BY <1>1, <1>3, <1>9, FinishStates
      <4> QED
        BY <1>9, <4>1 DEF Conflict, Locked, Shared, deschedule_task
    <3>3. state[x] = "done"
      BY <1>9, <3>1, <3>2 DEF IInv, ArrivalOrder
    <3> QED
      BY <1>1, <1>3, <3>3, FinishStates
  <2> QED
    BY <1>9, <2>1, <2>2
<1>10. ArrivalOrder'
  BY <1>9 DEF ArrivalOrder, deschedule_task
<1> QED
  BY <1>2, <1>6, <1>7, <1>10 DEF IInv

\* Taking a task from the queue of unblocked ones keeps the invariant.
LEMMA NextTaskIInv ==
    ASSUME IInv, schedule_next_unblocked_task
    PROVE  IInv'
<1> DEFINE h == Head(unblocked)
<1>1. TypeOK /\ Queues /\ unblocked \in Seq(Task) /\ unblocked # <<>>
  BY DEF IInv, TypeOK, schedule_next_unblocked_task, has_runnable_task, has_unblocked_task
<1>2. /\ h \in Task /\ state[h] = "unblocked" /\ Tail(unblocked) \in Seq(Task)
      /\ Len(Tail(unblocked)) = Len(unblocked) - 1 /\ Len(unblocked) \in Nat
      /\ \A i \in 1..Len(Tail(unblocked)) :
            Tail(unblocked)[i] = unblocked[i + 1] /\ Tail(unblocked)[i] # h
  <2>1. 1 \in 1..Len(unblocked) /\ h = unblocked[1] /\ Len(unblocked) \in Nat
    BY <1>1, SMTT(30)
  <2>2. /\ h \in Task /\ Tail(unblocked) \in Seq(Task)
        /\ Len(Tail(unblocked)) = Len(unblocked) - 1
        /\ \A i \in 1..Len(Tail(unblocked)) : Tail(unblocked)[i] = unblocked[i + 1]
    BY <1>1, SMTT(30)
  <2>3. \A i \in 1..Len(Tail(unblocked)) : i + 1 \in 1..Len(unblocked) /\ i + 1 # 1
    BY <2>1, <2>2, SMTT(30)
  <2> QED
    BY <2>1, <2>2, <2>3, SMTT(30) DEF IInv, Queued
<1>3. /\ state' \in [Task -> States] /\ state'[h] = "running"
      /\ \A u \in Task \ {h} : state'[u] = state[u]
      /\ unblocked' = Tail(unblocked)
      /\ UNCHANGED <<capability, usage, rank, current, blocked, count>>
  BY <1>1, <1>2 DEF schedule_next_unblocked_task, TypeOK, States
<1> HIDE DEF h
<1>4. TypeOK'
  BY <1>1, <1>2, <1>3 DEF TypeOK
<1>5. Queued'
  <2>1. \A i \in 1..Len(unblocked') : /\ i + 1 \in 1..Len(unblocked)
                                      /\ unblocked'[i] = unblocked[i + 1]
                                      /\ unblocked'[i] \in Task \ {h}
    BY <1>1, <1>2, <1>3, SMTT(30)
  <2> QED
    BY <1>3, <2>1, SMTT(30) DEF IInv, Queued
<1>6. Active' = Active /\ Runnable' = Runnable /\ Arrived' = Arrived
  BY <1>2, <1>3 DEF Active, Runnable, Arrived
<1>7. Queues'
  <2>1. \A u \in Task : At(u)' = At(u) /\ Locked(u)' = Locked(u)
    BY <1>3 DEF At, Locked
  <2>2. \A u, v \in Task, a \in Addr : Shared(u, v, a)' <=> Shared(u, v, a)
    BY <1>3 DEF Shared
  <2>3. Placed'
    BY SMTT(60), <1>1, <1>3, <1>6, <2>1 DEF Queues, Placed, Active, TypeOK
  <2>4. Counted'
    BY SMTT(60), <1>1, <1>2, <1>3, <2>1 DEF Queues, Counted
  <2>5. Ranked'
    BY <1>1, <1>3, <1>6 DEF Queues, Ranked
  <2>6. Compatible' /\ NonEmpty' /\ WriterBetween' /\ NoInversion' /\ FifoOrder'
    <3>1. Compatible' /\ NonEmpty' /\ FifoOrder'
      BY <1>1, <1>3 DEF Queues, Compatible, NonEmpty, FifoOrder, Shared
    <3>2. WriterBetween' /\ NoInversion'
      BY SMTT(60), <1>1, <1>3 DEF Queues, WriterBetween, NoInversion, Shared
    <3> QED
      BY <3>1, <3>2
  <2> QED
    BY <2>3, <2>4, <2>5, <2>6 DEF Queues
<1>8. ArrivalOrder'
  <2>1. \A x \in Task : /\ state'[x] = "new" <=> state[x] = "new"
                        /\ state'[x] = "done" <=> state[x] = "done"
                        /\ state'[x] \in {"unblocked", "running", "done"}
                              => state[x] \in {"unblocked", "running", "done"}
    BY <1>2, <1>3
  <2>2. \A x, y \in Task : Conflict(x, y)' <=> Conflict(x, y)
    BY <1>3 DEF Conflict, Locked, Shared
  <2> QED
    BY <1>3, <2>1, <2>2 DEF IInv, ArrivalOrder
<1> QED
  BY <1>4, <1>5, <1>7, <1>8 DEF IInv

\* The state machine starts with empty queues.
LEMMA InitIInv == Init => IInv
<1> SUFFICES ASSUME Init PROVE IInv
  OBVIOUS
<1>1. TypeOK
  BY SMTT(30) DEF Init, TypeOK, States, Capabilities
<1>2. Active = {} /\ Arrived = {} /\ \A u \in Task : At(u) = {}
  BY DEF Init, Active, Arrived, At
<1>3. Queues
  BY <1>2, FS_EmptySet DEF Init, Queues, Placed, Counted, Compatible, NonEmpty, WriterBetween,
     NoInversion, FifoOrder, Ranked
<1> QED
  BY <1>1, <1>3, SMTT(30) DEF Init, IInv, Queued, ArrivalOrder

\* The invariant holds in every state of the state machine.
LEMMA InductiveInvariant == Spec => []IInv
<1>1. IInv /\ [Next]_machine => IInv'
  <2> SUFFICES ASSUME IInv, [Next]_machine PROVE IInv'
    OBVIOUS
  <2>1. CASE \E t \in Task, force_buffering \in BOOLEAN :
               schedule_or_buffer_task(t, force_buffering)
    BY <2>1, ArrivesIInv
  <2>2. CASE schedule_next_unblocked_task
    BY <2>2, NextTaskIInv
  <2>3. CASE \E t \in Task : deschedule_task(t)
    BY <2>3, FinishIInv
  <2>4. CASE UNCHANGED machine
    <3>1. TypeOK'
      BY <2>4 DEF machine, IInv, TypeOK
    <3>2. Placed' /\ Counted'
      <4>1. Placed'
        BY <2>4 DEF machine, IInv, Queues, Placed, Active, Locked
      <4>2. Counted'
        BY <2>4 DEF machine, IInv, Queues, Counted, At
      <4> QED
        BY <4>1, <4>2
    <3>3. Compatible' /\ NonEmpty' /\ WriterBetween' /\ NoInversion' /\ FifoOrder'
      BY SMTT(60), <2>4 DEF machine, IInv, Queues, Compatible, NonEmpty, WriterBetween, NoInversion,
         FifoOrder, Shared
    <3>4. Ranked' /\ Queued'
      BY <2>4 DEF machine, IInv, Queues, Ranked, Queued, Arrived
    <3>5. ArrivalOrder'
      BY <2>4 DEF machine, IInv, ArrivalOrder, Conflict, Locked, Shared
    <3> QED
      BY <3>1, <3>2, <3>3, <3>4, <3>5 DEF IInv, Queues
  <2> QED
    BY <2>1, <2>2, <2>3, <2>4 DEF Next
<1> QED
  BY <1>1, InitIInv, PTL DEF Spec

-----------------------------------------------------------------------------
(* Theorems *)

\* Whatever the tasks lock and in whatever order they arrive and finish, two
\* tasks that schedule_or_buffer_task or schedule_next_unblocked_task hand out
\* at the same time do not conflict.
THEOREM RunnableExclusiveHolds == Spec => []RunnableExclusive
<1>1. IInv => RunnableExclusive
  BY IInvExclusive DEF IInv
<1> QED
  BY <1>1, InductiveInvariant, PTL

\* With FIFO queues, a task runs only once every conflicting task that arrived
\* before it has been descheduled.
THEOREM ArrivalOrderHolds == Spec => []ArrivalOrder
<1>1. IInv => ArrivalOrder
  BY DEF IInv
<1> QED
  BY <1>1, InductiveInvariant, PTL

\* The assertions of prepare_lock, push_blocked and reinitialize never fail.
THEOREM QueueAssertsHold == Spec => []QueueAsserts
BY IInvQueueAsserts, InductiveInvariant, PTL

\* Reblocking and the two kinds of queues never leave tasks that only wait
\* for each other.
THEOREM NoDeadlockHolds == Spec => []NoDeadlock
BY IInvNoDeadlock, InductiveInvariant, PTL
=============================================================================
