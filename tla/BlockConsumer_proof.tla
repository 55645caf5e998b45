------------------------- MODULE BlockConsumer_proof -------------------------
(***************************************************************************)
(* A block executed by any number of workers reads and leaves the account  *)
(* values of its serial execution, for every block, whatever the speeds of *)
(* the workers, and with time limits and panics.                           *)
(***************************************************************************)
EXTENDS BlockConsumer_workers

\* Most steps need no arithmetic: Zenon proves them unless SMT is named.
USE ZenonT(40)

-----------------------------------------------------------------------------
(* The execution of a range *)

\* What is written to an account depends on its writers only.
LEMMA WrittenSame ==
    ASSUME NEW P, NEW Q, NEW a, NEW v,
           {i \in P : a \in transactions[i].write} = {i \in Q : a \in transactions[i].write}
    PROVE  Written(P, a, v) = Written(Q, a, v)
BY DEF Written

\* A transaction that is about to execute loads what the last of the processed
\* transactions before it has left: those that write one of its accounts are
\* all committed and cached, and nothing later is.
LEMMA LoadsSerial ==
    ASSUME Counting, ConsumerInv, NEW r \in running, NEW i \in r, outcome[i] = "none",
           NEW a \in AccountsOf(i), NEW P \in SUBSET Txs,
           \A j \in P : j < i,
           \A j \in Done : j < i => (j \in P <=> outcome[j] = "processed")
    PROVE  Loaded(a) = Written(P, a, 0)
<1> USE DEF ConsumerInv
<1>1. /\ Txs \subseteq Nat /\ i \in Txs /\ a \in Accounts
      /\ \A j \in Done : j \in Txs
  BY SchedulerFacts DEF AccountsOf
<1>2. ASSUME NEW j \in Txs, a \in transactions[j].write, i # j
      PROVE  Conflict(i, j)
  BY <1>2 DEF Conflict, AccountsOf
<1>3. ASSUME NEW j \in Txs, a \in transactions[j].write
      PROVE  (j \in P <=> j \in Cached) /\ (j \in P <=> j \in Committed)
  <2>1. CASE j \in P
    <3>1. j < i /\ i # j
      BY <1>1, <2>1, SMTT(30)
    <3>2. j \in Done
      BY <1>2, <1>3, <3>1, RangeOrder
    <3> QED
      BY <2>1, <3>1, <3>2 DEF OrderInv, Cached, Committed
  <2>2. CASE j \in Cached \/ j \in Committed
    <3>1. outcome[j] = "processed" /\ i # j
      BY <2>2 DEF Cached, Committed
    <3>2. j \notin Waiting
      BY <3>1 DEF OrderInv
    <3>3. j < i
      BY <1>1, <1>2, <1>3, <3>1, <3>2, RangeOrder, SMTT(30)
    <3>4. j \in Done
      BY <1>2, <1>3, <3>1, <3>3, RangeOrder
    <3> QED
      BY <3>1, <3>3, <3>4 DEF OrderInv, Cached, Committed
  <2> QED
    BY <2>1, <2>2
<1>4. Cached \subseteq Txs /\ Committed \subseteq Txs
  BY DEF Cached, Committed
<1>5. LastOf(Cached, a, NoOverride, overrides[a]) /\ LastOf(Committed, a, 0, store[a])
  BY <1>1 DEF ValuesInv
<1>6. LastOf(P, a, 0, store[a])
  BY <1>3, <1>4, <1>5 DEF LastOf
<1>7. overrides[a] # NoOverride => LastOf(P, a, 0, overrides[a])
  BY <1>3, <1>4, <1>5 DEF LastOf
<1>8. LastOf(P, a, 0, Loaded(a))
  BY <1>6, <1>7 DEF Loaded
<1> QED
  BY <1>1, <1>8, LastIsWritten

\* The effects of an execution that met no account in use.
LEMMA ExecuteReads ==
    ASSUME Counting, ConsumerInv, NEW w \in Threads, wpc[w] = "execute",
           NEW P \in SUBSET range[w],
           outcome' = [i \in Txs |-> IF i \notin range[w] THEN outcome[i]
                                     ELSE IF i \in P THEN "processed" ELSE "unprocessed"],
           seen' = [i \in Txs |-> IF i \notin range[w] THEN seen[i]
                                  ELSE [a \in AccountsOf(i) |->
                                           Written({j \in P : j < i}, a, Loaded(a))]],
           transactions' = transactions
    PROVE  SerialReads'
<1> USE DEF ConsumerInv
<1> DEFINE Before(i) == {j \in Txs : j < i /\ outcome[j] = "processed"}
           After(i) == {j \in Txs : j < i /\ outcome'[j] = "processed"}
<1>1. Txs' = Txs /\ \A i : AccountsOf(i)' = AccountsOf(i)
  BY DEF Txs, AccountsOf
<1>2. \A i, a : Written(Before(i), a, 0)' = Written(After(i), a, 0)
  BY <1>1 DEF Written
<1>3. /\ range[w] \in running /\ range[w] \subseteq Txs /\ Txs \subseteq Nat
      /\ range[w] \cap Done = {}
      /\ \A i \in range[w] : outcome[i] = "none"
      /\ \A i \in Waiting : outcome[i] = "none"
  BY SchedulerFacts DEF WorkerInv, Busy, OrderInv
<1>4. \A i \in Txs : i \notin range[w] => outcome'[i] = outcome[i] /\ seen'[i] = seen[i]
  OBVIOUS
<1>5. ASSUME NEW i \in Txs, i \notin range[w], outcome'[i] # "none", NEW a \in AccountsOf(i)
      PROVE  seen'[i][a] = Written(After(i), a, 0)
  <2>1. seen[i][a] = Written(Before(i), a, 0)
    BY <1>4, <1>5 DEF SerialReads
  <2>2. ASSUME NEW j \in range[w], j < i PROVE a \notin transactions[j].write
    <3>1. SUFFICES ASSUME a \in transactions[j].write PROVE FALSE
      OBVIOUS
    <3>2. Conflict(j, i) /\ i # j
      BY <1>5, <2>2, <3>1 DEF Conflict, AccountsOf
    <3>3. i \in Waiting
      BY <1>3, <2>2, <3>2, RangeOrder
    <3> QED
      BY <1>3, <1>4, <1>5, <3>3
  <2>3. {j \in Before(i) : a \in transactions[j].write}
          = {j \in After(i) : a \in transactions[j].write}
    BY <1>4, <2>2
  <2> HIDE DEF Before, After
  <2>4. Written(Before(i), a, 0) = Written(After(i), a, 0)
    BY <2>3, WrittenSame, SMTT(30)
  <2> QED
    BY <1>4, <1>5, <2>1, <2>4
<1>6. ASSUME NEW i \in range[w], NEW a \in AccountsOf(i)
      PROVE  seen'[i][a] = Written(After(i), a, 0)
  <2>1. i \in Txs /\ seen'[i][a] = Written({j \in P : j < i}, a, Loaded(a))
    BY <1>3, <1>6
  <2>2. ASSUME NEW j \in P, j < i PROVE a \notin transactions[j].write
    <3>1. i \in Nat /\ j \in Nat
      BY <1>3, <1>6
    <3>2. i # j
      BY <2>2, <3>1, SMTT(30)
    <3>3. ~Conflict(i, j)
      BY <1>3, <1>6, <3>2, RunningApart
    <3> QED
      BY <1>6, <3>3 DEF Conflict, AccountsOf
  <2>3. Written({j \in P : j < i}, a, Loaded(a)) = Loaded(a)
    BY <2>2 DEF Written
  <2>4. /\ After(i) \in SUBSET Txs /\ \A j \in After(i) : j < i
        /\ \A j \in Done : j < i => (j \in After(i) <=> outcome[j] = "processed")
    BY <1>3, <1>4, SchedulerFacts
  <2> HIDE DEF After
  <2>5. Loaded(a) = Written(After(i), a, 0)
    BY <1>3, <1>6, <2>4, LoadsSerial
  <2> QED
    BY <2>1, <2>3, <2>5
<1> HIDE DEF Before, After
<1>7. SerialReads' <=> \A i \in Txs' : outcome'[i] # "none" =>
          \A a \in AccountsOf(i)' : seen'[i][a] = Written(Before(i), a, 0)'
  BY DEF SerialReads, Before
<1>8. ASSUME NEW i \in Txs, outcome'[i] # "none", NEW a \in AccountsOf(i)
      PROVE  seen'[i][a] = Written(Before(i), a, 0)'
  <2>1. Written(Before(i), a, 0)' = Written(After(i), a, 0)
    BY <1>2
  <2>2. seen'[i][a] = Written(After(i), a, 0)
    BY <1>5, <1>6, <1>8
  <2> QED
    BY <2>1, <2>2
<1> QED
  BY <1>1, <1>7, <1>8

\* A range is executed, or given up for another try.
LEMMA ExecuteStep ==
    ASSUME Counting, ConsumerInv, NEW w \in Threads, Execute(w)
    PROVE  ConsumerInv'
<1> USE DEF ConsumerInv
<1>1. /\ wpc[w] = "execute" /\ UNCHANGED scheduler
      /\ driver' = driver /\ next_worker' = next_worker /\ details' = details
      /\ blockhash_queue' = blockhash_queue /\ finish_rx' = finish_rx
      /\ faults' = faults /\ in_hand' = in_hand /\ holding' = holding
      /\ queue' = queue /\ range' = range /\ locked' = [locked EXCEPT ![w] = {}]
      /\ overrides' = overrides /\ store' = store
  BY DEF Execute, DriverUnchanged, others
<1>2. /\ IInv' /\ Txs' = Txs /\ Waiting' = Waiting /\ Done' = Done
      /\ running' = running /\ transactions' = transactions
      /\ \A i, j : Conflict(i, j)' <=> Conflict(i, j)
  BY <1>1, SchedulerStays
<1>3. PICK to \in {"prepare", "relock"} :
          /\ Move(w, to)
          /\ to = "prepare" => outcome' = outcome /\ seen' = seen
          /\ to = "relock" => locked[w] = range[w]
  BY DEF Execute
<1>4. /\ wpc'[w] = to /\ \A v \in Threads : v # w => wpc'[v] = wpc[v]
      /\ wpc' \in [Threads -> {"recv", "prepare", "execute", "relock", "cache",
                               "commit", "send", "drop", "exited", "dead"}]
  BY <1>3, MoveFacts
<1>5. /\ range[w] \in running /\ range[w] \subseteq Txs
      /\ range[w] \cap Done = {} /\ range[w] \cap Waiting = {}
      /\ \A i \in range[w] : outcome[i] = "none"
  BY <1>1, SchedulerFacts, SMTT(30) DEF WorkerInv, Busy
<1>6. /\ outcome' \in [Txs -> Outcomes \cup {"none"}]
      /\ \A i \in Txs : i \notin range[w] => outcome'[i] = outcome[i]
      /\ to = "relock" => \A i \in range[w] : outcome'[i] # "none"
      /\ to = "prepare" => \A i \in range[w] : outcome'[i] = "none"
      /\ SerialReads'
  <2>1. CASE to = "prepare"
    BY <1>2, <1>3, <1>5, <2>1, SerialStays DEF Types
  <2>2. CASE to = "relock"
    <3>1. wpc' = [wpc EXCEPT ![w] = "relock"] /\ wpc' # [wpc EXCEPT ![w] = "prepare"]
      BY <1>3, <2>2 DEF Move, Types
    <3>2. PICK P \in SUBSET range[w] :
            /\ outcome' = [i \in Txs |-> IF i \notin range[w] THEN outcome[i]
                                     ELSE IF i \in P THEN "processed" ELSE "unprocessed"]
            /\ seen' = [i \in Txs |-> IF i \notin range[w] THEN seen[i]
                                  ELSE [a \in AccountsOf(i) |->
                                           Written({j \in P : j < i}, a, Loaded(a))]]
      BY <3>1 DEF Execute, Move
    <3>3. SerialReads'
      BY <1>1, <1>2, <3>2, ExecuteReads
    <3> QED
      BY <1>5, <2>2, <3>2, <3>3 DEF Types, Outcomes
  <2> QED
    BY <2>1, <2>2
<1>7. /\ locked'[w] = {} /\ \A v \in Threads : v # w => locked'[v] = locked[v]
      /\ locked' \in [Threads -> SUBSET Txs]
  BY <1>1 DEF Types
<1>8. \A v \in Threads : v # w => range[v] \cap range[w] = {} /\ range[v] \subseteq Txs
  BY DEF Apart, Types
<1>9. Types'
  BY <1>1, <1>2, <1>4, <1>6, <1>7 DEF Types, Result
<1>10. WorkerInv'
  BY <1>1, <1>2, <1>4, <1>5, <1>6, <1>8, SMTT(30) DEF WorkerInv, Busy
<1>11. LockInv' /\ EndInv'
  BY <1>1, <1>4, <1>7 DEF LockInv, EndInv
<1>12. Separated'
  BY <1>1, <1>2, <1>3, <1>4, <1>7, SMTT(30) DEF Separated
<1>13. QueueInv'
  <2>1. \A v \in Threads : \A p \in DOMAIN queue[v] :
            queue[v][p] \cap range[w] = {} /\ queue[v][p] \subseteq Txs
    BY SchedulerFacts, SMTT(30) DEF Apart, QueueInv
  <2>2. ASSUME NEW v \in Threads, NEW p \in DOMAIN queue[v]
        PROVE  queue[v][p] \in running /\ \A i \in queue[v][p] : outcome'[i] = "none"
    BY <1>6, <2>1, SMTT(30) DEF QueueInv
  <2> QED
    BY <1>1, <1>2, <2>2 DEF QueueInv
<1>14. ResultInv'
  <2>1. \A p \in DOMAIN finish_rx :
            finish_rx[p].range \cap range[w] = {} /\ finish_rx[p].range \subseteq Txs
    <3>1. \A p \in DOMAIN finish_rx : finish_rx[p].range \cap range[w] = {}
      BY <1>1 DEF Apart
    <3>2. \A p \in DOMAIN finish_rx : finish_rx[p].range \subseteq Txs
      BY SchedulerFacts DEF ResultInv
    <3> QED
      BY <3>1, <3>2
  <2>2. ASSUME NEW p \in DOMAIN finish_rx, NEW i \in finish_rx[p].range
        PROVE  outcome'[i] = outcome[i]
    BY <1>6, <2>1
  <2> QED
    BY <1>1, <1>2, <2>2 DEF ResultInv
<1>15. Apart'
  BY <1>1, <1>4, SMTT(30) DEF Apart
<1>16. OrderInv'
  <2>1. Waiting \subseteq Txs /\ Done \subseteq Txs
    BY SchedulerFacts
  <2> QED
    BY <1>1, <1>2, <1>4, <1>5, <1>6, <2>1 DEF OrderInv
<1>17. Cached' = Cached /\ Committed' = Committed
  <2>1. to = "prepare" => outcome' = outcome
    BY <1>3
  <2>2. ASSUME NEW i \in Txs PROVE (i \in Cached <=> i \in Cached') /\ (i \in Committed <=> i \in Committed')
    <3>1. CASE i \in range[w]
      BY <1>1, <1>2, <1>4, <1>5, <1>6, <3>1 DEF Cached, Committed
    <3>2. CASE i \notin range[w]
      BY <1>1, <1>2, <1>4, <1>6, <3>2 DEF Cached, Committed
    <3> QED
      BY <3>1, <3>2
  <2>3. Cached \subseteq Txs /\ Committed \subseteq Txs /\ Cached' \subseteq Txs /\ Committed' \subseteq Txs
    BY <1>2 DEF Cached, Committed
  <2> QED
    BY <2>2, <2>3
<1>18. ValuesInv'
  BY <1>1, <1>2, <1>17 DEF ValuesInv, LastOf
<1> QED
  BY <1>2, <1>6, <1>9, <1>10, <1>11, <1>12, <1>13, <1>14, <1>15, <1>16, <1>18, SMTT(30)

-----------------------------------------------------------------------------
(* The driver *)

\* Steps of the driver and the PoH thread that move the driver only, and of the
\* other stages.
LEMMA CalmStep ==
    ASSUME ConsumerInv,
           UNCHANGED <<scheduler, next_worker, queue, finish_rx, workers, results, details,
                       faults>>,
           UNCHANGED others \/ "contention" \in faults,
           driver' \in {"idle", "loop", "pop", "recv", "join", "returned", "panicked"},
           EndInv'
    PROVE  ConsumerInv'
<1> USE DEF ConsumerInv
<1>1. /\ UNCHANGED scheduler /\ next_worker' = next_worker /\ queue' = queue
      /\ finish_rx' = finish_rx /\ wpc' = wpc /\ range' = range /\ locked' = locked
      /\ outcome' = outcome /\ seen' = seen /\ overrides' = overrides /\ store' = store
      /\ details' = details /\ faults' = faults
      /\ "contention" \notin faults => in_hand' = in_hand /\ holding' = holding
  BY DEF workers, results, others
<1>2. /\ IInv' /\ Txs' = Txs /\ Waiting' = Waiting /\ Done' = Done
      /\ running' = running /\ transactions' = transactions
      /\ \A i, j : Conflict(i, j)' <=> Conflict(i, j)
  BY <1>1, SchedulerStays
<1>3. Types' /\ QueueInv' /\ ResultInv'
  <2>1. Types'
    BY <1>1, <1>2 DEF Types, Result
  <2> QED
    BY <1>1, <1>2, <2>1, ResultsStay
<1>4. WorkerInv' /\ LockInv' /\ Separated' /\ Apart' /\ OrderInv'
  <2>1. WorkerInv' /\ LockInv'
    BY <1>1, <1>2 DEF WorkerInv, LockInv
  <2>2. Separated'
    BY <1>1, <1>2 DEF Separated
  <2> QED
    BY <1>1, <1>2, <2>1, <2>2, ApartStays, OrderStays
<1>5. Cached' = Cached /\ Committed' = Committed
  BY <1>1, <1>2 DEF Cached, Committed
<1>6. ValuesInv'
  BY <1>1, <1>2, <1>5 DEF ValuesInv, LastOf
<1> QED
  BY <1>1, <1>2, <1>3, <1>4, <1>6, SerialStays

\* The driver's test at the top of its loop keeps the invariant.
LEMMA LoopTestStep == ASSUME ConsumerInv, LoopTest PROVE ConsumerInv'
<1>1. driver = "loop" /\ driver' \in {"pop", "join"} /\ blockhash_queue' = blockhash_queue
  BY DEF LoopTest
<1>2. EndInv'
  BY <1>1 DEF ConsumerInv, EndInv
<1> QED
  BY <1>1, <1>2, CalmStep DEF LoopTest

\* Joining the workers keeps it: all of them have exited or died by then.
LEMMA JoinStep == ASSUME ConsumerInv, Join PROVE ConsumerInv'
<1>1. /\ driver = "join" /\ driver' \in {"returned", "panicked"}
      /\ blockhash_queue' = blockhash_queue /\ wpc' = wpc
      /\ \A w \in Threads : wpc[w] \in {"exited", "dead"}
  BY DEF Join, workers
<1>2. EndInv'
  BY <1>1 DEF ConsumerInv, EndInv
<1> QED
  BY <1>1, <1>2, CalmStep DEF Join

\* The registration of the slot's last blockhash keeps it.
LEMMA RegisterStep == ASSUME ConsumerInv, register_recent_blockhash PROVE ConsumerInv'
<1>1. driver' = driver /\ driver \in {"returned", "panicked"} /\ wpc' = wpc
  BY DEF register_recent_blockhash, RegisterUnchanged, BlockReads, ConsumerInv, Types, workers
<1>2. EndInv'
  BY <1>1 DEF ConsumerInv, EndInv
<1> QED
  BY <1>1, <1>2, CalmStep DEF register_recent_blockhash, RegisterUnchanged

\* What another stage does to its batch keeps it: it has one only with contention.
LEMMA OtherStep ==
    ASSUME ConsumerInv, NEW o, OtherPrepare(o) \/ OtherDrop(o)
    PROVE  ConsumerInv'
<1>1. /\ driver' = driver /\ blockhash_queue' = blockhash_queue /\ wpc' = wpc
      /\ o \in in_hand \/ o \in holding
  BY DEF OtherPrepare, OtherDrop, OthersUnchanged, workers
<1>2. /\ driver' \in {"idle", "loop", "pop", "recv", "join", "returned", "panicked"}
      /\ "contention" \in faults
  BY <1>1 DEF ConsumerInv, Types, LockInv
<1>3. EndInv'
  BY <1>1 DEF ConsumerInv, EndInv
<1> QED
  BY <1>2, <1>3, CalmStep DEF OtherPrepare, OtherDrop, OthersUnchanged

\* So does a step that changes nothing.
LEMMA ConsumerStutter == ASSUME ConsumerInv, UNCHANGED consumer_vars PROVE ConsumerInv'
<1>1. /\ UNCHANGED <<scheduler, next_worker, queue, finish_rx, workers, results, details,
                       faults>>
      /\ UNCHANGED others
      /\ driver' = driver /\ blockhash_queue' = blockhash_queue /\ wpc' = wpc
  BY DEF consumer_vars, workers
<1>2. EndInv' /\ driver' \in {"idle", "loop", "pop", "recv", "join", "returned", "panicked"}
  BY <1>1 DEF ConsumerInv, EndInv, Types
<1> QED
  BY <1>1, <1>2, CalmStep

\* The facts about a driver step that leaves the workers and the accounts alone.
LEMMA WorkersStay ==
    ASSUME ConsumerInv, UNCHANGED <<workers, results, others, faults>>,
           Txs' = Txs, transactions' = transactions,
           \A i, j : Conflict(i, j)' <=> Conflict(i, j)
    PROVE  LockInv' /\ Separated' /\ ValuesInv' /\ SerialReads'
<1> USE DEF ConsumerInv
<1>1. /\ wpc' = wpc /\ range' = range /\ locked' = locked
      /\ outcome' = outcome /\ seen' = seen /\ overrides' = overrides /\ store' = store
      /\ faults' = faults /\ in_hand' = in_hand /\ holding' = holding
  BY DEF workers, results, others
<1>2. LockInv' /\ Separated'
  BY <1>1 DEF LockInv, Separated
<1>3. Cached' = Cached /\ Committed' = Committed
  BY <1>1 DEF Cached, Committed
<1>4. ValuesInv'
  BY <1>1, <1>3 DEF ValuesInv, LastOf
<1> QED
  BY <1>1, <1>2, <1>4, SerialStays

\* A range goes to a worker.
LEMMA PopAndSendStep ==
    ASSUME Counting, ConsumerInv, PopAndSend
    PROVE  ConsumerInv'
<1> USE DEF ConsumerInv
<1>1. /\ driver = "pop" /\ finish_rx' = finish_rx /\ wpc' = wpc /\ range' = range
      /\ locked' = locked /\ outcome' = outcome /\ details' = details
      /\ blockhash_queue' = blockhash_queue /\ UNCHANGED <<workers, results, others, faults>>
  BY DEF PopAndSend, workers, results
<1>2. PICK k \in 0 .. (Len(indices) - next) :
          /\ pop(k)
          /\ k = 0 => driver' = "recv" /\ queue' = queue /\ next_worker' = next_worker
          /\ k # 0 => /\ driver' = driver /\ next_worker' = (next_worker + 1) % NUM_THREADS
                      /\ \/ queue' = queue
                         \/ queue' = [queue EXCEPT ![next_worker] = Append(@, Scanned(k))]
  BY DEF PopAndSend
<1> DEFINE s == Scanned(k)
<1>3. /\ IInv'
      /\ Txs' = Txs /\ transactions' = transactions /\ finished' = finished
      /\ Done' = Done /\ Waiting' = Waiting \ s
      /\ s \subseteq Waiting
      /\ running' = IF k = 0 THEN running ELSE running \cup {s}
      /\ \A i, j : Conflict(i, j)' <=> Conflict(i, j)
  BY <1>2, SchedulerPops
<1> HIDE DEF s
<1>4. /\ LockInv' /\ Separated' /\ ValuesInv' /\ SerialReads'
      /\ running \subseteq running' /\ Waiting' \subseteq Waiting /\ s \subseteq Txs
  BY <1>1, <1>3, WorkersStay, SchedulerFacts
<1>5. /\ driver' \in {"pop", "recv"}
      /\ next_worker' \in Threads
  <2>1. (next_worker + 1) % NUM_THREADS \in Threads
    BY ThreadsAssumption, SMTT(30) DEF Types, Threads
  <2> QED
    BY <1>1, <1>2, <2>1 DEF Types
<1>6. /\ queue' \in [Threads -> Seq(SUBSET Txs)]
      /\ \A v \in Threads : \A p \in DOMAIN queue'[v] :
            \/ p \in DOMAIN queue[v] /\ queue'[v][p] = queue[v][p]
            \/ k # 0 /\ v = next_worker /\ p = Len(queue[v]) + 1 /\ queue'[v][p] = s
  <2>1. CASE queue' = queue
    BY <2>1 DEF Types
  <2>2. CASE k # 0 /\ queue' = [queue EXCEPT ![next_worker] = Append(@, s)]
    <3>1. /\ next_worker \in Threads /\ queue[next_worker] \in Seq(SUBSET Txs)
          /\ Append(queue[next_worker], s) \in Seq(SUBSET Txs)
      BY <1>4, SMTT(30) DEF Types
    <3>2. /\ queue' \in [Threads -> Seq(SUBSET Txs)]
          /\ queue'[next_worker] = Append(queue[next_worker], s)
          /\ \A v \in Threads : v # next_worker => queue'[v] = queue[v]
      BY <2>2, <3>1 DEF Types
    <3>3. \A p \in DOMAIN queue'[next_worker] :
            \/ p \in DOMAIN queue[next_worker] /\ queue'[next_worker][p] = queue[next_worker][p]
            \/ p = Len(queue[next_worker]) + 1 /\ queue'[next_worker][p] = s
      BY ONLY <3>1, <3>2, SMTT(30)
    <3> QED
      BY <2>2, <3>2, <3>3
  <2> QED
    BY <1>2, <2>1, <2>2 DEF s
<1>7. Types' /\ ResultInv'
  BY <1>1, <1>3, <1>4, <1>5, <1>6, SMTT(30) DEF Types, Result, ResultInv
<1>8. WorkerInv'
  BY <1>1, <1>3, <1>4 DEF WorkerInv
<1>9. QueueInv'
  <2>1. \A i \in s : outcome[i] = "none"
    BY <1>3 DEF OrderInv
  <2>2. k # 0 => s \in running'
    BY <1>3
  <2>3. ASSUME NEW v \in Threads, NEW p \in DOMAIN queue'[v]
        PROVE  queue'[v][p] \in running' /\ \A i \in queue'[v][p] : outcome[i] = "none"
    BY <1>4, <1>6, <2>1, <2>2 DEF QueueInv
  <2> QED
    BY <1>1, <2>3 DEF QueueInv
<1>10. Apart'
  <2>1. \A v \in Threads : \A p \in DOMAIN queue[v] : queue[v][p] \cap s = {}
    BY <1>3, SchedulerFacts, SMTT(30) DEF QueueInv
  <2>2. \A v \in Threads : range[v] \cap s = {}
    <3>1. ASSUME NEW v \in Threads PROVE range[v] \cap Waiting = {}
      BY SchedulerFacts DEF WorkerInv, Types, Busy
    <3> QED
      BY <1>3, <3>1
  <2>3. \A u, v \in Threads : \A p \in DOMAIN queue'[u], q \in DOMAIN queue'[v] :
            u # v \/ p # q => queue'[u][p] \cap queue'[v][q] = {}
    <3> SUFFICES ASSUME NEW u \in Threads, NEW v \in Threads, NEW p \in DOMAIN queue'[u],
                        NEW q \in DOMAIN queue'[v], u # v \/ p # q
                 PROVE  queue'[u][p] \cap queue'[v][q] = {}
      OBVIOUS
    <3> DEFINE Old(t, i) == i \in DOMAIN queue[t] /\ queue'[t][i] = queue[t][i]
               New(t, i) == t = next_worker /\ i = Len(queue[t]) + 1 /\ queue'[t][i] = s
    <3>1. (Old(u, p) \/ New(u, p)) /\ (Old(v, q) \/ New(v, q))
      BY <1>6
    <3>2. CASE Old(u, p) /\ Old(v, q)
      BY <3>2 DEF Apart
    <3>3. CASE Old(u, p) /\ New(v, q)
      BY <2>1, <3>3
    <3>4. CASE New(u, p) /\ Old(v, q)
      <4>1. queue[v][q] \cap s = {}
        BY <2>1, <3>4
      <4> HIDE DEF s
      <4> QED
        BY <3>4, <4>1
    <3>5. ~(New(u, p) /\ New(v, q))
      OBVIOUS
    <3> QED
      BY <3>1, <3>2, <3>3, <3>4, <3>5
  <2>4. \A u, v \in Threads : \A p \in DOMAIN queue'[u] : queue'[u][p] \cap range[v] = {}
    BY <1>6, <2>2, SMTT(30) DEF Apart
  <2> QED
    BY <1>1, <2>3, <2>4 DEF Apart
<1>11. OrderInv'
  BY <1>1, <1>3, <1>4 DEF OrderInv
<1>12. EndInv'
  BY <1>1, <1>5 DEF EndInv
<1> QED
  BY <1>3, <1>4, <1>7, <1>8, <1>9, <1>10, <1>11, <1>12, SMTT(30)

\* The rest of a sequence.
LEMMA TailFacts ==
    ASSUME NEW S, NEW q \in Seq(S), q # <<>>
    PROVE  /\ 1 \in DOMAIN q /\ Head(q) = q[1] /\ Tail(q) \in Seq(S)
           /\ \A i \in DOMAIN Tail(q) :
                 i + 1 \in DOMAIN q /\ i + 1 # 1 /\ Tail(q)[i] = q[i + 1]
           /\ \A i, j \in DOMAIN Tail(q) : i # j => i + 1 # j + 1
BY SMTT(30)

\* The driver looks for a result and gives its range back to the scheduler.
LEMMA TryRecvStep ==
    ASSUME Counting, ConsumerInv, TryRecv
    PROVE  ConsumerInv'
<1> USE DEF ConsumerInv
<1>1. /\ driver = "recv" /\ driver' = "loop" /\ queue' = queue /\ wpc' = wpc /\ range' = range
      /\ locked' = locked /\ outcome' = outcome /\ next_worker' = next_worker
      /\ blockhash_queue' = blockhash_queue /\ UNCHANGED <<workers, results, others, faults>>
  BY DEF TryRecv, workers, results
<1>2. EndInv'
  BY <1>1 DEF EndInv
<1>3. CASE finish_rx = <<>>
  BY <1>1, <1>2, <1>3, CalmStep DEF TryRecv
<1>4. CASE finish_rx # <<>>
  <2> DEFINE r == Head(finish_rx).range
             st == Head(finish_rx).status
  <2>1. /\ finish(r) /\ finish_rx' = Tail(finish_rx)
        /\ details' = [i \in Txs |-> IF i \in r THEN st[i] ELSE details[i]]
    BY <1>4 DEF TryRecv
  <2>2. /\ IInv' /\ Txs' = Txs /\ transactions' = transactions
        /\ Done' = Done \cup r /\ Waiting' = Waiting
        /\ r \in running /\ running' = running \ {r}
        /\ \A i, j : Conflict(i, j)' <=> Conflict(i, j)
    BY <2>1, SchedulerFinishes
  <2>3. /\ 1 \in DOMAIN finish_rx /\ r = finish_rx[1].range /\ st = finish_rx[1].status
        /\ finish_rx' \in Seq(Result)
        /\ \A p \in DOMAIN finish_rx' :
              p + 1 \in DOMAIN finish_rx /\ p + 1 # 1 /\ finish_rx'[p] = finish_rx[p + 1]
        /\ \A p, q \in DOMAIN finish_rx' : p # q => p + 1 # q + 1
    <3>1. finish_rx \in Seq(Result)
      BY DEF Types
    <3> QED
      BY <1>4, <2>1, <3>1, TailFacts
  <2> HIDE DEF r, st
  <2>4. /\ LockInv' /\ Separated' /\ ValuesInv' /\ SerialReads'
        /\ r # {} /\ r \subseteq Txs
    BY <1>1, <2>2, WorkersStay, SchedulerFacts
  <2>5. /\ \A i \in r : outcome[i] # "none" /\ st[i] = outcome[i]
        /\ \A w \in Threads : wpc[w] # "drop" => r \cap range[w] = {}
        /\ \A p \in DOMAIN finish_rx : p # 1 => finish_rx[p].range \cap r = {}
    BY <2>3, SMTT(30) DEF ResultInv, Apart
  <2>6. Types'
    BY <1>1, <2>2, <2>3 DEF Types, Result
  <2>7. WorkerInv'
    <3>1. \A w \in Threads : wpc[w] \in Busy \cup {"dead"} => range[w] \in running'
      BY <2>2, <2>4, <2>5 DEF WorkerInv, Busy
    <3> QED
      BY <1>1, <2>2, <3>1 DEF WorkerInv
  <2>8. QueueInv'
    <3>1. ASSUME NEW v \in Threads, NEW p \in DOMAIN queue[v]
          PROVE  queue[v][p] \in running' /\ \A i \in queue[v][p] : outcome[i] = "none"
      BY <2>2, <2>4, <2>5 DEF QueueInv
    <3> QED
      BY <1>1, <3>1 DEF QueueInv
  <2>9. ResultInv'
    <3>1. ASSUME NEW p \in DOMAIN finish_rx'
          PROVE  /\ finish_rx'[p].range \in running'
                 /\ \A i \in finish_rx'[p].range :
                       outcome[i] # "none" /\ finish_rx'[p].status[i] = outcome[i]
      <4>1. /\ p + 1 \in DOMAIN finish_rx /\ finish_rx'[p] = finish_rx[p + 1]
            /\ finish_rx[p + 1].range # r
        BY <2>3, <2>4, <2>5
      <4>2. /\ finish_rx[p + 1].range \in running
            /\ \A i \in finish_rx[p + 1].range :
                  outcome[i] # "none" /\ finish_rx[p + 1].status[i] = outcome[i]
        BY <4>1 DEF ResultInv
      <4> QED
        BY <2>2, <4>1, <4>2
    <3> QED
      BY <1>1, <3>1 DEF ResultInv
  <2>10. Apart'
    <3>1. /\ \A p, q \in DOMAIN finish_rx' :
                p # q => finish_rx'[p].range \cap finish_rx'[q].range = {}
          /\ \A p \in DOMAIN finish_rx', w \in Threads :
                wpc[w] # "drop" => finish_rx'[p].range \cap range[w] = {}
      <4>1. ASSUME NEW p \in DOMAIN finish_rx', NEW q \in DOMAIN finish_rx', p # q
            PROVE  finish_rx'[p].range \cap finish_rx'[q].range = {}
        BY <2>3, <4>1 DEF Apart
      <4>2. ASSUME NEW p \in DOMAIN finish_rx', NEW w \in Threads, wpc[w] # "drop"
            PROVE  finish_rx'[p].range \cap range[w] = {}
        BY <2>3, <4>2 DEF Apart
      <4> QED
        BY <4>1, <4>2
    <3>2. queue' = queue /\ range' = range /\ wpc' = wpc /\ Apart
      BY <1>1
    <3> QED
      BY ONLY <3>1, <3>2 DEF Apart
  <2>11. OrderInv'
    <3>1. Done \subseteq Txs
      BY SchedulerFacts
    <3>2. ASSUME NEW i \in Done \cup r
          PROVE  /\ outcome[i] # "none" /\ details'[i] = outcome[i]
                 /\ \A w \in Threads : i \in range[w] => wpc[w] = "drop"
      BY <2>1, <2>4, <2>5, <3>1 DEF OrderInv
    <3> QED
      BY <1>1, <2>2, <3>2 DEF OrderInv
  <2> QED
    BY <1>2, <2>2, <2>4, <2>6, <2>7, <2>8, <2>9, <2>10, <2>11
<1> QED
  BY <1>3, <1>4

\* A block arrives: everything is fresh.
LEMMA StartStep ==
    ASSUME Counting, ConsumerInv, NEW b \in Blocks, Start(b)
    PROVE  ConsumerInv'
<1>1. /\ IInv' /\ transactions' = b /\ running' = {} /\ Done' = {} /\ Txs' = DOMAIN b
  BY InitMoves, InitBlockStep DEF Start, Txs
<1>2. /\ driver' = "loop" /\ next_worker' = 0 /\ finish_rx' = <<>>
      /\ queue' = [w \in Threads |-> <<>>] /\ wpc' = [w \in Threads |-> "recv"]
      /\ range' = [w \in Threads |-> {}] /\ locked' = [w \in Threads |-> {}]
      /\ outcome' = [i \in DOMAIN b |-> "none"] /\ blockhash_queue' = "open"
      /\ overrides' = [a \in Accounts |-> NoOverride] /\ store' = [a \in Accounts |-> 0]
      /\ "contention" \notin faults' => in_hand' = {} /\ holding' = {}
  BY DEF Start
<1>3. /\ <<>> \in Seq(SUBSET (DOMAIN b)) /\ <<>> \in Seq(Result') /\ 0 \in Threads
      /\ DOMAIN finish_rx' = {} /\ \A w \in Threads : DOMAIN queue'[w] = {}
  BY <1>2, ThreadsAssumption, SMTT(30) DEF Threads
<1>4. Types'
  BY <1>1, <1>2, <1>3 DEF Types
<1>5. WorkerInv' /\ LockInv' /\ Separated' /\ EndInv'
  BY <1>2 DEF WorkerInv, Busy, LockInv, Separated, EndInv
<1>6. QueueInv' /\ ResultInv' /\ Apart'
  BY <1>2, <1>3 DEF QueueInv, ResultInv, Apart
<1>7. OrderInv'
  <2>1. Waiting' \subseteq DOMAIN b
    BY <1>1, InitMoves DEF Start
  <2> QED
    BY <1>1, <1>2, <2>1 DEF OrderInv
<1>8. Cached' = {} /\ Committed' = {}
  BY <1>1, <1>2 DEF Cached, Committed
<1>9. ValuesInv'
  BY <1>2, <1>8, SMTT(30) DEF ValuesInv, LastOf, NoOverride
<1>10. SerialReads'
  BY <1>1, <1>2 DEF SerialReads
<1> QED
  BY <1>1, <1>4, <1>5, <1>6, <1>7, <1>9, <1>10, SMTT(30) DEF ConsumerInv

\* The invariant holds when a block's execution begins.
LEMMA ConsumerInitHolds == ASSUME Counting PROVE ConsumerInit => ConsumerInv
<1> SUFFICES ASSUME ConsumerInit PROVE ConsumerInv
  OBVIOUS
<1>1. IInv /\ Txs = {} /\ Waiting = {} /\ Done = {} /\ running = {}
  <2>1. IInv
    BY InitHolds DEF ConsumerInit
  <2>2. transactions = <<>> /\ indices = <<>> /\ running = {}
    BY DEF ConsumerInit, Init
  <2>3. Txs = {} /\ Waiting = {}
    BY ONLY <2>2, SMTT(30) DEF Txs, Waiting
  <2> QED
    BY <2>1, <2>2, <2>3 DEF Done
<1>2. /\ driver = "idle" /\ next_worker = 0 /\ finish_rx = <<>>
      /\ queue = [w \in Threads |-> <<>>] /\ wpc = [w \in Threads |-> "exited"]
      /\ range = [w \in Threads |-> {}] /\ locked = [w \in Threads |-> {}]
      /\ outcome = <<>> /\ blockhash_queue = "open"
      /\ overrides = [a \in Accounts |-> NoOverride] /\ store = [a \in Accounts |-> 0]
      /\ in_hand = {} /\ holding = {}
  BY DEF ConsumerInit
<1>3. /\ <<>> \in Seq(SUBSET Txs) /\ <<>> \in Seq(Result) /\ 0 \in Threads
      /\ DOMAIN finish_rx = {} /\ \A w \in Threads : DOMAIN queue[w] = {}
  BY <1>2, ThreadsAssumption, SMTT(30) DEF Threads
<1>4. outcome \in [Txs -> Outcomes \cup {"none"}]
  <2>1. Txs = DOMAIN outcome
    BY <1>2 DEF ConsumerInit, Init, Txs
  <2>2. outcome = [i \in DOMAIN outcome |-> outcome[i]]
    BY <1>2, SMTT(30)
  <2> QED
    BY <1>1, <2>1, <2>2
<1>5. Types
  BY <1>2, <1>3, <1>4 DEF Types
<1>6. WorkerInv /\ LockInv /\ Separated /\ EndInv
  BY <1>2 DEF WorkerInv, Busy, LockInv, Separated, EndInv
<1>7. QueueInv /\ ResultInv /\ Apart /\ OrderInv
  BY <1>1, <1>2, <1>3 DEF QueueInv, ResultInv, Apart, OrderInv
<1>8. Cached = {} /\ Committed = {}
  BY <1>1 DEF Cached, Committed
<1>9. ValuesInv
  BY <1>2, <1>8, SMTT(30) DEF ValuesInv, LastOf, NoOverride
<1>10. SerialReads
  BY <1>1 DEF SerialReads
<1> QED
  BY <1>1, <1>5, <1>6, <1>7, <1>9, <1>10 DEF ConsumerInv

-----------------------------------------------------------------------------
(* The results *)

\* Each step of the block consumer keeps its invariant.
LEMMA ConsumerStep ==
    ASSUME Counting, ConsumerInv, [ConsumerNext]_consumer_vars
    PROVE  ConsumerInv'
<1>1. CASE \E b \in Blocks : Start(b)
  BY <1>1, StartStep
<1>2. CASE DriverStep
  BY <1>2, LoopTestStep, PopAndSendStep, TryRecvStep, JoinStep, SMTT(30) DEF DriverStep
<1>3. CASE register_recent_blockhash
  BY <1>3, RegisterStep
<1>4. ASSUME NEW w \in Threads, WorkerStep(w) \/ WorkerPanic(w) PROVE ConsumerInv'
  BY <1>4, WorkerRecvStep, WorkerExitStep, LockBatchStep, ExecuteStep, CacheStep,
     CommitStep, SendStep, LeaveStep, SMTT(30) DEF WorkerStep
<1>5. ASSUME NEW o \in Others, OtherPrepare(o) \/ OtherDrop(o) PROVE ConsumerInv'
  BY <1>5, OtherStep
<1>6. CASE UNCHANGED consumer_vars
  BY <1>6, ConsumerStutter
<1> QED
  BY <1>1, <1>2, <1>3, <1>4, <1>5, <1>6 DEF ConsumerNext

\* A driver that returns without a timeout has done everything.
LEMMA ReturnsComplete == ASSUME Counting, ConsumerInv PROVE NothingLost
  BY SchedulerFacts DEF ConsumerInv, OrderInv, NothingLost

\* What the invariant says of the workers' locks and ranges.
LEMMA CommitsApart == ASSUME Counting, ConsumerInv PROVE CommitLocked
<1> USE DEF ConsumerInv
<1>1. ASSUME NEW w \in Threads, NEW v \in Threads \ {w}, wpc[w] \in AtWork, wpc[v] \in AtWork,
             NEW i \in range[w], NEW j \in range[v]
      PROVE  ~Conflict(i, j)
  <2>1. range[w] \in running /\ range[v] \in running
    BY <1>1 DEF WorkerInv, Busy, AtWork
  <2>2. range[w] \cap range[v] = {}
    BY <1>1 DEF Apart
  <2>3. i # j
    BY <1>1, <2>2
  <2> QED
    BY <1>1, <2>1, <2>3, RunningApart
<1>2. ASSUME NEW w \in Threads, wpc[w] = "relock", NEW v \in Threads \ {w},
             NEW i \in range[w], NEW j \in locked[v]
      PROVE  ~Conflict(i, j)
  BY <1>2, SiblingsGiveWay
<1>3. ASSUME NEW w \in Threads
      PROVE  /\ wpc[w] \in {"cache", "commit", "send", "drop"} /\ "contention" \notin faults =>
                    locked[w] = range[w]
             /\ blockhash_queue = "registered" => wpc[w] \in {"exited", "dead"}
  BY DEF LockInv, EndInv
<1> QED
  BY <1>1, <1>2, <1>3 DEF CommitLocked

-----------------------------------------------------------------------------
(* The refinement *)

\* The transactions SerialBlock counts as committed.
Shown == {i \in Txs : outcome[i] # "none"
                      /\ \A w \in Threads : i \in range[w] => wpc[w] \in {"send", "drop"}}

\* A worker's step that SerialBlock does not see.
LEMMA QuietWorker ==
    ASSUME NEW w \in Threads, transactions' = transactions, store' = store,
           \A v \in Threads : v # w => wpc'[v] = wpc[v] /\ range'[v] = range[v],
           \A i \in Txs : i \notin range[w] => outcome'[i] = outcome[i],
           \/ /\ wpc[w] \notin {"send", "drop"} /\ wpc'[w] \notin {"send", "drop"}
              /\ range[w] \subseteq range'[w]
              /\ \A i \in range'[w] : i \in range[w] \/ outcome[i] = "none"
           \/ /\ outcome' = outcome /\ wpc[w] \in {"send", "drop"}
              /\ range'[w] \subseteq range[w]
              /\ wpc'[w] \in {"send", "drop"} \/ range'[w] = {}
    PROVE  UNCHANGED Serial!vars
<1>1. Txs' = Txs
  BY DEF Txs
<1>2. Shown' = Shown
  BY <1>1 DEF Shown
<1>3. Committed' = Committed
  BY <1>1 DEF Committed
<1> QED
  BY <1>2, <1>3 DEF Serial!vars, Shown, Committed

\* So are the driver's steps.
LEMMA QuietDriver ==
    ASSUME transactions' = transactions, UNCHANGED <<workers, results>>
    PROVE  UNCHANGED Serial!vars
<1>1. Txs' = Txs
  BY DEF Txs
<1> QED
  BY <1>1 DEF Serial!vars, workers, results

\* A commit is that of a group.
LEMMA CommitRefines ==
    ASSUME Counting, ConsumerInv, NEW w \in Threads, Commit(w)
    PROVE  Serial!Next
<1>0. PICK G : G = range[w]
  OBVIOUS
<1>1. /\ wpc[w] = "commit" /\ Move(w, "send") /\ UNCHANGED scheduler
      /\ range' = range /\ outcome' = outcome
      /\ store' = [a \in Accounts |-> Written(Processed(w), a, store[a])]
  BY DEF Commit, DriverUnchanged
<1>2. Txs' = Txs /\ transactions' = transactions
  BY <1>1, SchedulerStays
<1>3. /\ wpc'[w] = "send" /\ \A v \in Threads : v # w => wpc'[v] = wpc[v]
  BY <1>1, MoveFacts DEF ConsumerInv
<1>4. /\ G \in running /\ G \subseteq Txs /\ G # {} /\ G \cap Waiting = {}
      /\ \A i \in G : outcome[i] # "none"
      /\ \A i \in G, v \in Threads : i \in range[v] => v = w
  BY <1>0, <1>1, SchedulerFacts DEF ConsumerInv, WorkerInv, Busy, Apart
<1>5. Shown' = Shown \cup G /\ G \cap Shown = {}
  BY <1>0, <1>1, <1>2, <1>3, <1>4 DEF Shown
<1>6. Committed' = Committed \cup Processed(w) /\ Processed(w) \in SUBSET G
  BY <1>0, <1>1, <1>2, <1>3, <1>4 DEF Committed, Processed
<1>7. \A j \in G : \A i \in Txs : i < j /\ Conflict(i, j) => i \in Shown
  <2>1. Done \subseteq Shown
    BY SchedulerFacts DEF ConsumerInv, OrderInv, Shown
  <2> QED
    <3>1. \A i, j \in Txs : i < j /\ Conflict(i, j) /\ j \notin Waiting => i \in Done
      BY SchedulerFacts DEF ConsumerInv
    <3>2. \A j \in G : j \in Txs /\ j \notin Waiting
      BY <1>4
    <3> QED
      BY <2>1, <3>1, <3>2
<1>8. \A a \in Accounts : store'[a] = Written(Committed', a, 0)
  <2>1. \A a \in Accounts : LastOf(Committed', a, 0, store'[a])
    BY <1>2, CommitStep DEF ConsumerInv, ValuesInv, LastOf
  <2>2. Committed' \in SUBSET Nat
    BY <1>2, SchedulerFacts DEF Committed, ConsumerInv
  <2> QED
    BY <2>1, <2>2, LastIsWritten
<1>9. store' = [a \in Accounts |-> Written(Committed', a, 0)]
  BY <1>1, <1>8
<1>10. \A P, a : Serial!LastWriter(P, a) = Written(P, a, 0)
  BY DEF Serial!LastWriter, Written, Serial!Max, Max
<1>11. store' = [a \in Accounts |-> Serial!LastWriter(Committed', a)]
  BY <1>9, <1>10
<1>12. Serial!Txs = Txs /\ \A i, j : Serial!Conflict(i, j) <=> Conflict(i, j)
  BY DEF Serial!Txs, Txs, Serial!Conflict, Conflict
<1>13. Serial!CommitGroup(G)
  BY <1>2, <1>5, <1>6, <1>7, <1>11, <1>12 DEF Serial!CommitGroup, Shown, Committed
<1>14. G \in (SUBSET (Serial!Txs \ Shown)) \ {{}}
  BY <1>4, <1>5, <1>12
<1> QED
  BY <1>13, <1>14 DEF Serial!Next, Shown

\* The rest of a worker's steps.
LEMMA WorkerRefines ==
    ASSUME ConsumerInv, NEW w \in Threads, WorkerStep(w) \/ WorkerPanic(w), ~Commit(w)
    PROVE  UNCHANGED Serial!vars
<1> USE DEF ConsumerInv
<1>1. UNCHANGED scheduler /\ store' = store
  BY DEF WorkerStep, WorkerPanic, WorkerRecv, WorkerExit, Prepare, Relock, LockBatch, Execute,
         Cache, Send, Drop, DriverUnchanged, results
<1>2. transactions' = transactions
  BY <1>1, SchedulerStays
<1>3. CASE WorkerRecv(w)
  <2>1. /\ wpc[w] = "recv" /\ Move(w, "prepare") /\ queue[w] # <<>> /\ outcome' = outcome
        /\ range' = [range EXCEPT ![w] = Head(queue[w])]
    BY <1>3 DEF WorkerRecv, results
  <2>2. /\ wpc'[w] = "prepare" /\ \A v \in Threads : v # w => wpc'[v] = wpc[v]
    BY <2>1, MoveFacts
  <2>3. Head(queue[w]) = queue[w][1] /\ 1 \in DOMAIN queue[w]
    BY <2>1, SMTT(30) DEF Types
  <2>4. \A i \in Head(queue[w]) : outcome[i] = "none"
    BY <2>3 DEF QueueInv
  <2>5. /\ range'[w] = Head(queue[w]) /\ range[w] = {}
        /\ \A v \in Threads : v # w => range'[v] = range[v]
    BY <2>1 DEF Types, WorkerInv
  <2> QED
    BY <1>1, <1>2, <2>1, <2>2, <2>4, <2>5, QuietWorker
<1>4. CASE WorkerExit(w) \/ Prepare(w) \/ Execute(w) \/ Relock(w) \/ Cache(w) \/ WorkerPanic(w)
  <2>1. PICK to \in {"exited", "prepare", "execute", "relock", "cache", "commit", "dead"} :
            Move(w, to) /\ range' = range
    BY <1>4 DEF WorkerExit, Prepare, Execute, Relock, Cache, WorkerPanic, LockBatch
  <2>2. /\ wpc'[w] = to /\ \A v \in Threads : v # w => wpc'[v] = wpc[v]
    BY <2>1, MoveFacts
  <2>3. wpc[w] \notin {"send", "drop"}
    BY <1>4 DEF WorkerExit, Prepare, Execute, Relock, Cache, WorkerPanic, LockBatch
  <2>4. \A i \in Txs : i \notin range[w] => outcome'[i] = outcome[i]
    BY <1>4 DEF WorkerExit, Prepare, Execute, Relock, Cache, WorkerPanic, LockBatch, results
  <2> QED
    BY <1>1, <1>2, <2>1, <2>2, <2>3, <2>4, QuietWorker
<1>5. CASE Send(w)
  <2>1. wpc[w] = "send" /\ Move(w, "drop") /\ outcome' = outcome /\ range' = range
    BY <1>5 DEF Send, results
  <2>2. /\ wpc'[w] = "drop" /\ \A v \in Threads : v # w => wpc'[v] = wpc[v]
    BY <2>1, MoveFacts
  <2> QED
    BY <1>1, <1>2, <2>1, <2>2, QuietWorker
<1>6. CASE Drop(w)
  <2>1. /\ wpc[w] = "drop" /\ Move(w, "recv") /\ outcome' = outcome
        /\ range' = [range EXCEPT ![w] = {}]
    BY <1>6 DEF Drop, results
  <2>2. /\ wpc'[w] = "recv" /\ \A v \in Threads : v # w => wpc'[v] = wpc[v]
    BY <2>1, MoveFacts
  <2>3. range'[w] = {} /\ \A v \in Threads : v # w => range'[v] = range[v]
    BY <2>1 DEF Types
  <2> QED
    BY <1>1, <1>2, <2>1, <2>2, <2>3, QuietWorker
<1> QED
  BY <1>3, <1>4, <1>5, <1>6 DEF WorkerStep

\* The driver's steps, and a new block.
LEMMA DriverRefines ==
    ASSUME ConsumerInv, DriverStep \/ register_recent_blockhash
    PROVE  UNCHANGED Serial!vars
<1>1. UNCHANGED <<workers, results>>
  BY DEF DriverStep, LoopTest, PopAndSend, TryRecv, Join, register_recent_blockhash,
         RegisterUnchanged
<1>2. transactions' = transactions
  BY DEF DriverStep, LoopTest, PopAndSend, TryRecv, Join, register_recent_blockhash,
         RegisterUnchanged, scheduler, vars, pop, finish
<1> QED
  BY <1>1, <1>2, QuietDriver

\* A new block.
LEMMA StartRefines ==
    ASSUME NEW b \in Blocks, Start(b)
    PROVE  Serial!Next
<1>1. /\ transactions' = b /\ Txs' = DOMAIN b
      /\ outcome' = [i \in DOMAIN b |-> "none"] /\ store' = [a \in Accounts |-> 0]
  BY DEF Start, init, Txs
<1>2. Shown' = {} /\ Committed' = {}
  BY <1>1 DEF Shown, Committed
<1> QED
  BY <1>1, <1>2 DEF Serial!Next, Serial!NewBlock, Shown, Committed

\* At first nothing is committed.
LEMMA InitRefines == ASSUME ConsumerInit PROVE Serial!Init
<1>1. Txs = {} /\ transactions = <<>> /\ store = [a \in Accounts |-> 0]
  BY SMTT(30) DEF ConsumerInit, Init, Txs
<1> QED
  BY <1>1 DEF Serial!Init

\* Each step of the block consumer is a commit, a new block, or not seen.
LEMMA StepRefines ==
    ASSUME Counting, ConsumerInv, [ConsumerNext]_consumer_vars
    PROVE  Serial!Next \/ UNCHANGED Serial!vars
<1>1. CASE UNCHANGED consumer_vars
  <2>1. transactions' = transactions /\ UNCHANGED <<workers, results>>
    BY <1>1 DEF consumer_vars, scheduler, vars
  <2> QED
    BY <2>1, QuietDriver
<1>2. CASE \E b \in Blocks : Start(b)
  BY <1>2, StartRefines
<1>3. CASE DriverStep \/ register_recent_blockhash
  BY <1>3, DriverRefines
<1>4. ASSUME NEW w \in Threads, WorkerStep(w) \/ WorkerPanic(w)
      PROVE  Serial!Next \/ UNCHANGED Serial!vars
  BY <1>4, CommitRefines, WorkerRefines
<1>5. ASSUME NEW o \in Others, OtherPrepare(o) \/ OtherDrop(o) PROVE UNCHANGED Serial!vars
  <2>1. transactions' = transactions /\ UNCHANGED <<workers, results>>
    BY <1>5 DEF OtherPrepare, OtherDrop, OthersUnchanged, scheduler, vars
  <2> QED
    BY <2>1, QuietDriver
<1> QED
  BY <1>1, <1>2, <1>3, <1>4, <1>5 DEF ConsumerNext
-----------------------------------------------------------------------------
(* The theorems *)

INSTANCE FiniteSetTheorems

\* The facts about finite sets hold.
LEMMA CountingHolds == Counting
<1>1. FiniteSubset
  BY FS_Subset DEF FiniteSubset
<1>2. FiniteSize
  BY FS_CardinalityType DEF FiniteSize
<1>3. FiniteEmpty
  BY FS_EmptySet DEF FiniteEmpty
<1>4. FiniteAdd
  BY FS_AddElement DEF FiniteAdd
<1>5. FiniteRemove
  BY FS_RemoveElement DEF FiniteRemove
<1>6. FiniteInterval
  BY FS_Interval DEF FiniteInterval
<1>7. FiniteInjection
  BY FS_Injection DEF FiniteInjection
<1>8. FiniteDifference
  BY FS_Difference DEF FiniteDifference
<1>9. FiniteUnion
  BY FS_Union DEF FiniteUnion
<1> QED
  BY <1>1, <1>2, <1>3, <1>4, <1>5, <1>6, <1>7, <1>8, <1>9 DEF Counting

\* IInv is an inductive invariant of the scheduler.
THEOREM Inductive == Spec => []IInv
<1>1. Init => IInv
  BY CountingHolds, InitHolds
<1>2. IInv /\ [Next]_vars => IInv'
  BY CountingHolds, SchedulerStep
<1> QED
  BY <1>1, <1>2, PTL DEF Spec

(***************************************************************************)
(* The fields have their types in every state (TypeOK).                    *)
(***************************************************************************)
THEOREM TypeCorrect == Spec => []TypeOK
BY Inductive, PTL DEF IInv

(***************************************************************************)
(* Whatever the block and whenever ranges finish, conflicting transactions *)
(* run in the order of the block (ConflictOrder).                          *)
(***************************************************************************)
THEOREM OrderKept == Spec => []ConflictOrder
BY Inductive, PTL DEF IInv

(***************************************************************************)
(* Every transaction is handed out exactly once, and `finished` means that *)
(* all of them came back (ExactlyOnce).                                    *)
(***************************************************************************)
THEOREM HandedOutOnce == Spec => []ExactlyOnce
BY Inductive, PTL DEF IInv

(***************************************************************************)
(* With nothing in flight no lock is left: the scheduler never blocks      *)
(* itself (IdleIsUnlocked).                                                *)
(***************************************************************************)
THEOREM NeverStuck == Spec => []IdleIsUnlocked
<1>1. IInv => IdleIsUnlocked
  BY CountingHolds, IdleUnlocked
<1> QED
  BY <1>1, Inductive, PTL

\* The inductive invariant holds in every reachable state.
THEOREM ConsumerInductive == ConsumerSpec => []ConsumerInv
<1>1. ConsumerInit => ConsumerInv
  BY CountingHolds, ConsumerInitHolds
<1>2. ConsumerInv /\ [ConsumerNext]_consumer_vars => ConsumerInv'
  BY CountingHolds, ConsumerStep
<1> QED
  BY <1>1, <1>2, PTL DEF ConsumerSpec

\* Whatever the block, the number of workers and their speeds, and with time
\* limits and panics: every transaction execute_chunk executes loads what the
\* serial execution of the block would have left (SerialReads).
THEOREM ReadsAreSerial == ConsumerSpec => []SerialReads
BY ConsumerInductive, PTL DEF ConsumerInv

\* Whatever other stages lock, no worker's locks refuse the second batch of
\* another, whose lock results nobody looks at, and no two workers execute or
\* commit conflicting transactions at a time; without other stages the batch has
\* all its locks; and nobody is at work when the last blockhash is registered
\* (CommitLocked).
THEOREM CommitsUnderLocks == ConsumerSpec => []CommitLocked
<1>1. ConsumerInv => CommitLocked
  BY CountingHolds, CommitsApart
<1> QED
  BY <1>1, ConsumerInductive, PTL

\* A driver that returns without a timeout has executed every transaction and
\* stored its status (NothingLost).
THEOREM NothingIsLost == ConsumerSpec => []NothingLost
<1>1. ConsumerInv => NothingLost
  BY CountingHolds, ReturnsComplete
<1> QED
  BY <1>1, ConsumerInductive, PTL

\* The parallel execution of a block, seen through its commits, is one that
\* commits groups of transactions in an order that respects every conflict, and
\* the accounts always hold what the serial order leaves (SerialSpec).
THEOREM ImplementsSerial == ConsumerSpec => SerialSpec
<1>1. ConsumerInit => Serial!Init
  BY InitRefines
<1>2. ConsumerInv /\ [ConsumerNext]_consumer_vars => [Serial!Next]_(Serial!vars)
  BY CountingHolds, StepRefines
<1> QED
  BY <1>1, <1>2, ConsumerInductive, PTL DEF ConsumerSpec, SerialSpec, Serial!Spec
=============================================================================
