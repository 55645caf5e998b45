------------------------ MODULE GreedyScheduler_proof ------------------------
(***************************************************************************)
(* Proofs about ThreadAwareAccountLocks and GreedyScheduler, for any       *)
(* threads, accounts, transactions and limits: one lemma per action, with  *)
(* the lemmas of GreedyScheduler_pool about the locks, the batches that    *)
(* move from place to place and the container.                             *)
(***************************************************************************)
EXTENDS GreedyScheduler_pool

\* Most steps need no arithmetic: Zenon proves them unless SMT is named.
USE ZenonT(40)
-----------------------------------------------------------------------------
(***************************************************************************)
(* The steps that only move batches.                                       *)
(***************************************************************************)
\* The pool of the current state, place by place.
LEMMA PoolNow == PoolIs(Pool, batches, consume_work, worker, finished_work, completing)
BY PoolAt DEF Pool

\* A step that moves batches and changes nothing else keeps what is said of
\* the pool and of the container.
LEMMA OnlyMoved ==
    ASSUME IInv, Moved(Pool, Pool'), TypeOK', FillSound',
           pc' # "complete" => completing' = NoCompletion,
           UNCHANGED <<id_to_transaction_state, holder, priority_queue, held_transactions,
                       unschedulables, arrived>>
    PROVE  IInv'
<1>1. PoolSound(Pool', id_to_transaction_state, holder)
  BY MovedKeeps DEF IInv, Sound
<1>2. /\ id_to_transaction_state' = id_to_transaction_state /\ holder' = holder
      /\ priority_queue' = priority_queue /\ held_transactions' = held_transactions
      /\ unschedulables' = unschedulables /\ arrived' = arrived
  OBVIOUS
<1>3. Sound(Pool', id_to_transaction_state, holder,
            priority_queue, held_transactions, unschedulables, arrived)
  BY <1>1 DEF IInv, Sound
<1>4. Sound(Pool, id_to_transaction_state, holder,
            priority_queue, held_transactions, unschedulables, arrived)'
  BY <1>2, <1>3
<1>5. (Cardinality(DOMAIN id_to_transaction_state) <= capacity)'
  BY <1>2 DEF IInv
<1> QED
  BY <1>4, <1>5 DEF IInv

\* send_batches keeps the channels well typed.
LEMMA SentType ==
    ASSUME NEW b \in [Thread -> Seq(Item)], NEW q \in [Thread -> Seq(Work)], NEW slot \in Nat
    PROVE  Sent(b, q, slot) \in [Thread -> Seq(Work)] /\ Empty \in [Thread -> Seq(Item)]
<1>1. ASSUME NEW t \in Thread PROVE Sent(b, q, slot)[t] \in Seq(Work)
  <2>1. [thread |-> t, txs |-> b[t], target_slot |-> slot] \in Work
    BY SMTT(30) DEF Work
  <2>2. q[t] \in Seq(Work) /\ Append(q[t], [thread |-> t, txs |-> b[t], target_slot |-> slot]) \in Seq(Work)
    BY <2>1, SMTT(30)
  <2> QED
    BY <2>2 DEF Sent
<1>2. Empty \in [Thread -> Seq(Item)]
  BY SMTT(30) DEF Empty
<1> QED
  BY <1>1, <1>2 DEF Sent

\* Nothing is being filled after send_batches.
LEMMA FillEmpty == ASSUME batches' = Empty PROVE FillSound'
<1>1. \A t \in Thread : DOMAIN batches'[t] = {}
  BY EmptyDomain DEF Empty
<1> QED
  BY <1>1 DEF FillSound

\* send_conflicting keeps the invariant.
LEMMA SendStep == ASSUME IInv, send_conflicting PROVE IInv'
<1> DEFINE r == Sent(batches, consume_work, decision.slot)
<1>1. batches' = Empty /\ consume_work' = r
  BY DEF send_conflicting, send_batches, Sent
<1>2. /\ id_to_transaction_state' = id_to_transaction_state /\ holder' = holder
      /\ priority_queue' = priority_queue /\ held_transactions' = held_transactions
      /\ unschedulables' = unschedulables /\ arrived' = arrived
      /\ worker' = worker /\ finished_work' = finished_work /\ completing' = completing
      /\ decision' = decision /\ bank' = bank /\ last_slot' = last_slot /\ pc' = pc
  BY DEF send_conflicting, container, control, leader
<1>3. TypeOK
  BY DEF IInv
<1>4. r \in [Thread -> Seq(Work)] /\ Empty \in [Thread -> Seq(Item)]
  BY <1>3, SentType DEF TypeOK
<1>5. Moved(Pool, PoolOf(Empty, r, worker, finished_work, completing))
  BY <1>3, SendMoved DEF TypeOK, Pool
<1> HIDE DEF r
<1>6. Moved(Pool, Pool')
  BY <1>1, <1>2, <1>5 DEF Pool
<1>7. TypeOK'
  BY <1>1, <1>2, <1>3, <1>4 DEF TypeOK
<1>8. FillSound'
  BY <1>1, FillEmpty
<1> QED
  BY <1>2, <1>6, <1>7, <1>8, OnlyMoved DEF IInv

\* receive_completed keeps the invariant.
LEMMA ReceiveStep == ASSUME IInv, receive_completed PROVE IInv'
<1>1. /\ id_to_transaction_state' = id_to_transaction_state /\ holder' = holder
      /\ priority_queue' = priority_queue /\ held_transactions' = held_transactions
      /\ unschedulables' = unschedulables /\ arrived' = arrived
      /\ worker' = worker /\ consume_work' = consume_work /\ batches' = batches
      /\ decision' = decision /\ bank' = bank /\ last_slot' = last_slot
      /\ working_account_set' = working_account_set
  BY DEF receive_completed, container, pass, leader
<1>2. /\ pc = "receive" /\ finished_work # <<>> /\ pc' = "complete"
      /\ completing' = Head(finished_work) /\ finished_work' = Tail(finished_work)
  BY DEF receive_completed
<1>3. TypeOK /\ completing = NoCompletion
  BY <1>2 DEF IInv
<1>4. completing.work.txs = <<>>
  BY <1>3 DEF NoCompletion, NoWork
<1>5. finished_work \in Seq(Completion)
  BY <1>3 DEF TypeOK
<1>6. Head(finished_work) \in Completion /\ Tail(finished_work) \in Seq(Completion)
  BY <1>2, <1>5, HeadTail
<1>7. Moved(Pool, Pool')
  BY <1>1, <1>2, <1>4, <1>5, TakeMoved DEF Pool
<1>8. TypeOK'
  BY <1>1, <1>2, <1>3, <1>6 DEF TypeOK
<1>9. FillSound'
  BY <1>1 DEF IInv, FillSound
<1> QED
  BY <1>1, <1>2, <1>7, <1>8, <1>9, OnlyMoved

\* The variables a worker's step leaves alone.
WorkerFrame ==
    UNCHANGED <<holder, id_to_transaction_state, priority_queue, held_transactions,
                unschedulables, working_account_set, batches, pc, decision, completing,
                bank, last_slot, arrived>>

\* A worker's step that moves batches keeps the invariant.
LEMMA WorkerStep ==
    ASSUME IInv, WorkerFrame, Moved(Pool, Pool'),
           consume_work' \in [Thread -> Seq(Work)],
           worker' \in [Thread -> [state : {"idle", "consume", "retry_drain"}, work : Work]],
           finished_work' \in Seq(Completion)
    PROVE  IInv'
<1>1. /\ id_to_transaction_state' = id_to_transaction_state /\ holder' = holder
      /\ priority_queue' = priority_queue /\ held_transactions' = held_transactions
      /\ unschedulables' = unschedulables /\ arrived' = arrived
      /\ batches' = batches /\ working_account_set' = working_account_set
      /\ decision' = decision /\ bank' = bank /\ last_slot' = last_slot
      /\ pc' = pc /\ completing' = completing
  BY DEF WorkerFrame
<1>2. TypeOK'
  BY <1>1 DEF IInv, TypeOK
<1>3. FillSound'
  BY <1>1 DEF IInv, FillSound
<1> QED
  BY <1>1, <1>2, <1>3, OnlyMoved DEF IInv

\* The first batch of a channel and what is left of it are well typed.
LEMMA WorkTypes ==
    /\ NoWork \in Work /\ NoWork.txs = <<>> /\ Idle.work = NoWork
    /\ Idle \in [state : {"idle", "consume", "retry_drain"}, work : Work]
    /\ \A w \in Work : \A r : r \in [DOMAIN w.txs -> {"no", "now", "later"}] =>
          /\ [work |-> w, retry |-> r] \in Completion
          /\ [work |-> w, retry |-> r].work = w
<1>1. NoWork \in Work /\ NoWork.txs = <<>> /\ Idle.work = NoWork
  BY SMTT(30) DEF NoWork, Work, NoSlot, Idle
<1>2. Idle \in [state : {"idle", "consume", "retry_drain"}, work : Work]
  BY <1>1 DEF Idle
<1>3. ASSUME NEW w \in Work, NEW r \in [DOMAIN w.txs -> {"no", "now", "later"}]
      PROVE  [work |-> w, retry |-> r] \in Completion /\ [work |-> w, retry |-> r].work = w
  <2>1. w.txs \in Seq(Item)
    BY DEF Work
  <2>2. PICK n \in Nat : DOMAIN w.txs = 1 .. n
    BY <2>1, SMTT(30)
  <2>3. r \in Outcomes
    BY <2>2 DEF Outcomes
  <2> QED
    BY <2>3 DEF Completion
<1> QED
  BY <1>1, <1>2, <1>3

\* run keeps the invariant.
LEMMA RunStep == ASSUME IInv, NEW t \in Thread, run(t) PROVE IInv'
<1> DEFINE s == IF bank # NoSlot /\ bank = Head(consume_work[t]).target_slot
                THEN "consume" ELSE "retry_drain"
           a == [state |-> s, work |-> Head(consume_work[t])]
<1>1. /\ worker[t] = Idle /\ consume_work[t] # <<>>
      /\ worker' = [worker EXCEPT ![t] = a]
      /\ consume_work' = [consume_work EXCEPT ![t] = Tail(@)]
      /\ finished_work' = finished_work
  BY DEF run
<1>2. WorkerFrame
  BY DEF run, WorkerFrame, container, pass, control, leader
<1>3. /\ consume_work \in [Thread -> Seq(Work)] /\ finished_work \in Seq(Completion)
      /\ worker \in [Thread -> [state : {"idle", "consume", "retry_drain"}, work : Work]]
  BY DEF IInv, TypeOK
<1>4. Head(consume_work[t]) \in Work /\ Tail(consume_work[t]) \in Seq(Work)
  BY <1>1, <1>3, HeadTail
<1>5. a \in [state : {"idle", "consume", "retry_drain"}, work : Work] /\ a.work = Head(consume_work[t])
  <2>1. s \in {"idle", "consume", "retry_drain"}
    OBVIOUS
  <2> HIDE DEF s
  <2> QED
    BY <1>4, <2>1, SMTT(30)
<1> HIDE DEF a
<1>6. /\ worker'[t].work = Head(consume_work[t]) /\ consume_work'[t] = Tail(consume_work[t])
      /\ \A u \in Thread \ {t} : worker'[u] = worker[u] /\ consume_work'[u] = consume_work[u]
  BY <1>1, <1>3, <1>5
<1>7. worker[t].work.txs = <<>>
  BY <1>1, WorkTypes
<1>8. Moved(Pool, PoolOf(batches, consume_work', worker', finished_work, completing))
  BY <1>1, <1>3, <1>6, <1>7, RunMoved DEF Pool
<1>9. Moved(Pool, Pool')
  BY <1>1, <1>2, <1>8 DEF Pool, WorkerFrame
<1>10. /\ consume_work' \in [Thread -> Seq(Work)]
       /\ worker' \in [Thread -> [state : {"idle", "consume", "retry_drain"}, work : Work]]
  BY <1>1, <1>3, <1>4, <1>5
<1> QED
  BY <1>1, <1>2, <1>3, <1>9, <1>10, WorkerStep

\* consume keeps the invariant.
LEMMA ConsumeStep == ASSUME IInv, NEW t \in Thread, consume(t) PROVE IInv'
<1>1. PICK retry \in retryable_transaction_indexes(worker[t].work.txs) :
          finished_work' = Answer(worker[t].work, retry)
  BY DEF consume
<1>2. worker' = [worker EXCEPT ![t] = Idle] /\ consume_work' = consume_work
  BY DEF consume
<1>3. WorkerFrame
  BY DEF consume, WorkerFrame, container, pass, control, leader
<1>4. /\ consume_work \in [Thread -> Seq(Work)] /\ finished_work \in Seq(Completion)
      /\ worker \in [Thread -> [state : {"idle", "consume", "retry_drain"}, work : Work]]
  BY DEF IInv, TypeOK
<1> DEFINE a == [work |-> worker[t].work, retry |-> retry]
<1>5. worker[t].work \in Work
  BY <1>4
<1>6. a \in Completion /\ a.work = worker[t].work
  BY <1>5, WorkTypes DEF retryable_transaction_indexes
<1>7. finished_work' = Append(finished_work, a)
  BY <1>1 DEF Answer
<1> HIDE DEF a
<1>8. worker'[t].work.txs = <<>> /\ \A u \in Thread \ {t} : worker'[u] = worker[u]
  BY <1>2, <1>4, WorkTypes, SMTT(30)
<1>9. Moved(Pool, PoolOf(batches, consume_work, worker', Append(finished_work, a), completing))
  BY <1>4, <1>6, <1>8, AnswerMoved DEF Pool
<1>10. Moved(Pool, Pool')
  BY <1>2, <1>3, <1>7, <1>9 DEF Pool, WorkerFrame
<1>11. worker' \in [Thread -> [state : {"idle", "consume", "retry_drain"}, work : Work]]
  BY <1>2, <1>4, WorkTypes
<1>12. finished_work' \in Seq(Completion)
  BY <1>4, <1>6, <1>7, SMTT(30)
<1> QED
  BY <1>2, <1>3, <1>4, <1>10, <1>11, <1>12, WorkerStep

\* The batches move on, and on.
LEMMA MovedTwice ==
    ASSUME NEW P, NEW Q, NEW R, Moved(P, Q), Moved(Q, R) PROVE Moved(P, R)
<1>1. PICK f \in [Place -> Place] :
        /\ \A p \in Place : Q[p].txs = <<>> \/ (Q[p] = P[f[p]] /\ (f[p] = CompletedAt => p = CompletedAt))
        /\ \A p, q \in Place : Q[p].txs # <<>> /\ Q[q].txs # <<>> /\ f[p] = f[q] => p = q
        /\ \A p \in Place : P[p].txs = <<>> \/ \E q \in Place : Q[q] = P[p]
  BY DEF Moved
<1>2. PICK g \in [Place -> Place] :
        /\ \A p \in Place : R[p].txs = <<>> \/ (R[p] = Q[g[p]] /\ (g[p] = CompletedAt => p = CompletedAt))
        /\ \A p, q \in Place : R[p].txs # <<>> /\ R[q].txs # <<>> /\ g[p] = g[q] => p = q
        /\ \A p \in Place : Q[p].txs = <<>> \/ \E q \in Place : R[q] = Q[p]
  BY DEF Moved
<1> DEFINE h == [p \in Place |-> f[g[p]]]
<1>3. h \in [Place -> Place] /\ \A p \in Place : h[p] = f[g[p]] /\ g[p] \in Place
  BY <1>1, <1>2
<1> HIDE DEF h
<1>4. ASSUME NEW p \in Place, R[p].txs # <<>>
      PROVE  /\ R[p] = Q[g[p]] /\ Q[g[p]].txs # <<>> /\ R[p] = P[h[p]]
             /\ h[p] = CompletedAt => p = CompletedAt
  <2>1. R[p] = Q[g[p]] /\ (g[p] = CompletedAt => p = CompletedAt)
    BY <1>2, <1>4
  <2>2. Q[g[p]].txs # <<>>
    BY <1>4, <2>1
  <2>3. Q[g[p]] = P[f[g[p]]] /\ (f[g[p]] = CompletedAt => g[p] = CompletedAt)
    BY <1>1, <1>3, <2>2
  <2> QED
    BY <1>3, <2>1, <2>2, <2>3
<1>5. \A p, q \in Place : R[p].txs # <<>> /\ R[q].txs # <<>> /\ h[p] = h[q] => p = q
  <2> SUFFICES ASSUME NEW p \in Place, NEW q \in Place, R[p].txs # <<>>, R[q].txs # <<>>, h[p] = h[q]
               PROVE  p = q
    OBVIOUS
  <2>1. g[p] \in Place /\ g[q] \in Place /\ f[g[p]] = f[g[q]]
    BY <1>3
  <2>2. Q[g[p]].txs # <<>> /\ Q[g[q]].txs # <<>>
    BY <1>4
  <2>3. g[p] = g[q]
    BY <1>1, <2>1, <2>2
  <2> QED
    BY <1>2, <2>3
<1>6. \A p \in Place : P[p].txs = <<>> \/ \E q \in Place : R[q] = P[p]
  <2> SUFFICES ASSUME NEW p \in Place, P[p].txs # <<>> PROVE \E q \in Place : R[q] = P[p]
    OBVIOUS
  <2>1. PICK y \in Place : Q[y] = P[p]
    BY <1>1
  <2>2. Q[y].txs # <<>>
    BY <2>1
  <2>3. PICK q \in Place : R[q] = Q[y]
    BY <1>2, <2>2
  <2> QED
    BY <2>1, <2>3
<1>7. \A p \in Place : R[p].txs = <<>> \/ (R[p] = P[h[p]] /\ (h[p] = CompletedAt => p = CompletedAt))
  BY <1>4
<1> QED
  BY <1>3, <1>5, <1>6, <1>7 DEF Moved

\* retry_drain keeps the invariant: one batch goes back, the next is taken up.
LEMMA RetryDrainStep == ASSUME IInv, NEW t \in Thread, retry_drain(t) PROVE IInv'
<1> DEFINE r == [k \in DOMAIN worker[t].work.txs |-> "now"]
           a == [work |-> worker[t].work, retry |-> r]
           v == [worker EXCEPT ![t] = Idle]
           f == Append(finished_work, a)
           W == [state : {"idle", "consume", "retry_drain"}, work : Work]
<1>1. finished_work' = f
  BY DEF retry_drain, Answer
<1>2. WorkerFrame
  BY DEF retry_drain, WorkerFrame, container, pass, control, leader
<1>3. /\ consume_work \in [Thread -> Seq(Work)] /\ finished_work \in Seq(Completion)
      /\ worker \in [Thread -> W]
  BY DEF IInv, TypeOK
<1>4. worker[t].work \in Work /\ r \in [DOMAIN worker[t].work.txs -> {"no", "now", "later"}]
  BY <1>3
<1> HIDE DEF r
<1>5. a \in Completion /\ a.work = worker[t].work
  BY <1>4, WorkTypes
<1> HIDE DEF a
<1>6. f \in Seq(Completion)
  BY <1>3, <1>5, SMTT(30)
<1>7. /\ v[t].work.txs = <<>> /\ \A u \in Thread \ {t} : v[u] = worker[u]
      /\ v \in [Thread -> W]
  BY <1>3, WorkTypes, SMTT(30)
<1>8. Moved(Pool, PoolOf(batches, consume_work, v, f, completing))
  BY <1>3, <1>5, <1>7, AnswerMoved DEF Pool
<1> HIDE DEF v, f
<1>9. CASE consume_work[t] = <<>>
  <2>1. worker' = v /\ consume_work' = consume_work
    BY <1>9 DEF retry_drain, v
  <2>2. Moved(Pool, Pool')
    BY <1>1, <1>2, <1>8, <2>1 DEF Pool, WorkerFrame
  <2> QED
    BY <1>1, <1>2, <1>3, <1>6, <1>7, <2>1, <2>2, WorkerStep
<1>10. CASE consume_work[t] # <<>>
  <2>1. /\ worker' = [worker EXCEPT ![t].work = Head(consume_work[t])]
        /\ consume_work' = [consume_work EXCEPT ![t] = Tail(@)]
    BY <1>10 DEF retry_drain
  <2>2. Head(consume_work[t]) \in Work /\ Tail(consume_work[t]) \in Seq(Work)
    BY <1>3, <1>10, HeadTail
  <2>3. /\ worker'[t].work = Head(consume_work[t]) /\ worker' \in [Thread -> W]
        /\ \A u \in Thread \ {t} : worker'[u] = worker[u]
    BY <1>3, <2>1, <2>2
  <2>4. \A u \in Thread \ {t} : worker'[u] = v[u]
    BY <1>7, <2>3
  <2>5. /\ consume_work'[t] = Tail(consume_work[t]) /\ consume_work' \in [Thread -> Seq(Work)]
        /\ \A u \in Thread \ {t} : consume_work'[u] = consume_work[u]
    BY <1>3, <2>1, <2>2
  <2>6. Moved(PoolOf(batches, consume_work, v, f, completing),
              PoolOf(batches, consume_work', worker', f, completing))
    BY <1>3, <1>7, <1>10, <2>3, <2>4, <2>5, RunMoved
  <2>7. Moved(Pool, PoolOf(batches, consume_work', worker', f, completing))
    BY <1>8, <2>6, MovedTwice
  <2>8. Moved(Pool, Pool')
    BY <1>1, <1>2, <2>7 DEF Pool, WorkerFrame
  <2> QED
    BY <1>1, <1>2, <1>6, <2>3, <2>5, <2>8, WorkerStep
<1> QED
  BY <1>9, <1>10
-----------------------------------------------------------------------------
(***************************************************************************)
(* The steps that change the container.                                    *)
(***************************************************************************)
\* The part of the invariant that is about the container alone.
Contained ==
    /\ StateOK(id_to_transaction_state)
    /\ Sound(Pool, id_to_transaction_state, holder,
             priority_queue, held_transactions, unschedulables, arrived)
    /\ Cardinality(DOMAIN id_to_transaction_state) <= capacity

\* The variables of the batches and of the workers.
BatchFrame ==
    UNCHANGED <<working_account_set, batches, consume_work, worker, finished_work, bank, last_slot>>

\* A step of the scheduler thread that leaves the batches alone keeps the
\* invariant when it keeps the container sound.
LEMMA ContainerStep ==
    ASSUME IInv, BatchFrame, Contained', holder' \in [Tx -> Thread \cup {NoThread}],
           arrived' \subseteq Tx, completing' \in Completion,
           decision'.kind \in {"consume", "hold", "forward_and_hold", "forward"},
           decision'.slot \in Nat, pc' # "complete" => completing' = NoCompletion
    PROVE  IInv'
<1>1. /\ working_account_set' = working_account_set /\ batches' = batches
      /\ consume_work' = consume_work /\ worker' = worker /\ finished_work' = finished_work
      /\ bank' = bank /\ last_slot' = last_slot
  BY DEF BatchFrame
<1>2. StateOK(id_to_transaction_state)'
  BY DEF Contained
<1>3. TypeOK'
  BY <1>1, <1>2 DEF IInv, TypeOK
<1>4. FillSound'
  BY <1>1 DEF IInv, FillSound
<1> QED
  BY <1>3, <1>4 DEF IInv, Contained

\* The invariant says that the container is sound.
LEMMA IInvContained == IInv => Contained
BY DEF IInv, TypeOK, Contained

\* The leader's bank comes and goes without any effect on the batches.
LEMMA SetBankStep == ASSUME IInv, set_bank \/ UNCHANGED vars PROVE IInv'
<1>1. /\ id_to_transaction_state' = id_to_transaction_state /\ holder' = holder
      /\ priority_queue' = priority_queue /\ held_transactions' = held_transactions
      /\ unschedulables' = unschedulables /\ arrived' = arrived
      /\ worker' = worker /\ consume_work' = consume_work /\ batches' = batches
      /\ decision' = decision /\ working_account_set' = working_account_set
      /\ completing' = completing /\ finished_work' = finished_work /\ pc' = pc
  BY DEF set_bank, container, pass, control, channels, vars
<1>2. TypeOK
  BY DEF IInv
<1>3. bank' \in Nat /\ last_slot' \in Nat
  BY <1>2, SMTT(30) DEF TypeOK, set_bank, vars, leader, NoSlot
<1>4. TypeOK'
  BY <1>1, <1>2, <1>3 DEF TypeOK
<1>5. Pool' = Pool
  BY <1>1 DEF Pool
<1>6. FillSound'
  BY <1>1 DEF IInv, FillSound
<1> QED
  BY <1>1, <1>4, <1>5, <1>6 DEF IInv

\* decide keeps the invariant: the held transactions go back to the queue.
LEMMA DecideStep == ASSUME Counting, IInv, decide PROVE IInv'
<1>1. /\ holder' = holder /\ arrived' = arrived /\ completing' = completing
      /\ batches' = batches /\ consume_work' = consume_work /\ worker' = worker
      /\ finished_work' = finished_work /\ unschedulables' = unschedulables
  BY DEF decide, pass, channels
<1>2. BatchFrame
  BY DEF decide, pass, channels, leader, BatchFrame
<1>3. pc # "complete" /\ pc' # "complete"
  BY SMTT(30) DEF decide
<1>4. Contained
  BY IInvContained
<1>5. /\ decision'.kind \in {"consume", "hold", "forward_and_hold", "forward"}
      /\ decision'.slot \in Nat
  BY SMTT(30) DEF decide, IInv, TypeOK, NoSlot
<1>6. Contained'
  <2>1. Pool' = Pool
    BY <1>1 DEF Pool
  <2>2. CASE most_recent_leader_slot # decision'.slot
    <3>1. /\ push_ids_into_queue(id_to_transaction_state, priority_queue, held_transactions)
          /\ held_transactions' = {}
      BY <2>2 DEF decide
    <3>2. priority_queue \cup held_transactions \subseteq DOMAIN id_to_transaction_state
      BY <1>4, Requeued DEF Contained
    <3>3. /\ priority_queue' = priority_queue \cup held_transactions
          /\ id_to_transaction_state' = id_to_transaction_state
      BY <1>4, <3>1, <3>2, PushedAll DEF Contained
    <3>4. Sound(Pool, id_to_transaction_state, holder,
                priority_queue \cup held_transactions, {}, unschedulables, arrived)
      BY <1>4, Requeued DEF Contained
    <3> QED
      BY <1>1, <1>4, <2>1, <3>1, <3>3, <3>4 DEF Contained
  <2>3. CASE most_recent_leader_slot = decision'.slot
    <3>1. UNCHANGED container
      BY <2>3 DEF decide
    <3>2. /\ id_to_transaction_state' = id_to_transaction_state
          /\ priority_queue' = priority_queue /\ held_transactions' = held_transactions
      BY <3>1 DEF container
    <3> QED
      BY <1>1, <1>4, <2>1, <3>2 DEF Contained
  <2> QED
    BY <2>2, <2>3
<1>7. completing' = NoCompletion
  BY <1>1, <1>3 DEF IInv
<1> QED
  BY <1>1, <1>2, <1>5, <1>6, <1>7, ContainerStep DEF IInv, TypeOK

\* process_transactions keeps the invariant, whatever the decision.
LEMMA ProcessStep == ASSUME Counting, IInv, process_transactions PROVE IInv'
<1>1. /\ holder' = holder /\ arrived' = arrived /\ completing' = completing
      /\ batches' = batches /\ consume_work' = consume_work /\ worker' = worker
      /\ finished_work' = finished_work /\ unschedulables' = unschedulables
      /\ held_transactions' = held_transactions /\ decision' = decision
  BY DEF process_transactions, channels, control
<1>2. BatchFrame
  BY DEF process_transactions, channels, leader, BatchFrame
<1>3. Contained
  BY IInvContained
<1>4. completing' = NoCompletion
  BY <1>1, SMTT(30) DEF process_transactions, IInv
<1>5. Pool' = Pool
  BY <1>1 DEF Pool
<1> DEFINE S == id_to_transaction_state
<1>6. \E D \in SUBSET priority_queue :
         /\ priority_queue' = priority_queue \ D
         /\ id_to_transaction_state' = [i \in DOMAIN S \ D |-> S[i]]
  <2>0. StateOK(S) /\ priority_queue \subseteq DOMAIN S
    BY <1>3, Requeued DEF Contained
  <2>1. CASE id_to_transaction_state' = S /\ priority_queue' = priority_queue
    <3>1. S = [i \in DOMAIN S |-> S[i]]
      BY <2>0 DEF StateOK
    <3>2. DOMAIN S \ {} = DOMAIN S /\ priority_queue \ {} = priority_queue
      OBVIOUS
    <3> QED
      BY <2>1, <3>1, <3>2
  <2>2. CASE clear_container
    <3>1. priority_queue \ priority_queue = {}
      OBVIOUS
    <3> QED
      BY <2>2, <3>1 DEF clear_container, remove_by_id, Restrict
  <2>3. CASE clean_queue
    <3>1. PICK F \in SUBSET priority_queue :
              push_ids_into_queue(remove_by_id(S, F), {}, priority_queue \ F)
      BY <2>3 DEF clean_queue
    <3> DEFINE R == remove_by_id(S, F)
    <3>2. R = [i \in DOMAIN S \ F |-> S[i]] /\ DOMAIN R = DOMAIN S \ F
      BY DEF remove_by_id, Restrict
    <3> HIDE DEF R
    <3>3. StateOK(R)
      BY <1>3, <3>2, Dropped DEF Contained
    <3>4. Cardinality(DOMAIN R) <= capacity
      <4>1. DOMAIN S \in SUBSET Id /\ DOMAIN R \in SUBSET DOMAIN S
        BY <2>0, <3>2 DEF StateOK
      <4>2. DOMAIN R \in SUBSET Id
        BY <4>1
      <4>3. /\ Cardinality(DOMAIN R) \in Nat /\ Cardinality(DOMAIN S) \in Nat /\ IsFiniteSet(DOMAIN S)
            /\ capacity \in Nat
        BY <4>1, <4>2, FiniteKeys, CapacityAssumption
      <4>4. Cardinality(DOMAIN R) <= Cardinality(DOMAIN S)
        BY <4>1, <4>3 DEF Counting, FiniteSubset
      <4> QED
        BY <1>3, <4>3, <4>4, SMTT(30) DEF Contained
    <3>5. {} \cup (priority_queue \ F) \subseteq DOMAIN R
      BY <2>0, <3>2
    <3>6. priority_queue' = {} \cup (priority_queue \ F) /\ id_to_transaction_state' = R
      BY <3>1, <3>3, <3>4, <3>5, PushedAll DEF R
    <3>7. {} \cup (priority_queue \ F) = priority_queue \ F
      OBVIOUS
    <3> QED
      BY <3>2, <3>6, <3>7
  <2>4. decision.kind \in {"consume", "hold", "forward_and_hold", "forward"}
    BY DEF IInv, TypeOK
  <2> QED
    BY <2>1, <2>2, <2>3, <2>4 DEF process_transactions
<1>7. PICK D \in SUBSET priority_queue :
         /\ priority_queue' = priority_queue \ D
         /\ id_to_transaction_state' = [i \in DOMAIN S \ D |-> S[i]]
  BY <1>6
<1>8. /\ StateOK(id_to_transaction_state')
      /\ Sound(Pool, id_to_transaction_state', holder, priority_queue \ D, held_transactions,
               unschedulables, arrived)
  BY <1>3, <1>7, Dropped DEF Contained
<1>9. Cardinality(DOMAIN id_to_transaction_state') <= capacity
  <2>1. DOMAIN S \in SUBSET Id /\ DOMAIN id_to_transaction_state' \in SUBSET DOMAIN S
    BY <1>3, <1>7 DEF Contained, StateOK
  <2>2. DOMAIN id_to_transaction_state' \in SUBSET Id
    BY <2>1
  <2>3. /\ Cardinality(DOMAIN id_to_transaction_state') \in Nat /\ Cardinality(DOMAIN S) \in Nat
        /\ IsFiniteSet(DOMAIN S) /\ capacity \in Nat
    BY <2>1, <2>2, FiniteKeys, CapacityAssumption
  <2>4. Cardinality(DOMAIN id_to_transaction_state') <= Cardinality(DOMAIN S)
    BY <2>1, <2>3 DEF Counting, FiniteSubset
  <2> QED
    BY <1>3, <2>3, <2>4, SMTT(30) DEF Contained
<1>10. Contained'
  BY <1>1, <1>5, <1>7, <1>8, <1>9 DEF Contained
<1> QED
  BY <1>1, <1>2, <1>4, <1>10, ContainerStep DEF IInv, TypeOK

\* A transaction of the batch being completed is unlocked.
LEMMA CompleteStep == ASSUME IInv, complete_batch PROVE IInv'
<1> DEFINE S == id_to_transaction_state
           txs == completing.work.txs
<1>1. PICK k \in StillLocked : holder' = [holder EXCEPT ![txs[k].tx] = NoThread]
  BY DEF complete_batch
<1>2. /\ id_to_transaction_state' = S /\ arrived' = arrived /\ completing' = completing
      /\ priority_queue' = priority_queue /\ held_transactions' = held_transactions
      /\ unschedulables' = unschedulables /\ decision' = decision /\ pc' = pc
      /\ batches' = batches /\ consume_work' = consume_work /\ worker' = worker
      /\ finished_work' = finished_work
  BY DEF complete_batch, container, pass, control, channels
<1>3. BatchFrame
  BY DEF complete_batch, pass, channels, leader, BatchFrame
<1>4. Contained /\ holder \in [Tx -> Thread \cup {NoThread}]
  BY IInvContained DEF IInv, TypeOK
<1>5. Pool' = Pool
  BY <1>2 DEF Pool
<1>6. Pool[CompletedAt].txs = txs
  BY PoolNow DEF PoolIs
<1>7. k \in DOMAIN Pool[CompletedAt].txs
  BY <1>1, <1>6 DEF StillLocked
<1>8. holder' = [holder EXCEPT ![Pool[CompletedAt].txs[k].tx] = NoThread]
  BY <1>1, <1>6
<1>9. EntriesSound(S, holder, arrived)
  BY <1>4 DEF Contained, Sound
<1>10. \A i, j \in DOMAIN S : S[i].tx = S[j].tx => i = j
  BY <1>9 DEF EntriesSound
<1>11. PoolSound(Pool, S, holder')
  BY <1>4, <1>7, <1>8, <1>10, ItemUnlocked DEF Contained, Sound
<1>12. /\ holder' \in [Tx -> Thread \cup {NoThread}]
       /\ \A x \in Tx : holder'[x] # NoThread => holder[x] # NoThread
  BY <1>1, <1>4
<1>13. EntriesSound(S, holder', arrived)
  BY <1>9, <1>12 DEF EntriesSound
<1>14. Sound(Pool, S, holder', priority_queue, held_transactions, unschedulables, arrived)
  BY <1>4, <1>11, <1>13 DEF Sound, Contained
<1>15. Contained'
  BY <1>2, <1>4, <1>5, <1>14 DEF Contained
<1> QED
  BY <1>2, <1>3, <1>12, <1>15, ContainerStep DEF IInv, TypeOK

\* end_schedule keeps the invariant.
LEMMA EndStep == ASSUME Counting, IInv, end_schedule PROVE IInv'
<1> DEFINE r == Sent(batches, consume_work, decision.slot)
<1>1. batches' = Empty /\ consume_work' = r /\ unschedulables' = {}
  BY DEF end_schedule, send_batches, Sent
<1>2. /\ holder' = holder /\ held_transactions' = held_transactions /\ arrived' = arrived
      /\ worker' = worker /\ finished_work' = finished_work /\ completing' = completing
      /\ decision' = decision /\ bank' = bank /\ last_slot' = last_slot
  BY DEF end_schedule, control, leader
<1>3. TypeOK /\ Contained
  BY IInvContained DEF IInv
<1>4. r \in [Thread -> Seq(Work)] /\ Empty \in [Thread -> Seq(Item)]
  BY <1>3, SentType DEF TypeOK
<1>5. Moved(Pool, PoolOf(Empty, r, worker, finished_work, completing))
  BY <1>3, SendMoved DEF TypeOK, Pool
<1> HIDE DEF r
<1>6. Moved(Pool, Pool')
  BY <1>1, <1>2, <1>5 DEF Pool
<1>7. push_ids_into_queue(id_to_transaction_state, priority_queue, unschedulables)
  BY DEF end_schedule
<1>8. priority_queue \cup unschedulables \subseteq DOMAIN id_to_transaction_state
  BY <1>3, Requeued DEF Contained
<1>9. /\ priority_queue' = priority_queue \cup unschedulables
      /\ id_to_transaction_state' = id_to_transaction_state
  BY <1>3, <1>7, <1>8, PushedAll DEF Contained
<1>10. Sound(Pool, id_to_transaction_state, holder, priority_queue \cup unschedulables,
             held_transactions, {}, arrived)
  BY <1>3, Requeued DEF Contained
<1>11. PoolSound(Pool', id_to_transaction_state, holder)
  BY <1>6, <1>10, MovedKeeps DEF Sound
<1>12. Sound(Pool', id_to_transaction_state, holder, priority_queue \cup unschedulables,
             held_transactions, {}, arrived)
  BY <1>10, <1>11 DEF Sound
<1>13. Contained'
  BY <1>1, <1>2, <1>3, <1>9, <1>12 DEF Contained
<1>14. TypeOK'
  BY <1>1, <1>2, <1>3, <1>4, <1>9 DEF TypeOK
<1>15. FillSound'
  BY <1>1, FillEmpty
<1>16. completing' = NoCompletion
  BY <1>2, SMTT(30) DEF end_schedule, IInv
<1> QED
  BY <1>13, <1>14, <1>15, <1>16 DEF IInv, Contained

\* The batch is back: its transactions are queued again, held, or removed.
LEMMA FinishStep == ASSUME Counting, IInv, finish_completed PROVE IInv'
<1> DEFINE S == id_to_transaction_state
           txs == completing.work.txs
           With(o) == {txs[k].id : k \in {j \in DOMAIN txs : completing.retry[j] = o}}
           ids == KeysOf(txs)
           retry == With("now") \cup With("later")
           R == retry_transaction(ids, retry)
<1>1. /\ push_ids_into_queue(R, priority_queue, With("now"))
      /\ held_transactions' = held_transactions \cup With("later")
      /\ completing' = NoCompletion /\ StillLocked = {}
  <2>1. {e.id : e \in Range(txs)} = ids
    BY DEF Range, KeysOf
  <2> QED
    BY <2>1 DEF finish_completed
<1>2. /\ arrived' = arrived /\ holder' = holder /\ unschedulables' = unschedulables
      /\ decision' = decision /\ batches' = batches /\ consume_work' = consume_work
      /\ worker' = worker /\ finished_work' = finished_work
  BY DEF finish_completed, pass, channels
<1>3. BatchFrame
  BY DEF finish_completed, pass, channels, leader, BatchFrame
<1>4. TypeOK /\ Contained
  BY IInvContained DEF IInv
<1>5. /\ PoolSound(Pool, S, holder) /\ EntriesSound(S, holder, arrived) /\ StateOK(S)
      /\ PlacesSound(S, priority_queue, held_transactions, unschedulables)
  BY <1>4 DEF Contained, Sound
<1>6. Pool[CompletedAt].txs = txs /\ CompletedAt \in Place
  BY PoolNow, Places DEF PoolIs
<1>7. \A k \in DOMAIN txs : /\ txs[k].id \in DOMAIN S /\ S[txs[k].id].taken
                            /\ S[txs[k].id].tx = txs[k].tx
  <2>1. ItemsSound(Pool, S, holder)
    BY <1>5 DEF PoolSound
  <2>2. \A k \in DOMAIN Pool[CompletedAt].txs :
           ItemSound(Pool, S, holder, CompletedAt, Pool[CompletedAt].txs[k])
    BY <1>6, <2>1 DEF ItemsSound
  <2> QED
    BY <1>6, <2>2 DEF ItemSound
<1>8. \A j, k \in DOMAIN txs : txs[j].id = txs[k].id => j = k
  <2>1. OnceIn(Pool)
    BY <1>5 DEF PoolSound
  <2>2. \A j, k \in DOMAIN Pool[CompletedAt].txs :
           Pool[CompletedAt].txs[j].id = Pool[CompletedAt].txs[k].id => j = k
    BY <1>6, <2>1 DEF OnceIn
  <2> QED
    BY <1>6, <2>2
<1>9. /\ With("now") \subseteq ids /\ With("later") \subseteq ids /\ ids \subseteq DOMAIN S
      /\ With("now") \cap With("later") = {} /\ \A i \in ids : S[i].taken
  <2>1. With("now") \subseteq ids /\ With("later") \subseteq ids
    BY DEF KeysOf
  <2>2. ids \subseteq DOMAIN S /\ \A i \in ids : S[i].taken
    BY <1>7 DEF KeysOf
  <2>3. With("now") \cap With("later") = {}
    <3> SUFFICES ASSUME NEW j \in DOMAIN txs, completing.retry[j] = "now",
                        NEW k \in DOMAIN txs, completing.retry[k] = "later",
                        txs[j].id = txs[k].id
                 PROVE  FALSE
      OBVIOUS
    <3>1. j = k
      BY <1>8
    <3> QED
      BY <3>1, SMTT(30)
  <2> QED
    BY <2>1, <2>2, <2>3
<1>10. \A i \in DOMAIN S : holder[S[i].tx] # NoThread => i \notin ids
  <2> SUFFICES ASSUME NEW k \in DOMAIN txs, holder[S[txs[k].id].tx] # NoThread PROVE FALSE
    BY DEF KeysOf
  <2>1. holder[txs[k].tx] # NoThread
    BY <1>7
  <2> QED
    BY <1>1, <2>1 DEF StillLocked
<1> HIDE DEF With, ids, txs
<1>11. /\ DOMAIN R = DOMAIN S \ (ids \ retry)
       /\ \A i \in DOMAIN R : /\ i \in retry => R[i] = [S[i] EXCEPT !.taken = FALSE]
                              /\ i \notin retry => R[i] = S[i]
  BY DEF retry_transaction
<1>12. /\ R \in [DOMAIN R -> State]
       /\ \A i \in DOMAIN R : /\ R[i].tx = S[i].tx
                              /\ i \in retry => ~ R[i].taken
                              /\ i \notin retry => R[i] = S[i]
  <2> HIDE DEF retry
  <2>1. S \in [DOMAIN S -> State] /\ DOMAIN R \subseteq DOMAIN S
    BY <1>5, <1>11 DEF StateOK
  <2>2. ASSUME NEW i \in DOMAIN R PROVE /\ R[i] \in State /\ R[i].tx = S[i].tx
                                        /\ i \in retry => ~ R[i].taken
                                        /\ i \notin retry => R[i] = S[i]
    <3>1. S[i] \in State
      BY <2>1
    <3>2. [S[i] EXCEPT !.taken = FALSE] \in State
      BY <3>1 DEF State
    <3>3. [S[i] EXCEPT !.taken = FALSE].tx = S[i].tx /\ ~ [S[i] EXCEPT !.taken = FALSE].taken
      BY <3>1, SMTT(30) DEF State
    <3>4. /\ i \in retry => R[i] = [S[i] EXCEPT !.taken = FALSE]
          /\ i \notin retry => R[i] = S[i]
      BY <1>11
    <3> QED
      BY <3>1, <3>2, <3>3, <3>4
  <2>3. R = [i \in DOMAIN R |-> R[i]]
    BY DEF retry_transaction
  <2> QED
    BY <2>2, <2>3
<1> HIDE DEF R
<1>13. StateOK(R) /\ DOMAIN R \in SUBSET DOMAIN S /\ DOMAIN S \in SUBSET Id
  <2>1. DOMAIN R \in SUBSET DOMAIN S /\ DOMAIN S \in SUBSET Id
    BY <1>5, <1>11 DEF StateOK
  <2> QED
    BY <1>12, <2>1 DEF StateOK
<1>14. Cardinality(DOMAIN R) <= capacity
  <2>1. DOMAIN R \in SUBSET Id
    BY <1>13
  <2>2. /\ Cardinality(DOMAIN R) \in Nat /\ Cardinality(DOMAIN S) \in Nat /\ IsFiniteSet(DOMAIN S)
        /\ capacity \in Nat
    BY <1>13, <2>1, FiniteKeys, CapacityAssumption
  <2>3. Cardinality(DOMAIN R) <= Cardinality(DOMAIN S)
    BY <1>13, <2>2 DEF Counting, FiniteSubset
  <2> QED
    BY <1>4, <2>2, <2>3, SMTT(30) DEF Contained
<1>15. priority_queue \cup With("now") \subseteq DOMAIN R
  BY <1>5, <1>9, <1>11 DEF PlacesSound
<1>16. priority_queue' = priority_queue \cup With("now") /\ id_to_transaction_state' = R
  BY <1>1, <1>13, <1>14, <1>15, PushedAll
<1>17. PoolSound(Pool', R, holder)
  <2>1. PoolIs(Pool', batches', consume_work', worker', finished_work', completing')
    BY PoolAt DEF Pool
  <2>2. Pool'[CompletedAt].txs = <<>>
    <3>1. Pool'[CompletedAt].txs = completing'.work.txs
      BY <2>1 DEF PoolIs
    <3>2. NoCompletion.work.txs = <<>>
      BY SMTT(30) DEF NoCompletion, NoWork
    <3> QED
      BY <1>1, <3>1, <3>2
  <2>3. \A p \in Place : p # CompletedAt => Pool'[p] = Pool[p]
    BY <1>2, SMTT(30) DEF Pool, PoolOf, LoadAt, Place, BatchAt, QueuedAt, WorkerAt, BackAt, CompletedAt
  <2>4. ids = KeysOf(Pool[CompletedAt].txs)
    BY <1>6 DEF ids
  <2>5. \A i \in DOMAIN S \ ids : i \in DOMAIN R /\ R[i] = S[i]
    BY <1>9, <1>11, <1>12
  <2>6. \A i \in DOMAIN R : i \in DOMAIN S /\ (i \in ids => ~ R[i].taken)
    BY <1>11, <1>12
  <2> QED
    BY <1>5, <2>2, <2>3, <2>4, <2>5, <2>6, BatchCompleted
<1>18. PlacesSound(R, priority_queue \cup With("now"),
                   held_transactions \cup With("later"), unschedulables)
  <2>1. {i \in DOMAIN R : ~ R[i].taken} = {i \in DOMAIN S : ~ S[i].taken} \cup retry
    <3>1. ASSUME NEW i PROVE i \in DOMAIN R /\ ~ R[i].taken <=> (i \in DOMAIN S /\ ~ S[i].taken) \/ i \in retry
      <4>1. CASE i \in retry
        BY <1>9, <1>11, <1>12, <4>1
      <4>2. CASE i \notin retry
        BY <1>9, <1>11, <1>12, <4>2
      <4> QED
        BY <4>1, <4>2
    <3> HIDE DEF retry
    <3> QED
      BY <3>1, SMTT(30)
  <2> QED
    BY <1>5, <1>9, <2>1, SMTT(30) DEF PlacesSound
<1>19. EntriesSound(R, holder, arrived)
  <2>0. \A i, j \in DOMAIN S : S[i].tx = S[j].tx => i = j
    BY <1>5 DEF EntriesSound
  <2>1. ASSUME NEW i \in DOMAIN R, NEW j \in DOMAIN R, R[i].tx = R[j].tx PROVE i = j
    <3>1. S[i].tx = S[j].tx
      BY <1>12, <2>1
    <3> QED
      BY <1>13, <2>0, <3>1
  <2>2. \A i \in DOMAIN R : R[i].tx \in arrived
    BY <1>5, <1>12, <1>13 DEF EntriesSound
  <2>3. ASSUME NEW x \in Tx, holder[x] # NoThread
        PROVE  \E i \in DOMAIN R : R[i].taken /\ R[i].tx = x
    <3>1. PICK i \in DOMAIN S : S[i].taken /\ S[i].tx = x
      BY <1>5, <2>3 DEF EntriesSound
    <3>2. i \notin ids /\ i \notin retry
      BY <1>9, <1>10, <2>3, <3>1
    <3>3. i \in DOMAIN R /\ R[i] = S[i]
      BY <1>11, <1>12, <3>1, <3>2
    <3> QED
      BY <3>1, <3>3
  <2> QED
    BY <2>1, <2>2, <2>3 DEF EntriesSound
<1>20. Sound(Pool', R, holder, priority_queue \cup With("now"),
             held_transactions \cup With("later"), unschedulables, arrived)
  BY <1>17, <1>18, <1>19 DEF Sound
<1>21. Contained'
  BY <1>1, <1>2, <1>13, <1>14, <1>16, <1>20 DEF Contained
<1>22. NoCompletion \in Completion
  <2>1. <<>> \in [DOMAIN NoWork.txs -> {"no", "now", "later"}]
    BY SMTT(30) DEF NoWork
  <2> QED
    BY <2>1, WorkTypes DEF NoCompletion
<1> QED
  BY <1>1, <1>2, <1>3, <1>4, <1>21, <1>22, ContainerStep DEF TypeOK

\* The accounts of the batches being filled keep conflicts out of them.
LEMMA NoConflict ==
    ASSUME FillSound, NEW x, check_locks(x), NEW t \in Thread, NEW j \in DOMAIN batches[t]
    PROVE  ~ Conflict(batches[t][j].tx, x)
<1>1. /\ Writes(batches[t][j].tx) \subseteq working_account_set.write
      /\ Reads(batches[t][j].tx) \subseteq working_account_set.read
  BY DEF FillSound
<1> QED
  BY <1>1, SMTT(30) DEF check_locks, Conflict

Batch == [thread : Thread \cup {NoThread}, txs : Seq(Item)]

\* The pool is well typed.
LEMMA PoolType == ASSUME TypeOK PROVE Pool \in [Place -> Batch]
<1>1. \A w \in Work : Load(w) \in Batch
  BY SMTT(30) DEF Load, Work, Batch
<1>2. Nothing \in Batch
  BY SMTT(30) DEF Nothing, Batch
<1>3. /\ batches \in [Thread -> Seq(Item)] /\ consume_work \in [Thread -> Seq(Work)]
      /\ worker \in [Thread -> [state : {"idle", "consume", "retry_drain"}, work : Work]]
      /\ finished_work \in Seq(Completion) /\ completing \in Completion
  BY DEF TypeOK
<1>4. \A t \in Thread : Pool[BatchAt(t)] \in Batch /\ Pool[WorkerAt(t)] \in Batch
  <2> SUFFICES ASSUME NEW t \in Thread PROVE Pool[BatchAt(t)] \in Batch /\ Pool[WorkerAt(t)] \in Batch
    OBVIOUS
  <2>1. Pool[BatchAt(t)] = [thread |-> t, txs |-> batches[t]] /\ Pool[WorkerAt(t)] = Load(worker[t].work)
    BY PoolNow DEF PoolIs
  <2>2. batches[t] \in Seq(Item) /\ worker[t].work \in Work
    BY <1>3
  <2>3. [thread |-> t, txs |-> batches[t]] \in Batch
    BY <2>2 DEF Batch
  <2> QED
    BY <1>1, <2>1, <2>2, <2>3
<1>5. \A t \in Thread, n \in Nat : Pool[QueuedAt(t, n)] \in Batch
  <2> SUFFICES ASSUME NEW t \in Thread, NEW n \in Nat PROVE Pool[QueuedAt(t, n)] \in Batch
    OBVIOUS
  <2>1. Pool[QueuedAt(t, n)] = IF n \in DOMAIN consume_work[t] THEN Load(consume_work[t][n]) ELSE Nothing
    BY Places, SMTT(30) DEF Pool, PoolOf, LoadAt, QueuedAt
  <2>2. n \in DOMAIN consume_work[t] => consume_work[t][n] \in Work
    BY <1>3, SMTT(30)
  <2> QED
    BY <1>1, <1>2, <2>1, <2>2
<1>6. \A n \in Nat : Pool[BackAt(n)] \in Batch
  <2> SUFFICES ASSUME NEW n \in Nat PROVE Pool[BackAt(n)] \in Batch
    OBVIOUS
  <2>1. Pool[BackAt(n)] = IF n \in DOMAIN finished_work THEN Load(finished_work[n].work) ELSE Nothing
    BY Places, SMTT(30) DEF Pool, PoolOf, LoadAt, BackAt
  <2>2. n \in DOMAIN finished_work => finished_work[n] \in Completion
    BY <1>3, SMTT(30)
  <2>3. n \in DOMAIN finished_work => finished_work[n].work \in Work
    BY <2>2 DEF Completion
  <2> QED
    BY <1>1, <1>2, <2>1, <2>3
<1>7. Pool[CompletedAt] \in Batch
  <2>1. Pool[CompletedAt] = Load(completing.work)
    BY PoolNow DEF PoolIs
  <2>2. completing.work \in Work
    BY <1>3 DEF Completion
  <2> QED
    BY <1>1, <2>1, <2>2
<1>8. Pool = [p \in Place |-> Pool[p]]
  BY DEF Pool, PoolOf
<1>9. \A p \in Place : Pool[p] \in Batch
  BY <1>4, <1>5, <1>6, <1>7, Places
<1> QED
  BY <1>8, <1>9

\* The pool when the batches being filled change for one thread.
LEMMA PoolAppended ==
    ASSUME TypeOK, NEW t \in Thread, NEW e \in Item,
           NEW b, b = [batches EXCEPT ![t] = Append(@, e)]
    PROVE  PoolOf(b, consume_work, worker, finished_work, completing)
             = [Pool EXCEPT ![BatchAt(t)].txs = Append(@, e)]
<1> DEFINE Q == PoolOf(b, consume_work, worker, finished_work, completing)
           R == [Pool EXCEPT ![BatchAt(t)].txs = Append(@, e)]
<1>1. batches \in [Thread -> Seq(Item)]
  BY DEF TypeOK
<1>2. b[t] = Append(batches[t], e) /\ \A u \in Thread : u # t => b[u] = batches[u]
  BY <1>1
<1>3. BatchAt(t) \in Place
  BY Places
<1>4. Pool[BatchAt(t)] = [thread |-> t, txs |-> batches[t]]
  BY PoolNow DEF PoolIs
<1>5. PoolIs(Q, b, consume_work, worker, finished_work, completing)
  BY PoolAt
<1>6. Q = [p \in Place |-> Q[p]]
  BY DEF PoolOf
<1>7. Pool \in [Place -> Batch]
  BY PoolType
<1>8. /\ R = [p \in Place |-> R[p]] /\ R[BatchAt(t)] = [Pool[BatchAt(t)] EXCEPT !.txs = Append(@, e)]
      /\ \A p \in Place : p # BatchAt(t) => R[p] = Pool[p]
  BY <1>3, <1>7
<1>9. R[BatchAt(t)] = [thread |-> t, txs |-> Append(batches[t], e)]
  <2> DEFINE r == [thread |-> t, txs |-> batches[t]]
  <2>1. r.txs = batches[t] /\ \A c : [r EXCEPT !.txs = c] = [thread |-> t, txs |-> c]
    BY SMTT(30)
  <2> HIDE DEF R, r
  <2>2. R[BatchAt(t)] = [r EXCEPT !.txs = Append(r.txs, e)]
    BY <1>4, <1>8 DEF r
  <2> QED
    BY <2>1, <2>2
<1>10. ASSUME NEW p \in Place, p # BatchAt(t) PROVE Q[p] = Pool[p]
  <2>1. ASSUME NEW u \in Thread, p = BatchAt(u) PROVE Q[p] = Pool[p]
    <3>1. u # t
      BY <1>10, <2>1
    <3>2. Q[BatchAt(u)] = [thread |-> u, txs |-> b[u]]
      BY <1>5 DEF PoolIs
    <3>3. Pool[BatchAt(u)] = [thread |-> u, txs |-> batches[u]]
      BY PoolNow DEF PoolIs
    <3> QED
      BY <1>2, <2>1, <3>1, <3>2, <3>3
  <2>2. CASE \A u \in Thread : p # BatchAt(u)
    BY <2>2, SMTT(30) DEF Pool, PoolOf, LoadAt, Place, BatchAt, WorkerAt, QueuedAt, BackAt, CompletedAt
  <2> QED
    BY <2>1, <2>2
<1> HIDE DEF Q, R
<1>11. \A p \in Place : Q[p] = R[p]
  <2>1. Q[BatchAt(t)] = [thread |-> t, txs |-> b[t]]
    BY <1>5 DEF PoolIs
  <2>2. Q[BatchAt(t)] = R[BatchAt(t)]
    BY <1>2, <1>9, <2>1
  <2> QED
    BY <1>8, <1>10, <2>2
<1>12. Q = R
  BY <1>6, <1>8, <1>11
<1> QED
  BY <1>12 DEF Q, R

BatchesWith(i, t) == [batches EXCEPT ![t] = Append(@, [id |-> i, tx |-> TxOf(i)])]
MapWithout(i)     == [id_to_transaction_state EXCEPT ![i].taken = TRUE]
HolderWith(i, t)  == [holder EXCEPT ![TxOf(i)] = t]

\* A transaction is taken from the queue, locked for t and put into its batch.
LEMMA TakenSound ==
    ASSUME IInv, NEW i \in priority_queue, NEW t \in Thread, NEW x, x = TxOf(i), check_locks(x),
           NEW b, b = BatchesWith(i, t), NEW R, R = MapWithout(i), NEW G, G = HolderWith(i, t)
    PROVE  /\ Sound(PoolOf(b, consume_work, worker, finished_work, completing), R, G,
                    priority_queue \ {i}, held_transactions, unschedulables, arrived)
           /\ StateOK(R) /\ DOMAIN R = DOMAIN id_to_transaction_state
           /\ G \in [Tx -> Thread \cup {NoThread}] /\ b \in [Thread -> Seq(Item)]
           /\ holder[x] = NoThread /\ x \in Tx
<1> DEFINE S == id_to_transaction_state
           e == [id |-> i, tx |-> x]
           B == PoolOf(b, consume_work, worker, finished_work, completing)
<1>1. TypeOK /\ Contained /\ FillSound
  BY IInvContained DEF IInv
<1>2. /\ StateOK(S) /\ PoolSound(Pool, S, holder) /\ EntriesSound(S, holder, arrived)
      /\ PlacesSound(S, priority_queue, held_transactions, unschedulables)
  BY <1>1 DEF Contained, Sound
<1>3. i \in DOMAIN S /\ ~ S[i].taken
  BY <1>2 DEF PlacesSound
<1>4. i \in Id /\ S[i] \in State /\ x \in Tx /\ S[i].tx = x
  <2>1. i \in Id /\ S[i] \in State
    BY <1>2, <1>3 DEF StateOK
  <2> QED
    BY <2>1 DEF State, TxOf
<1>5. e \in Item
  BY <1>4 DEF Item
<1>6. \A j \in DOMAIN S : S[j].tx = x => j = i
  BY <1>2, <1>3, <1>4 DEF EntriesSound
<1>7. holder \in [Tx -> Thread \cup {NoThread}] /\ batches \in [Thread -> Seq(Item)]
  BY <1>1 DEF TypeOK
<1>8. holder[x] = NoThread
  BY <1>2, <1>3, <1>4, <1>6 DEF EntriesSound
<1>9. b \in [Thread -> Seq(Item)]
  <2>1. Append(batches[t], e) \in Seq(Item)
    BY <1>5, <1>7, SMTT(30)
  <2> QED
    BY <1>7, <2>1 DEF BatchesWith
<1>10. G \in [Tx -> Thread \cup {NoThread}] /\ G[x] = t /\ \A y \in Tx : y # x => G[y] = holder[y]
  BY <1>4, <1>7 DEF HolderWith
<1>11. /\ DOMAIN R = DOMAIN S /\ R[i] = [S[i] EXCEPT !.taken = TRUE]
       /\ \A j \in DOMAIN S : j # i => R[j] = S[j]
       /\ R = [j \in DOMAIN S |-> R[j]]
  BY <1>2, <1>3 DEF StateOK, MapWithout
<1>12. R[i].taken /\ R[i].tx = x /\ R[i] \in State
  <2>1. [S[i] EXCEPT !.taken = TRUE] \in State
    BY <1>4 DEF State
  <2>2. [S[i] EXCEPT !.taken = TRUE].tx = S[i].tx /\ [S[i] EXCEPT !.taken = TRUE].taken
    BY <1>4, SMTT(30) DEF State
  <2> QED
    BY <1>4, <1>11, <2>1, <2>2
<1>13. StateOK(R)
  <2>1. \A j \in DOMAIN S : R[j] \in State
    BY <1>2, <1>11, <1>12 DEF StateOK
  <2>2. R \in [DOMAIN R -> State]
    BY <1>11, <2>1
  <2> QED
    BY <1>2, <1>11, <2>2 DEF StateOK
<1>14. PoolSound(B, R, G)
  <2>1. Pool \in [Place -> [thread : Thread \cup {NoThread}, txs : Seq(Item)]]
    BY <1>1, PoolType DEF Batch
  <2>2. Pool[BatchAt(t)].thread = t /\ Pool[BatchAt(t)].txs = batches[t]
    BY PoolNow DEF PoolIs
  <2>3. \A k \in DOMAIN Pool[BatchAt(t)].txs : ~ Conflict(Pool[BatchAt(t)].txs[k].tx, x)
    BY <1>1, <2>2, NoConflict
  <2>4. PoolSound([Pool EXCEPT ![BatchAt(t)].txs = Append(@, [id |-> i, tx |-> x])],
                  [S EXCEPT ![i].taken = TRUE], [holder EXCEPT ![x] = t])
    BY <1>2, <1>3, <1>4, <1>6, <1>7, <2>1, <2>2, <2>3, ItemAdded
  <2>5. B = [Pool EXCEPT ![BatchAt(t)].txs = Append(@, [id |-> i, tx |-> x])]
    BY <1>1, <1>5, PoolAppended DEF BatchesWith
  <2> QED
    BY <2>4, <2>5 DEF MapWithout, HolderWith
<1> HIDE DEF B
<1>15. PlacesSound(R, priority_queue \ {i}, held_transactions, unschedulables)
  <2>1. {j \in DOMAIN R : ~ R[j].taken} = {j \in DOMAIN S : ~ S[j].taken} \ {i}
    BY <1>11, <1>12
  <2>2. /\ priority_queue \cup held_transactions \cup unschedulables = {j \in DOMAIN S : ~ S[j].taken}
        /\ priority_queue \cap held_transactions = {} /\ priority_queue \cap unschedulables = {}
        /\ held_transactions \cap unschedulables = {}
    BY <1>2 DEF PlacesSound
  <2>3. (priority_queue \ {i}) \cup held_transactions \cup unschedulables
           = (priority_queue \cup held_transactions \cup unschedulables) \ {i}
    BY <2>2
  <2>4. (priority_queue \ {i}) \cap held_transactions = {} /\ (priority_queue \ {i}) \cap unschedulables = {}
    BY <2>2
  <2> QED
    BY <2>1, <2>2, <2>3, <2>4 DEF PlacesSound
<1>16. EntriesSound(R, G, arrived)
  <2>1. \A j \in DOMAIN S : R[j].tx = S[j].tx
    BY <1>4, <1>11, <1>12
  <2>2. /\ \A j, k \in DOMAIN S : S[j].tx = S[k].tx => j = k
        /\ \A j \in DOMAIN S : S[j].tx \in arrived
    BY <1>2 DEF EntriesSound
  <2>3. ASSUME NEW j \in DOMAIN R, NEW k \in DOMAIN R, R[j].tx = R[k].tx PROVE j = k
    <3>1. j \in DOMAIN S /\ k \in DOMAIN S
      BY <1>11
    <3>2. S[j].tx = S[k].tx
      BY <2>1, <2>3, <3>1
    <3> QED
      BY <2>2, <3>1, <3>2
  <2>4. \A j \in DOMAIN R : R[j].tx \in arrived
    BY <1>11, <2>1, <2>2
  <2>5. ASSUME NEW y \in Tx, G[y] # NoThread PROVE \E j \in DOMAIN R : R[j].taken /\ R[j].tx = y
    <3>1. CASE y = x
      BY <1>3, <1>11, <1>12, <3>1
    <3>2. CASE y # x
      <4>1. PICK j \in DOMAIN S : S[j].taken /\ S[j].tx = y
        BY <1>2, <1>10, <2>5, <3>2 DEF EntriesSound
      <4>2. R[j] = S[j]
        BY <1>3, <1>11, <4>1
      <4> QED
        BY <1>11, <4>1, <4>2
    <3> QED
      BY <3>1, <3>2
  <2> QED
    BY <2>3, <2>4, <2>5 DEF EntriesSound
<1>17. Sound(B, R, G, priority_queue \ {i}, held_transactions, unschedulables, arrived)
  BY <1>14, <1>15, <1>16 DEF Sound
<1> QED
  BY <1>4, <1>8, <1>9, <1>10, <1>11, <1>13, <1>17 DEF B

\* schedule keeps the invariant.
LEMMA ScheduleStep == ASSUME IInv, schedule PROVE IInv'
<1> DEFINE S == id_to_transaction_state
<1>1. PICK i \in Top :
        /\ check_locks(TxOf(i))
        /\ priority_queue' = priority_queue \ {i}
        /\ \/ /\ \E t \in select_thread(accounts_schedulable_threads(TxOf(i)) \cap schedulable) :
                    try_schedule_transaction(i, t)
              /\ UNCHANGED unschedulables
           \/ SetAside(i)
  BY DEF schedule
<1>2. /\ held_transactions' = held_transactions /\ arrived' = arrived /\ completing' = completing
      /\ worker' = worker /\ finished_work' = finished_work /\ pc' = pc
      /\ decision' = decision /\ bank' = bank /\ last_slot' = last_slot
  BY DEF schedule, control, leader
<1>3. TypeOK /\ Contained /\ FillSound
  BY IInvContained DEF IInv
<1>4. completing' = NoCompletion
  BY <1>2, SMTT(30) DEF schedule, Scanning, IInv
<1>5. i \in priority_queue
  BY DEF Top
<1>6. CASE SetAside(i)
  <2>1. /\ unschedulables' = unschedulables \cup {i} /\ holder' = holder
        /\ id_to_transaction_state' = S /\ batches' = batches /\ consume_work' = consume_work
        /\ working_account_set' = working_account_set
    BY <1>6 DEF SetAside
  <2>2. PlacesSound(S, priority_queue, held_transactions, unschedulables)
    BY <1>3 DEF Contained, Sound
  <2>3. PlacesSound(S, priority_queue \ {i}, held_transactions, unschedulables \cup {i})
    BY <1>5, <2>2, SMTT(30) DEF PlacesSound
  <2>4. Sound(Pool, S, holder, priority_queue \ {i}, held_transactions, unschedulables \cup {i}, arrived)
    BY <1>3, <2>3 DEF Contained, Sound
  <2>5. Pool' = Pool
    BY <1>2, <2>1 DEF Pool
  <2>6. Contained'
    BY <1>1, <1>2, <1>3, <2>1, <2>4, <2>5 DEF Contained
  <2>7. BatchFrame
    BY <1>2, <2>1 DEF BatchFrame
  <2> QED
    BY <1>2, <1>3, <1>4, <2>1, <2>6, <2>7, ContainerStep DEF TypeOK
<1>7. ASSUME NEW t \in select_thread(accounts_schedulable_threads(TxOf(i)) \cap schedulable),
             try_schedule_transaction(i, t), unschedulables' = unschedulables
      PROVE  IInv'
  <2> DEFINE x == TxOf(i)
             b == BatchesWith(i, t)
             R == MapWithout(i)
             G == HolderWith(i, t)
             B == PoolOf(b, consume_work, worker, finished_work, completing)
             full == Len(b[t]) >= target_transactions_per_batch
             r == Sent(b, consume_work, decision.slot)
  <2>1. t \in Thread
    BY DEF select_thread, accounts_schedulable_threads
  <2>2. /\ Sound(B, R, G, priority_queue \ {i}, held_transactions, unschedulables, arrived)
        /\ StateOK(R) /\ DOMAIN R = DOMAIN S
        /\ G \in [Tx -> Thread \cup {NoThread}] /\ b \in [Thread -> Seq(Item)]
    BY <1>1, <1>5, <2>1, TakenSound
  <2>3. id_to_transaction_state' = R /\ holder' = G
    BY <1>7 DEF try_schedule_transaction, MapWithout, HolderWith
  <2>4. full => batches' = Empty /\ consume_work' = r
    BY <1>7 DEF try_schedule_transaction, send_batches, Sent, BatchesWith
  <2>5. ~full => /\ batches' = b /\ consume_work' = consume_work
                 /\ working_account_set' = take_locks(working_account_set, x)
    BY <1>7 DEF try_schedule_transaction, BatchesWith
  <2>6. b[t] = Append(batches[t], [id |-> i, tx |-> x]) /\ \A u \in Thread : u # t => b[u] = batches[u]
    BY <1>3, <2>1 DEF TypeOK, BatchesWith
  <2> HIDE DEF b, R, G, B, full, r
  <2>7. (Cardinality(DOMAIN id_to_transaction_state) <= capacity)'
    BY <1>3, <2>2, <2>3 DEF Contained
  <2>8. CASE full
    <3>1. r \in [Thread -> Seq(Work)] /\ Empty \in [Thread -> Seq(Item)]
      BY <1>3, <2>2, SentType DEF TypeOK, r
    <3>2. Moved(B, PoolOf(Empty, r, worker, finished_work, completing))
      BY <1>3, <2>2, SendMoved DEF TypeOK, B, r
    <3>3. Moved(B, Pool')
      BY <1>2, <2>4, <2>8, <3>2 DEF Pool
    <3>4. PoolSound(Pool', R, G)
      BY <2>2, <3>3, MovedKeeps DEF Sound
    <3>5. Sound(Pool', R, G, priority_queue \ {i}, held_transactions, unschedulables, arrived)
      BY <2>2, <3>4 DEF Sound
    <3>6. Sound(Pool, id_to_transaction_state, holder, priority_queue, held_transactions,
                unschedulables, arrived)'
      BY <1>1, <1>2, <1>7, <2>3, <3>5
    <3>7. TypeOK'
      BY <1>2, <1>3, <2>2, <2>3, <2>4, <2>8, <3>1 DEF TypeOK
    <3>8. FillSound'
      BY <2>4, <2>8, FillEmpty
    <3> QED
      BY <1>4, <2>7, <3>6, <3>7, <3>8 DEF IInv
  <2>9. CASE ~full
    <3>1. Pool' = B
      BY <1>2, <2>5, <2>9 DEF Pool, B
    <3>2. Sound(Pool, id_to_transaction_state, holder, priority_queue, held_transactions,
                unschedulables, arrived)'
      BY <1>1, <1>2, <1>7, <2>2, <2>3, <3>1
    <3>3. TypeOK'
      BY <1>2, <1>3, <2>2, <2>3, <2>5, <2>9 DEF TypeOK
    <3>4. FillSound'
      <4>1. /\ working_account_set'.write = working_account_set.write \cup Writes(x)
            /\ working_account_set'.read = working_account_set.read \cup Reads(x)
        BY <2>5, <2>9, SMTT(30) DEF take_locks
      <4>2. ASSUME NEW u \in Thread, NEW j \in DOMAIN b[u]
            PROVE  /\ Writes(b[u][j].tx) \subseteq working_account_set'.write
                   /\ Reads(b[u][j].tx) \subseteq working_account_set'.read
        <5>1. CASE j \in DOMAIN batches[u] /\ b[u][j] = batches[u][j]
          BY <1>3, <4>1, <5>1 DEF FillSound
        <5>2. CASE u = t /\ b[u][j] = [id |-> i, tx |-> x]
          BY <4>1, <5>2, SMTT(30)
        <5>3. batches[t] \in Seq(Item)
          BY <1>3, <2>1 DEF TypeOK
        <5>4. u = t => \/ j \in DOMAIN batches[u] /\ b[u][j] = batches[u][j]
                       \/ b[u][j] = [id |-> i, tx |-> x]
          BY <2>6, <4>2, <5>3, SMTT(30)
        <5> QED
          BY <2>6, <5>1, <5>2, <5>4
      <4> QED
        BY <2>5, <2>9, <4>2 DEF FillSound
    <3> QED
      BY <1>4, <2>7, <3>2, <3>3, <3>4 DEF IInv
  <2> QED
    BY <2>8, <2>9
<1> QED
  BY <1>1, <1>6, <1>7

\* The map when the transactions S got the keys key, and those of new stay.
MapPlus(S, key, new) ==
    [i \in DOMAIN id_to_transaction_state \cup new |->
        IF i \in new THEN [tx |-> CHOOSE x \in S : key[x] = i, taken |-> FALSE]
        ELSE id_to_transaction_state[i]]
KeysGiven(key, A) == {key[x] : x \in A}

\* New transactions S get vacant keys, and those of F fail their checks.
GoodKeys(S, F, key) ==
    /\ S \in SUBSET (Tx \ arrived) /\ F \in SUBSET S
    /\ key \in Injection(S, Id \ DOMAIN id_to_transaction_state)

\* What they make of the container.
Received(S, new, R) ==
    /\ StateOK(R) /\ DOMAIN R = DOMAIN id_to_transaction_state \cup new
    /\ Sound(Pool, R, holder, priority_queue \cup new, held_transactions,
             unschedulables, arrived \cup S)
    /\ new \in SUBSET Id /\ new \cap DOMAIN id_to_transaction_state = {}
    /\ priority_queue \subseteq DOMAIN id_to_transaction_state

\* The container is sound with the new transactions, before any is dropped.
LEMMA ReceivedSound ==
    ASSUME IInv, NEW S, NEW F, NEW key, GoodKeys(S, F, key),
           NEW new, new = KeysGiven(key, S \ F), NEW R, R = MapPlus(S, key, new)
    PROVE  Received(S, new, R)
<1> DEFINE M == DOMAIN id_to_transaction_state
           st == id_to_transaction_state
           of(i) == CHOOSE x \in S : key[x] = i
<1>0. S \in SUBSET (Tx \ arrived) /\ F \in SUBSET S
  BY DEF GoodKeys
<1>1. key \in [S -> Id \ M] /\ \A x, y \in S : key[x] = key[y] => x = y
  BY DEF GoodKeys, Injection, IsInjective
<1>2. new \in SUBSET Id /\ new \cap M = {}
  BY <1>0, <1>1 DEF KeysGiven
<1>3. \A i \in new : of(i) \in S /\ key[of(i)] = i
  BY <1>0 DEF KeysGiven
<1>4. /\ DOMAIN R = M \cup new /\ R = [i \in M \cup new |-> R[i]]
      /\ \A i \in new : R[i] = [tx |-> of(i), taken |-> FALSE]
      /\ \A i \in M : i \notin new => R[i] = st[i]
  BY DEF MapPlus
<1> HIDE DEF of
<1>5. \A i \in new : R[i].tx = of(i) /\ ~ R[i].taken
  <2>1. \A a : [tx |-> a, taken |-> FALSE].tx = a /\ ~ [tx |-> a, taken |-> FALSE].taken
    BY SMTT(30)
  <2>2. ASSUME NEW i \in new PROVE R[i].tx = of(i) /\ ~ R[i].taken
    <3>1. R[i] = [tx |-> of(i), taken |-> FALSE]
      BY <1>4
    <3> QED
      BY <2>1, <3>1
  <2> QED
    BY <2>2
<1>6. Contained
  BY IInvContained
<1>7. /\ StateOK(st) /\ PoolSound(Pool, st, holder) /\ EntriesSound(st, holder, arrived)
      /\ PlacesSound(st, priority_queue, held_transactions, unschedulables)
  BY <1>6 DEF Contained, Sound
<1>8. \A i \in M : i \notin new /\ R[i] = st[i]
  BY <1>2, <1>4
<1>9. StateOK(R)
  <2>0. \A x \in Tx : [tx |-> x, taken |-> FALSE] \in State
    BY SMTT(30) DEF State
  <2>1. \A i \in new : R[i] \in State
    BY <1>0, <1>3, <1>4, <2>0
  <2>2. \A i \in M : R[i] \in State
    BY <1>7, <1>8 DEF StateOK
  <2>3. R \in [DOMAIN R -> State]
    BY <1>4, <2>1, <2>2
  <2>4. DOMAIN R \subseteq Id
    BY <1>2, <1>4, <1>7 DEF StateOK
  <2> QED
    BY <2>3, <2>4 DEF StateOK
<1>10. PoolSound(Pool, R, holder)
  <2>1. \A i \in DOMAIN st : st[i].taken => i \in DOMAIN R /\ R[i] = st[i]
    BY <1>4, <1>8
  <2>2. \A i \in DOMAIN R : R[i].taken => i \in DOMAIN st /\ st[i].taken
    BY <1>4, <1>5, <1>8
  <2> QED
    BY <1>7, <2>1, <2>2, EntriesChange
<1>11. PlacesSound(R, priority_queue \cup new, held_transactions, unschedulables)
  <2>1. {i \in DOMAIN R : ~ R[i].taken} = {i \in DOMAIN st : ~ st[i].taken} \cup new
    BY <1>4, <1>5, <1>8, SMTT(30)
  <2> QED
    BY <1>2, <1>7, <2>1 DEF PlacesSound
<1>12. EntriesSound(R, holder, arrived \cup S)
  <2>1. \A i \in new : R[i].tx \in S /\ R[i].tx \notin arrived /\ key[R[i].tx] = i
    BY <1>0, <1>3, <1>5
  <2>2. \A i \in M : R[i].tx \in arrived
    BY <1>7, <1>8 DEF EntriesSound
  <2>3. \A i, j \in M : R[i].tx = R[j].tx => i = j
    BY <1>7, <1>8 DEF EntriesSound
  <2>4. ASSUME NEW i \in DOMAIN R, NEW j \in DOMAIN R, R[i].tx = R[j].tx PROVE i = j
    <3>1. CASE i \in M
      <4>1. j \in M
        BY <1>4, <2>1, <2>2, <2>4, <3>1
      <4> QED
        BY <2>3, <2>4, <3>1, <4>1
    <3>2. CASE i \in new
      <4>1. j \in new
        BY <1>4, <2>1, <2>2, <2>4, <3>2
      <4> QED
        BY <2>1, <2>4, <3>2, <4>1
    <3> QED
      BY <1>4, <3>1, <3>2
  <2>5. \A i \in DOMAIN R : R[i].tx \in arrived \cup S
    BY <1>4, <2>1, <2>2
  <2>6. ASSUME NEW x \in Tx, holder[x] # NoThread PROVE \E i \in DOMAIN R : R[i].taken /\ R[i].tx = x
    <3>1. PICK i \in DOMAIN st : st[i].taken /\ st[i].tx = x
      BY <1>7, <2>6 DEF EntriesSound
    <3> QED
      BY <1>4, <1>8, <3>1
  <2> QED
    BY <2>4, <2>5, <2>6 DEF EntriesSound
<1>13. priority_queue \subseteq M
  BY <1>7 DEF PlacesSound
<1> QED
  BY <1>2, <1>4, <1>9, <1>10, <1>11, <1>12, <1>13 DEF Sound, Received

\* receive_and_buffer_packets keeps the invariant: there are vacant keys enough.
LEMMA BufferStep == ASSUME Counting, IInv, receive_and_buffer_packets PROVE IInv'
<1> DEFINE st == id_to_transaction_state
           M == DOMAIN st
<1>1. PICK S \in (SUBSET (Tx \ arrived)) \ {{}} : \E F \in SUBSET S :
          Cardinality(S) <= EXTRA_CAPACITY /\ handle_packet_batch_message(S, F)
  BY DEF receive_and_buffer_packets
<1>2. PICK F \in SUBSET S : Cardinality(S) <= EXTRA_CAPACITY /\ handle_packet_batch_message(S, F)
  BY <1>1
<1>3. /\ holder' = holder /\ held_transactions' = held_transactions /\ decision' = decision
      /\ unschedulables' = unschedulables /\ completing' = completing /\ pc' = pc
      /\ batches' = batches /\ consume_work' = consume_work /\ worker' = worker
      /\ finished_work' = finished_work
  BY DEF receive_and_buffer_packets, pass, control, channels
<1>4. BatchFrame
  BY DEF receive_and_buffer_packets, pass, channels, leader, BatchFrame
<1>5. TypeOK /\ Contained
  BY IInvContained DEF IInv
<1>6. Pool' = Pool
  BY <1>3 DEF Pool
<1>7. arrived' = arrived \cup S /\ arrived' \subseteq Tx
  BY <1>2, <1>5 DEF handle_packet_batch_message, TypeOK
<1>8. ASSUME decision.kind = "forward" PROVE Contained'
  <2>1. id_to_transaction_state' = st /\ priority_queue' = priority_queue
    BY <1>2, <1>8 DEF handle_packet_batch_message
  <2>2. EntriesSound(st, holder, arrived \cup S)
    BY <1>5 DEF Contained, Sound, EntriesSound
  <2>3. Sound(Pool, st, holder, priority_queue, held_transactions, unschedulables, arrived \cup S)
    BY <1>5, <2>2 DEF Contained, Sound
  <2> QED
    BY <1>3, <1>5, <1>6, <1>7, <2>1, <2>3 DEF Contained
<1>9. ASSUME decision.kind # "forward" PROVE Contained'
  <2> DEFINE T == Id \ M
             key == CHOOSE k \in Injection(S, T) : TRUE
             new == KeysGiven(key, S \ F)
             R == MapPlus(S, key, new)
  <2>1. push_ids_into_queue(R, priority_queue, new)
    BY <1>2, <1>9 DEF handle_packet_batch_message, MapPlus, KeysGiven
  <2>2. key \in Injection(S, T)
    <3>1. IsFiniteSet(S)
      BY TxAssumption DEF Counting, FiniteSubset
    <3>2. /\ M \in SUBSET Id /\ Cardinality(M) \in Nat /\ Cardinality(M) <= capacity
          /\ IsFiniteSet(Id) /\ Cardinality(Id) = capacity + EXTRA_CAPACITY
          /\ capacity \in Nat /\ EXTRA_CAPACITY \in Nat
      BY <1>5, FiniteKeys, CapacityAssumption DEF Contained, StateOK
    <3>3. Id \cap M = M
      BY <3>2
    <3>4. IsFiniteSet(T) /\ Cardinality(T) = Cardinality(Id) - Cardinality(M)
      <4>1. IsFiniteSet(T) /\ Cardinality(T) = Cardinality(Id) - Cardinality(Id \cap M)
        BY <3>2 DEF Counting, FiniteDifference
      <4> QED
        BY <3>3, <4>1
    <3>5. Cardinality(S) \in Nat
      BY <3>1 DEF Counting, FiniteSize
    <3> HIDE DEF T
    <3>6. Cardinality(S) <= Cardinality(T)
      BY <1>2, <3>2, <3>4, <3>5, SMTT(30)
    <3>7. Injection(S, T) # {}
      BY <3>1, <3>4, <3>6, InjectionExists
    <3> QED
      BY <3>7
  <2> HIDE DEF key
  <2>3. new = KeysGiven(key, S \ F) /\ R = MapPlus(S, key, new) /\ GoodKeys(S, F, key)
    BY <2>2 DEF GoodKeys
  <2> HIDE DEF new, R
  <2>4. /\ StateOK(R) /\ DOMAIN R = M \cup new
        /\ Sound(Pool, R, holder, priority_queue \cup new, held_transactions, unschedulables,
                 arrived \cup S)
        /\ new \in SUBSET Id /\ new \cap M = {} /\ priority_queue \subseteq M
    <3>1. Received(S, new, R)
      BY <2>3, ReceivedSound
    <3> QED
      BY <3>1 DEF Received
  <2>5. Cardinality(DOMAIN R) <= capacity + Cardinality(priority_queue \cup new)
    <3>1. M \in SUBSET Id /\ priority_queue \cup new \in SUBSET Id
      BY <1>5, <2>4 DEF Contained, StateOK
    <3>2. /\ Cardinality(M) \in Nat /\ IsFiniteSet(M) /\ Cardinality(new) \in Nat /\ IsFiniteSet(new)
          /\ Cardinality(priority_queue \cup new) \in Nat /\ IsFiniteSet(priority_queue \cup new)
          /\ capacity \in Nat
      BY <2>4, <3>1, FiniteKeys, CapacityAssumption
    <3>3. Cardinality(M \cup new) = Cardinality(M) + Cardinality(new) - Cardinality(M \cap new)
      BY <3>2 DEF Counting, FiniteUnion
    <3>4. M \cap new = {} /\ Cardinality({}) = 0
      BY <2>4 DEF Counting, FiniteEmpty
    <3>5. new \in SUBSET (priority_queue \cup new)
      OBVIOUS
    <3>6. Cardinality(new) <= Cardinality(priority_queue \cup new)
      BY <3>2, <3>5 DEF Counting, FiniteSubset
    <3>7. Cardinality(M) <= capacity
      BY <1>5 DEF Contained
    <3>8. Cardinality(DOMAIN R) = Cardinality(M) + Cardinality(new) - 0
      BY <2>4, <3>3, <3>4
    <3> QED
      BY <3>2, <3>6, <3>7, <3>8, SMTT(30)
  <2>6. priority_queue \cup new \subseteq DOMAIN R
    BY <2>4
  <2>7. PICK D \in SUBSET (priority_queue \cup new) :
              /\ priority_queue' = (priority_queue \cup new) \ D
              /\ id_to_transaction_state' = [i \in DOMAIN R \ D |-> R[i]]
              /\ Cardinality(DOMAIN R \ D) <= capacity
              /\ Cardinality(DOMAIN R) <= capacity => D = {}
    BY <2>1, <2>4, <2>5, <2>6, Pushed
  <2>8. /\ StateOK(id_to_transaction_state')
        /\ Sound(Pool, id_to_transaction_state', holder, (priority_queue \cup new) \ D,
                 held_transactions, unschedulables, arrived \cup S)
    <3> DEFINE q == priority_queue \cup new
    <3>1. StateOK(R) /\ Sound(Pool, R, holder, q, held_transactions, unschedulables, arrived \cup S)
      BY <2>4
    <3>2. id_to_transaction_state' = [i \in DOMAIN R \ D |-> R[i]] /\ D \in SUBSET q
      BY <2>7
    <3> HIDE DEF q
    <3>3. /\ StateOK(id_to_transaction_state')
          /\ Sound(Pool, id_to_transaction_state', holder, q \ D,
                   held_transactions, unschedulables, arrived \cup S)
      BY <3>1, <3>2, Dropped
    <3> QED
      BY <3>3 DEF q
  <2>9. DOMAIN id_to_transaction_state' = DOMAIN R \ D
    BY <2>7
  <2> QED
    BY <1>3, <1>6, <1>7, <2>7, <2>8, <2>9 DEF Contained
<1>10. Contained'
  BY <1>8, <1>9
<1> QED
  BY <1>3, <1>4, <1>5, <1>7, <1>10, ContainerStep DEF IInv, TypeOK
-----------------------------------------------------------------------------
(***************************************************************************)
(* The invariant, and what it says of the batches, the container and the   *)
(* locks.                                                                  *)
(***************************************************************************)
\* The invariant holds at first, when there are no batches.
LEMMA InitSound == ASSUME Counting, Init PROVE IInv
<1>1. /\ holder = [x \in Tx |-> NoThread] /\ id_to_transaction_state = <<>>
      /\ priority_queue = {} /\ held_transactions = {} /\ unschedulables = {}
      /\ batches = Empty /\ consume_work = Empty /\ worker = [t \in Thread |-> Idle]
      /\ finished_work = <<>> /\ completing = NoCompletion
  BY DEF Init, LocksInit
<1>2. DOMAIN id_to_transaction_state = {}
  BY <1>1, SMTT(30)
<1>3. StateOK(id_to_transaction_state)
  BY <1>1, <1>2, SMTT(30) DEF StateOK
<1>4. /\ NoWork.txs = <<>> /\ NoWork.thread = NoThread /\ NoWork.target_slot = 0
      /\ NoCompletion.work = NoWork /\ Idle.work = NoWork
  BY SMTT(30) DEF NoWork, NoCompletion, Idle, NoSlot
<1>5. NoWork \in Work /\ NoCompletion \in Completion
  <2>1. NoWork \in Work
    BY SMTT(30) DEF NoWork, Work, NoSlot
  <2>2. <<>> \in [1 .. 0 -> {"no", "now", "later"}]
    BY SMTT(30)
  <2>3. <<>> \in Outcomes
    BY <2>2, SMTT(30) DEF Outcomes
  <2> QED
    BY <2>1, <2>3 DEF NoCompletion, Completion
<1>6. TypeOK
  <2>1. Idle \in [state : {"idle", "consume", "retry_drain"}, work : Work]
    BY <1>5 DEF Idle
  <2>2. worker \in [Thread -> [state : {"idle", "consume", "retry_drain"}, work : Work]]
    BY <1>1, <2>1
  <2>3. Empty \in [Thread -> Seq(Item)] /\ Empty \in [Thread -> Seq(Work)]
    BY SMTT(30) DEF Empty
  <2>4. finished_work \in Seq(Completion)
    BY <1>1, SMTT(30)
  <2>5. /\ decision.kind = "hold" /\ decision.slot = 0 /\ bank = 0 /\ last_slot = 0
        /\ arrived = {}
    BY SMTT(30) DEF Init, NoSlot
  <2>6. holder \in [Tx -> Thread \cup {NoThread}]
    BY <1>1
  <2>7. decision.slot \in Nat /\ bank \in Nat /\ last_slot \in Nat
    BY <2>5, SMTT(30)
  <2> QED
    BY <1>1, <1>3, <1>5, <2>2, <2>3, <2>4, <2>5, <2>6, <2>7 DEF TypeOK
<1>7. \A p \in Place : Pool[p].txs = <<>> /\ DOMAIN Pool[p].txs = {}
  <2>1. \A t \in Thread : batches[t] = <<>> /\ consume_work[t] = <<>> /\ worker[t] = Idle
    BY <1>1 DEF Empty
  <2>2. DOMAIN <<>> = {}
    BY SMTT(30)
  <2>3. /\ \A t \in Thread : Pool[BatchAt(t)].txs = <<>> /\ Pool[WorkerAt(t)].txs = <<>>
        /\ Pool[CompletedAt].txs = <<>>
    <3>1. \A t \in Thread : Pool[BatchAt(t)].txs = batches[t]
      BY PoolNow DEF PoolIs
    <3>2. \A t \in Thread : Pool[WorkerAt(t)].txs = worker[t].work.txs
      BY PoolNow DEF PoolIs
    <3>3. Pool[CompletedAt].txs = completing.work.txs
      BY PoolNow DEF PoolIs
    <3> QED
      BY <1>1, <1>4, <2>1, <3>1, <3>2, <3>3
  <2>4. /\ \A t \in Thread, n \in Nat : Pool[QueuedAt(t, n)].txs = <<>>
        /\ \A n \in Nat : Pool[BackAt(n)].txs = <<>>
    BY <1>1, <2>1, <2>2, PoolNow DEF PoolIs
  <2> QED
    BY <2>2, <2>3, <2>4, Places
<1>8. PoolSound(Pool, id_to_transaction_state, holder)
  <2>1. OnceIn(Pool) /\ ItemsSound(Pool, id_to_transaction_state, holder)
    BY <1>7 DEF OnceIn, ItemsSound
  <2>2. TakenFound(Pool, id_to_transaction_state)
    BY <1>2 DEF TakenFound
  <2>3. \A p \in Place : DisjointTxs(Pool[p].txs)
    BY <1>7 DEF DisjointTxs
  <2> QED
    BY <2>1, <2>2, <2>3 DEF PoolSound
<1>9. /\ PlacesSound(id_to_transaction_state, priority_queue, held_transactions, unschedulables)
      /\ EntriesSound(id_to_transaction_state, holder, arrived)
  <2>1. PlacesSound(id_to_transaction_state, priority_queue, held_transactions, unschedulables)
    BY <1>1, <1>2, SMTT(30) DEF PlacesSound
  <2> QED
    BY <1>1, <1>2, <2>1 DEF EntriesSound
<1>10. Cardinality(DOMAIN id_to_transaction_state) <= capacity
  BY <1>2, CapacityAssumption, SMTT(30) DEF Counting, FiniteEmpty
<1>11. FillSound
  <2>1. \A t \in Thread : DOMAIN batches[t] = {}
    BY <1>1, SMTT(30) DEF Empty
  <2> QED
    BY <2>1 DEF FillSound
<1> QED
  BY <1>1, <1>6, <1>8, <1>9, <1>10, <1>11 DEF IInv, Sound

\* Each step of the scheduler thread, of a worker and of the bank keeps the
\* invariant.
LEMMA NextSound == ASSUME Counting, IInv, [Next]_vars PROVE IInv'
<1>1. CASE SchedulerThread
  BY <1>1, DecideStep, ReceiveStep, CompleteStep, FinishStep, ProcessStep, SendStep,
     ScheduleStep, EndStep, BufferStep DEF SchedulerThread
<1>2. ASSUME NEW t \in Thread, Worker(t) PROVE IInv'
  BY <1>2, RunStep, ConsumeStep, RetryDrainStep DEF Worker
<1>3. CASE set_bank \/ UNCHANGED vars
  BY <1>3, SetBankStep
<1> QED
  BY <1>1, <1>2, <1>3 DEF Next

\* The batches of the model are what the places hold.
LEMMA WorksPlaced ==
    ASSUME TypeOK
    PROVE  /\ \A w \in Works : \E p \in Place : Pool[p].txs = w.txs
           /\ \A p \in Place : Pool[p].txs = <<>> \/ \E w \in Works : w.txs = Pool[p].txs
<1> DEFINE Fill(t) == [thread |-> t, txs |-> batches[t], target_slot |-> decision.slot]
<1>1. \A w : Load(w).txs = w.txs
  BY SMTT(30) DEF Load
<1>2. \A t : Fill(t).txs = batches[t]
  BY SMTT(30)
<1>3. /\ \A t \in Thread : DOMAIN consume_work[t] \subseteq Nat
      /\ DOMAIN finished_work \subseteq Nat
  <2>1. /\ \A t \in Thread : consume_work[t] \in Seq(Work)
        /\ finished_work \in Seq(Completion)
    BY DEF TypeOK
  <2> QED
    BY <2>1, SMTT(30)
<1>4. \A t \in Thread : Pool[BatchAt(t)].txs = batches[t]
  BY PoolNow DEF PoolIs
<1>5. \A t \in Thread : Pool[WorkerAt(t)].txs = worker[t].work.txs
  BY PoolNow DEF PoolIs
<1>6. \A t \in Thread, n \in Nat :
         /\ n \in DOMAIN consume_work[t] => Pool[QueuedAt(t, n)].txs = consume_work[t][n].txs
         /\ n \notin DOMAIN consume_work[t] => Pool[QueuedAt(t, n)].txs = <<>>
  <2>1. \A t \in Thread, n \in Nat :
           /\ n \in DOMAIN consume_work[t] => Pool[QueuedAt(t, n)] = Load(consume_work[t][n])
           /\ n \notin DOMAIN consume_work[t] => Pool[QueuedAt(t, n)].txs = <<>>
    BY PoolNow DEF PoolIs
  <2> QED
    BY <1>1, <2>1
<1>7. \A n \in Nat :
         /\ n \in DOMAIN finished_work => Pool[BackAt(n)].txs = finished_work[n].work.txs
         /\ n \notin DOMAIN finished_work => Pool[BackAt(n)].txs = <<>>
  <2>1. \A n \in Nat :
           /\ n \in DOMAIN finished_work => Pool[BackAt(n)] = Load(finished_work[n].work)
           /\ n \notin DOMAIN finished_work => Pool[BackAt(n)].txs = <<>>
    BY PoolNow DEF PoolIs
  <2> QED
    BY <1>1, <2>1
<1>8. Pool[CompletedAt].txs = completing.work.txs
  BY PoolNow DEF PoolIs
<1> HIDE DEF Fill
<1>9. ASSUME NEW w \in Works PROVE \E p \in Place : Pool[p].txs = w.txs
  <2>0. \/ \E t \in Thread : w = Fill(t)
        \/ \E t \in Thread : \E n \in DOMAIN consume_work[t] : w = consume_work[t][n]
        \/ \E t \in Thread : w = worker[t].work
        \/ \E n \in DOMAIN finished_work : w = finished_work[n].work
        \/ w = completing.work
    BY DEF Works, Range, Fill
  <2>1. CASE \E t \in Thread : w = Fill(t)
    <3>1. PICK t \in Thread : w = Fill(t)
      BY <2>1
    <3>2. BatchAt(t) \in Place
      BY Places
    <3> QED
      BY <1>2, <1>4, <3>1, <3>2 DEF Fill
  <2>2. CASE \E t \in Thread : \E n \in DOMAIN consume_work[t] : w = consume_work[t][n]
    <3>1. PICK t \in Thread : \E n \in DOMAIN consume_work[t] : w = consume_work[t][n]
      BY <2>2
    <3>2. PICK n \in DOMAIN consume_work[t] : w = consume_work[t][n]
      BY <3>1
    <3>3. n \in Nat
      BY <1>3
    <3>4. QueuedAt(t, n) \in Place
      BY <3>3, Places
    <3> QED
      BY <1>6, <3>2, <3>3, <3>4
  <2>3. CASE \E t \in Thread : w = worker[t].work
    BY <1>5, <2>3, Places
  <2>4. CASE \E n \in DOMAIN finished_work : w = finished_work[n].work
    <3>1. PICK n \in DOMAIN finished_work : w = finished_work[n].work
      BY <2>4
    <3>2. n \in Nat
      BY <1>3
    <3>3. BackAt(n) \in Place
      BY <3>2, Places
    <3> QED
      BY <1>7, <3>1, <3>2, <3>3
  <2>5. CASE w = completing.work
    BY <1>8, <2>5, Places
  <2> QED
    BY <2>0, <2>1, <2>2, <2>3, <2>4, <2>5
<1>10. ASSUME NEW p \in Place
       PROVE  Pool[p].txs = <<>> \/ \E w \in Works : w.txs = Pool[p].txs
  <2>1. CASE \E t \in Thread : p = BatchAt(t)
    <3>1. \A t \in Thread : Fill(t) \in Works
      BY DEF Works, Fill
    <3>2. \A t \in Thread : Fill(t).txs = Pool[BatchAt(t)].txs
      BY <1>2, <1>4 DEF Fill
    <3> QED
      BY <2>1, <3>1, <3>2
  <2>2. CASE \E t \in Thread : p = WorkerAt(t)
    <3>1. \A t \in Thread : worker[t].work \in Works
      BY DEF Works
    <3> QED
      BY <1>5, <2>2, <3>1
  <2>3. CASE \E t \in Thread, n \in Nat : p = QueuedAt(t, n)
    <3>0. \A t \in Thread : Range(consume_work[t]) \subseteq Works
      BY DEF Works
    <3>1. \A t \in Thread : \A n \in DOMAIN consume_work[t] : consume_work[t][n] \in Works
      BY <3>0 DEF Range
    <3> QED
      BY <1>6, <2>3, <3>1
  <2>4. CASE \E n \in Nat : p = BackAt(n)
    <3>1. \A n \in DOMAIN finished_work : finished_work[n].work \in Works
      BY DEF Works, Range
    <3> QED
      BY <1>7, <2>4, <3>1
  <2>5. CASE p = CompletedAt
    <3>1. completing.work \in Works
      BY DEF Works
    <3> QED
      BY <1>8, <2>5, <3>1
  <2> QED
    BY <2>1, <2>2, <2>3, <2>4, <2>5, Places
<1> QED
  BY <1>9, <1>10

\* The keys in the batches are those of the taken entries.
LEMMA ScheduledTaken ==
    ASSUME IInv
    PROVE  /\ Scheduled = {i \in DOMAIN id_to_transaction_state : id_to_transaction_state[i].taken}
           /\ \A w \in Works : DisjointTxs(w.txs)
           /\ \A w \in Works : \A e \in Range(w.txs) : e.tx = TxOf(e.id)
<1> DEFINE S == id_to_transaction_state
<1>1. TypeOK /\ PoolSound(Pool, S, holder)
  BY DEF IInv, Sound
<1>2. ASSUME NEW w \in Works, NEW e \in Range(w.txs)
      PROVE  e.id \in DOMAIN S /\ S[e.id].taken /\ S[e.id].tx = e.tx
  <2>1. PICK p \in Place : Pool[p].txs = w.txs
    BY <1>1, WorksPlaced
  <2>2. PICK j \in DOMAIN Pool[p].txs : e = Pool[p].txs[j]
    BY <2>1 DEF Range
  <2>3. ItemSound(Pool, S, holder, p, Pool[p].txs[j])
    BY <1>1 DEF PoolSound, ItemsSound
  <2> QED
    BY <2>2, <2>3 DEF ItemSound
<1>3. ASSUME NEW i \in DOMAIN S, S[i].taken PROVE i \in Scheduled
  <2>1. PICK p \in Place : \E j \in DOMAIN Pool[p].txs : Pool[p].txs[j].id = i
    BY <1>1, <1>3 DEF PoolSound, TakenFound
  <2>2. PICK j \in DOMAIN Pool[p].txs : Pool[p].txs[j].id = i
    BY <2>1
  <2>3. Pool[p].txs # <<>>
    BY <2>2, EmptyDomain
  <2>4. PICK w \in Works : w.txs = Pool[p].txs
    BY <1>1, <2>3, WorksPlaced
  <2>5. w.txs[j] \in Range(w.txs) /\ w.txs[j].id = i
    BY <2>2, <2>4 DEF Range
  <2>6. i \in {e.id : e \in Range(w.txs)}
    BY <2>5
  <2> QED
    BY <2>6 DEF Scheduled
<1>4. ASSUME NEW i \in Scheduled PROVE i \in DOMAIN S /\ S[i].taken
  <2>1. PICK w \in Works : i \in {e.id : e \in Range(w.txs)}
    BY DEF Scheduled
  <2>2. PICK e \in Range(w.txs) : i = e.id
    BY <2>1
  <2> QED
    BY <1>2, <2>2
<1>5. ASSUME NEW w \in Works PROVE DisjointTxs(w.txs)
  <2>1. PICK p \in Place : Pool[p].txs = w.txs
    BY <1>1, WorksPlaced
  <2>2. DisjointTxs(Pool[p].txs)
    BY <1>1 DEF PoolSound
  <2> QED
    BY <2>1, <2>2
<1>6. Scheduled = {i \in DOMAIN S : S[i].taken}
  BY <1>3, <1>4
<1>7. \A w \in Works : \A e \in Range(w.txs) : e.tx = TxOf(e.id)
  BY <1>2 DEF TxOf
<1> QED
  BY <1>5, <1>6, <1>7

\* The invariant keeps conflicts out of the batches.
LEMMA DisjointBatches == ASSUME IInv PROVE BatchesDisjoint
<1>1. \A w \in Works : DisjointTxs(w.txs)
  BY ScheduledTaken
<1> QED
  BY <1>1 DEF BatchesDisjoint, DisjointTxs

\* The invariant makes the container sound.
LEMMA SoundContainer == ASSUME IInv PROVE ContainerSound
<1> DEFINE S == id_to_transaction_state
           places == <<priority_queue, held_transactions, unschedulables, Scheduled>>
<1>1. /\ Scheduled = {i \in DOMAIN S : S[i].taken}
      /\ \A w \in Works : \A e \in Range(w.txs) : e.tx = TxOf(e.id)
  BY ScheduledTaken
<1>2. PlacesSound(S, priority_queue, held_transactions, unschedulables)
  BY DEF IInv, Sound
<1>3. /\ priority_queue \cup held_transactions \cup unschedulables
            = {i \in DOMAIN S : ~ S[i].taken}
      /\ priority_queue \cap held_transactions = {}
      /\ priority_queue \cap unschedulables = {}
      /\ held_transactions \cap unschedulables = {}
  BY <1>2 DEF PlacesSound
<1>4. /\ places[1] = priority_queue /\ places[2] = held_transactions
      /\ places[3] = unschedulables /\ places[4] = Scheduled
  BY SMTT(30)
<1>5. \A k \in 1 .. 4 : k = 1 \/ k = 2 \/ k = 3 \/ k = 4
  BY SMTT(30)
<1>6. 1 \in 1 .. 4 /\ 2 \in 1 .. 4 /\ 3 \in 1 .. 4 /\ 4 \in 1 .. 4
  BY SMTT(30)
<1>7. /\ priority_queue \cap Scheduled = {} /\ held_transactions \cap Scheduled = {}
      /\ unschedulables \cap Scheduled = {}
      /\ priority_queue \cup held_transactions \cup unschedulables \cup Scheduled = DOMAIN S
  BY <1>1, <1>3
<1> HIDE DEF places
<1>8. UNION {places[k] : k \in 1 .. 4} = DOMAIN S
  BY <1>4, <1>5, <1>6, <1>7
<1>9. \A j, k \in 1 .. 4 : j # k => places[j] \cap places[k] = {}
  BY <1>3, <1>4, <1>5, <1>7
<1>10. \A i \in DOMAIN S : S[i].taken <=> i \in Scheduled
  BY <1>1
<1> QED
  BY <1>1, <1>8, <1>9, <1>10 DEF ContainerSound, IInv, places

\* A transaction is locked for a schedulable thread, while it is not locked.
LEMMA ScheduleLocks ==
    ASSUME IInv, schedule
    PROVE  LocksNext \/ UNCHANGED lock_vars
<1>1. PICK i \in Top :
        /\ check_locks(TxOf(i))
        /\ priority_queue' = priority_queue \ {i}
        /\ \/ /\ \E t \in select_thread(accounts_schedulable_threads(TxOf(i)) \cap schedulable) :
                    try_schedule_transaction(i, t)
              /\ UNCHANGED unschedulables
           \/ SetAside(i)
  BY DEF schedule
<1>2. CASE SetAside(i)
  BY <1>2 DEF SetAside, lock_vars
<1>3. ASSUME NEW t \in select_thread(accounts_schedulable_threads(TxOf(i)) \cap schedulable),
             try_schedule_transaction(i, t)
      PROVE  LocksNext
  <2>1. t \in accounts_schedulable_threads(TxOf(i))
    BY DEF select_thread
  <2>2. t \in Thread /\ i \in priority_queue
    BY <2>1 DEF accounts_schedulable_threads, Top
  <2>3. holder[TxOf(i)] = NoThread /\ TxOf(i) \in Tx
    BY <1>1, <2>2, TakenSound
  <2>4. lock_accounts(TxOf(i), t) /\ holder' = [holder EXCEPT ![TxOf(i)] = t]
    BY <1>3 DEF try_schedule_transaction
  <2>5. try_lock_accounts(TxOf(i))
    BY <2>1, <2>3, <2>4 DEF try_lock_accounts
  <2> QED
    BY <2>3, <2>5 DEF LocksNext
<1> QED
  BY <1>1, <1>2, <1>3

\* complete_batch unlocks a transaction for the thread it is locked for: the
\* thread its batch was tracked for.
LEMMA CompleteUnlocks == ASSUME IInv, complete_batch PROVE LocksNext
<1> DEFINE txs == completing.work.txs
<1>1. PICK k \in StillLocked :
        /\ locks' = Unlocked(txs[k].tx, completing.work.thread)
        /\ holder' = [holder EXCEPT ![txs[k].tx] = NoThread]
  BY DEF complete_batch
<1>2. k \in DOMAIN txs /\ holder[txs[k].tx] # NoThread
  BY <1>1 DEF StillLocked
<1>3. Pool[CompletedAt].txs = txs /\ Pool[CompletedAt].thread = completing.work.thread
  BY PoolNow DEF PoolIs
<1>4. StateOK(id_to_transaction_state) /\ PoolSound(Pool, id_to_transaction_state, holder)
  BY DEF IInv, TypeOK, Sound
<1>5. CompletedAt \in Place
  BY Places
<1>6. ItemSound(Pool, id_to_transaction_state, holder, CompletedAt, txs[k])
  BY <1>2, <1>3, <1>4, <1>5 DEF PoolSound, ItemsSound
<1>7. holder[txs[k].tx] = completing.work.thread
  BY <1>2, <1>3, <1>6 DEF ItemSound
<1>8. txs[k].tx \in Tx
  <2>1. /\ txs[k].id \in DOMAIN id_to_transaction_state
        /\ id_to_transaction_state[txs[k].id].tx = txs[k].tx
    BY <1>6 DEF ItemSound
  <2>2. id_to_transaction_state[txs[k].id] \in State
    BY <1>4, <2>1 DEF StateOK
  <2> QED
    BY <2>1, <2>2 DEF State
<1>9. unlock_accounts(txs[k].tx)
  BY <1>1, <1>2, <1>7 DEF unlock_accounts
<1> QED
  BY <1>8, <1>9 DEF LocksNext

\* A step of the greedy scheduler is one of the locks, or leaves them alone.
LEMMA StepLocks == ASSUME IInv, [Next]_vars PROVE LocksNext \/ UNCHANGED lock_vars
<1>1. CASE schedule
  BY <1>1, ScheduleLocks
<1>2. CASE complete_batch
  BY <1>2, CompleteUnlocks
<1>3. CASE \/ decide \/ receive_completed \/ finish_completed \/ process_transactions
           \/ send_conflicting \/ end_schedule \/ receive_and_buffer_packets
  BY <1>3 DEF decide, receive_completed, finish_completed, process_transactions,
     send_conflicting, end_schedule, receive_and_buffer_packets, lock_vars
<1>4. ASSUME NEW t \in Thread, Worker(t) PROVE UNCHANGED lock_vars
  BY <1>4 DEF Worker, run, consume, retry_drain, lock_vars
<1>5. CASE set_bank \/ UNCHANGED vars
  BY <1>5 DEF set_bank, vars, lock_vars
<1> QED
  BY <1>1, <1>2, <1>3, <1>4, <1>5 DEF Next, SchedulerThread
-----------------------------------------------------------------------------
(***************************************************************************)
(* The theorems.                                                           *)
(***************************************************************************)
INSTANCE FiniteSetTheorems

\* The facts about finite sets hold.
LEMMA CountingHolds == Counting
<1>1. FiniteSubset
  BY FS_Subset DEF FiniteSubset
<1>2. FiniteSize
  BY FS_CardinalityType DEF FiniteSize
<1>3. FiniteEmpty
  BY FS_EmptySet DEF FiniteEmpty
<1>4. FiniteAdd
  BY FS_AddElement DEF FiniteAdd
<1>5. FiniteRemove
  BY FS_RemoveElement DEF FiniteRemove
<1>6. FiniteInterval
  BY FS_Interval DEF FiniteInterval
<1>7. FiniteInjection
  BY FS_Injection DEF FiniteInjection
<1>8. FiniteDifference
  BY FS_Difference DEF FiniteDifference
<1>9. FiniteUnion
  BY FS_Union DEF FiniteUnion
<1> QED
  BY <1>1, <1>2, <1>3, <1>4, <1>5, <1>6, <1>7, <1>8, <1>9 DEF Counting

\* The invariant of the locks by themselves.
LEMMA LocksInvariant == LocksSpec => []LocksIInv
<1>1. LocksInit => LocksIInv
  BY CountingHolds, LocksInitSound
<1>2. LocksIInv /\ [LocksNext]_lock_vars => LocksIInv'
  BY CountingHolds, LocksNextSound
<1> QED
  BY <1>1, <1>2, PTL DEF LocksSpec

\* The lock entries of ThreadAwareAccountLocks are exact, whatever the
\* transactions, their accounts and the number of threads.
THEOREM LocksExactHolds == LocksSpec => []LocksExact
<1>1. LocksIInv => LocksExact
  BY DEF LocksIInv
<1> QED
  BY <1>1, LocksInvariant, PTL

\* try_lock_accounts never puts conflicting transactions on two threads.
THEOREM ConflictsOneThreadHolds == LocksSpec => []ConflictsOneThread
<1>1. LocksIInv => ConflictsOneThread
  BY LocksConflicts
<1> QED
  BY <1>1, LocksInvariant, PTL

\* The inductive invariant of the greedy scheduler.
LEMMA GreedyInvariant == Spec => []IInv
<1>1. Init => IInv
  BY CountingHolds, InitSound
<1>2. IInv /\ [Next]_vars => IInv'
  BY CountingHolds, NextSound
<1> QED
  BY <1>1, <1>2, PTL DEF Spec

\* check_locks and take_locks keep the batches of the greedy scheduler free of
\* conflicts: whatever the transactions, the threads, the limits and the
\* interleaving with the workers and the leader's bank, a worker never gets two
\* transactions in one batch of which one would find its accounts locked.
THEOREM BatchesDisjointHolds == Spec => []BatchesDisjoint
<1>1. IInv => BatchesDisjoint
  BY DisjointBatches
<1> QED
  BY <1>1, GreedyInvariant, PTL

\* The container of the greedy scheduler is sound: a buffered transaction is
\* queued, held, set aside or in one batch, never two of them, the keys of the
\* batches still name their transactions when the workers answer, and
\* push_ids_into_queue keeps the container within its capacity.
THEOREM ContainerSoundHolds == Spec => []ContainerSound
<1>1. IInv => ContainerSound
  BY SoundContainer
<1> QED
  BY <1>1, GreedyInvariant, PTL

\* The greedy scheduler implements the account locks by themselves: each of its
\* steps locks one transaction that is not locked, for a schedulable thread,
\* unlocks one for the very thread it is locked for, or leaves the locks alone.
\* The thread to unlock for is remembered by the in-flight tracker, while the
\* batch goes through two channels and a worker.
THEOREM GreedyImplementsLocks == Spec => LocksSpec
<1>1. Init => LocksInit
  BY DEF Init
<1>2. IInv /\ [Next]_vars => [LocksNext]_lock_vars
  BY StepLocks
<1> QED
  BY <1>1, <1>2, GreedyInvariant, PTL DEF Spec, LocksSpec

\* The lock entries of the running scheduler count exactly the transactions in
\* its batches: complete_batch gives back what try_schedule_transaction took.
THEOREM GreedyLocksExact == Spec => []LocksExact
  BY GreedyImplementsLocks, LocksExactHolds, PTL

\* Conflicting transactions in flight are on one worker thread, whatever the
\* order in which batches are sent, executed, given back and retried.
THEOREM GreedyConflictsOneThread == Spec => []ConflictsOneThread
  BY GreedyImplementsLocks, ConflictsOneThreadHolds, PTL
=============================================================================
