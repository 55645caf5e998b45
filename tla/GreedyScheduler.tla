--------------------------- MODULE GreedyScheduler ---------------------------
(***************************************************************************)
(* The scheduler of the banking stage: the scheduler thread                *)
(* (core/src/banking_stage/transaction_scheduler/scheduler_controller.rs   *)
(* with the greedy scheduler, the default block production method), its    *)
(* container of buffered transactions, and the consume workers             *)
(* (core/src/banking_stage/consume_worker.rs).  The scheduler thread goes  *)
(* round one loop; pc is its place in it:                                  *)
(*                                                                         *)
(*   start -> receive <-> complete, receive -> schedule -> buffer -> ..    *)
(*                                                                         *)
(* Workers run concurrently with it and get their batches through a        *)
(* channel each; they answer through one channel.  The leader's bank comes *)
(* and goes at any moment.  What the checks of the bank say of a           *)
(* transaction (age, fee payer, cost limits, locks held by votes and       *)
(* bundles) is left open.                                                  *)
(***************************************************************************)
EXTENDS ThreadAwareAccountLocks, Integers, Sequences, Functions, FiniteSetsExt

CONSTANTS Priority(_), Cost(_),          \* of a transaction
          Id,                            \* keys of the slab: capacity + EXTRA_CAPACITY
          capacity, EXTRA_CAPACITY,      \* of the container
          target_transactions_per_batch,
          target_cu_per_thread,          \* target_scheduled_cus / num_threads
          max_scanned,                   \* max_scanned_transactions_per_scheduling_pass
          Budgets,                       \* what the cost pacer may grant
          MaxSlot                        \* bound: leader slots 1 .. MaxSlot

ASSUME CapacityAssumption ==
    /\ Thread \subseteq Nat
    /\ Id \subseteq Nat /\ IsFiniteSet(Id)
    /\ capacity \in Nat /\ EXTRA_CAPACITY \in Nat
    /\ Cardinality(Id) = capacity + EXTRA_CAPACITY

ASSUME PriorityAssumption == \A x \in Tx : Priority(x) \in Int

VARIABLES
    id_to_transaction_state, \* the slab: [tx, taken] for each key in use
    priority_queue, held_transactions, unschedulables, \* sets of keys
    working_account_set,     \* accounts of the batches being filled
    batches,                 \* batches[t]: the batch being filled for thread t
    budget, scanned, schedulable, \* locals of schedule
    cus_in_flight, num_in_flight, \* the in-flight tracker, per thread
    pc, decision, most_recent_leader_slot, completing, \* the scheduler thread
    consume_work,            \* consume_work[t]: channel to worker t
    worker,                  \* worker[t]: what worker t is doing
    finished_work,           \* channel from the workers
    bank,                    \* slot of the leader's bank, NoSlot when there is none
    last_slot,               \* the last slot a bank was set for
    arrived                  \* transactions that were received

container == <<id_to_transaction_state, priority_queue, held_transactions>>
pass      == <<unschedulables, working_account_set, batches, budget, scanned, schedulable>>
tracker   == <<cus_in_flight, num_in_flight>>
control   == <<decision, most_recent_leader_slot, completing>>
channels  == <<consume_work, finished_work>>
leader    == <<bank, last_slot>>

vars == <<locks, holder, container, pass, tracker, pc, control, channels, worker,
          leader, arrived>>

NoSlot == 0
NoWork == [thread |-> NoThread, txs |-> <<>>, target_slot |-> NoSlot]
NoCompletion == [work |-> NoWork, retry |-> <<>>]
NoAccounts == [read |-> {}, write |-> {}]
TxOf(i) == id_to_transaction_state[i].tx
-----------------------------------------------------------------------------
(***************************************************************************)
(* The container (transaction_state_container.rs).                         *)
(***************************************************************************)
\* The keys in the order of the heap: priority first, then the key.
Below(state, i, j) ==
    \/ Priority(state[i].tx) < Priority(state[j].tx)
    \/ Priority(state[i].tx) = Priority(state[j].tx) /\ i < j

Lowest(state, ids, n) ==
    {i \in ids : Cardinality({j \in ids : Below(state, j, i)}) < n}

\* Push the keys ids, then drop the lowest priorities while the map is over
\* its capacity.
push_ids_into_queue(state, queue, ids) ==
    LET all == queue \cup ids
        dropped == Lowest(state, all, Cardinality(DOMAIN state) - capacity)
    IN  /\ priority_queue' = all \ dropped
        /\ id_to_transaction_state' = Restrict(state, DOMAIN state \ dropped)

\* A message of packets: the transactions S parse and get a vacant key each,
\* those of F then fail the checks of age, status and fee payer.  Packets are
\* dropped unparsed while the decision is to forward.
handle_packet_batch_message(S, F) ==
    /\ arrived' = arrived \cup S
    /\ IF decision.kind = "forward" THEN UNCHANGED <<id_to_transaction_state, priority_queue>>
       ELSE LET key == CHOOSE k \in Injection(S, Id \ DOMAIN id_to_transaction_state) : TRUE
                new == {key[x] : x \in S \ F}
            IN  push_ids_into_queue(
                    [i \in DOMAIN id_to_transaction_state \cup new |->
                        IF i \in new THEN [tx |-> CHOOSE x \in S : key[x] = i, taken |-> FALSE]
                        ELSE id_to_transaction_state[i]],
                    priority_queue, new)

remove_by_id(state, ids) == Restrict(state, DOMAIN state \ ids)
-----------------------------------------------------------------------------
(***************************************************************************)
(* Sending and receiving batches (scheduler_common.rs,                     *)
(* in_flight_tracker.rs).                                                  *)
(***************************************************************************)
TotalCost(txs) == MapThenSumSet(LAMBDA k : Cost(txs[k].tx), DOMAIN txs)

\* Mutant: every batch is tracked for the first thread.
send_batches_FirstThread(b) ==
    /\ consume_work' = [t \in Thread |->
                          IF b[t] = <<>> THEN consume_work[t]
                          ELSE Append(consume_work[t],
                                      [thread |-> Min(Thread), txs |-> b[t],
                                       target_slot |-> decision.slot])]
    /\ cus_in_flight' = [t \in Thread |-> cus_in_flight[t] + TotalCost(b[t])]
    /\ num_in_flight' = [t \in Thread |-> num_in_flight[t] + Len(b[t])]

\* send_batches for the filled batches b: each non-empty one is tracked and
\* sent to its worker.
send_batches(b) ==
    /\ consume_work' = [t \in Thread |->
                          IF b[t] = <<>> THEN consume_work[t]
                          ELSE Append(consume_work[t],
                                      [thread |-> t, txs |-> b[t],
                                       target_slot |-> decision.slot])]
    /\ cus_in_flight' = [t \in Thread |-> cus_in_flight[t] + TotalCost(b[t])]
    /\ num_in_flight' = [t \in Thread |-> num_in_flight[t] + Len(b[t])]

Empty == [t \in Thread |-> <<>>]

\* The thread with the least cost, then with the fewest transactions, then
\* the first one (a set of one thread when there are threads).
select_thread(threads) ==
    LET cost(t)  == TotalCost(batches[t]) + cus_in_flight[t]
        count(t) == Len(batches[t]) + num_in_flight[t]
    IN  {t \in threads : \A u \in threads :
            \/ cost(t) < cost(u)
            \/ cost(t) = cost(u) /\ count(t) < count(u)
            \/ cost(t) = cost(u) /\ count(t) = count(u) /\ t <= u}

\* Mutant: writers are kept apart, readers are not.
check_locks_Writers(x) ==
    Writes(x) \cap working_account_set.write = {}

check_locks(x) ==
    /\ Writes(x) \cap (working_account_set.write \cup working_account_set.read) = {}
    /\ Reads(x) \cap working_account_set.write = {}

take_locks(set, x) ==
    [read |-> set.read \cup Reads(x), write |-> set.write \cup Writes(x)]
-----------------------------------------------------------------------------
(***************************************************************************)
(* The scheduler thread.                                                   *)
(***************************************************************************)
\* The decision of this round of the loop; a bank may also be held back by
\* the scheduler synchronisation (Hold).  A change of the leader slot
\* releases the held transactions.
decide ==
    /\ pc \in {"start", "buffer"}
    /\ decision' \in IF bank # NoSlot
                     THEN {[kind |-> "consume", slot |-> bank], [kind |-> "hold", slot |-> NoSlot]}
                     ELSE [kind : {"hold", "forward_and_hold", "forward"}, slot : {NoSlot}]
    /\ IF most_recent_leader_slot # decision'.slot
       THEN /\ push_ids_into_queue(id_to_transaction_state, priority_queue, held_transactions)
            /\ held_transactions' = {}
       ELSE UNCHANGED container
    /\ most_recent_leader_slot' = decision'.slot
    /\ pc' = "receive"
    /\ UNCHANGED <<locks, holder, pass, tracker, completing, channels, worker, leader,
                   arrived>>

\* try_receive_completed, its first part: the next answer is taken off the
\* channel and its batch no longer tracked.
receive_completed ==
    /\ pc = "receive"
    /\ finished_work # <<>>
    /\ LET work == Head(finished_work).work IN
       /\ cus_in_flight' = [cus_in_flight EXCEPT ![work.thread] = @ - TotalCost(work.txs)]
       /\ num_in_flight' = [num_in_flight EXCEPT ![work.thread] = @ - Len(work.txs)]
    /\ completing' = Head(finished_work)
    /\ finished_work' = Tail(finished_work)
    /\ pc' = "complete"
    /\ UNCHANGED <<locks, holder, container, pass, decision, most_recent_leader_slot,
                   consume_work, worker, leader, arrived>>

\* The positions of the batch whose transactions are still locked.
StillLocked ==
    {k \in DOMAIN completing.work.txs : holder[completing.work.txs[k].tx] # NoThread}

\* complete_batch: the accounts of the next transaction of the batch are
\* unlocked for the thread the batch was tracked for.
complete_batch ==
    /\ pc = "complete"
    /\ \E k \in StillLocked :
         LET x == completing.work.txs[k].tx IN
         /\ \A j \in StillLocked : k <= j
         /\ locks' = Unlocked(x, completing.work.thread)
         /\ holder' = [holder EXCEPT ![x] = NoThread]
    /\ UNCHANGED <<container, pass, tracker, pc, control, channels, worker, leader,
                   arrived>>

\* Mutant: a retryable transaction keeps its entry and is removed later.
retry_transaction_Keeps(ids, retry) ==
    [i \in DOMAIN id_to_transaction_state |->
        IF i \in ids THEN [id_to_transaction_state[i] EXCEPT !.taken = FALSE]
        ELSE id_to_transaction_state[i]]

\* The map when the transactions ids are back, the ones of retry to be tried
\* again: these are put back into their entry, the others removed.
retry_transaction(ids, retry) ==
    [i \in DOMAIN id_to_transaction_state \ (ids \ retry) |->
        IF i \in retry THEN [id_to_transaction_state[i] EXCEPT !.taken = FALSE]
        ELSE id_to_transaction_state[i]]

\* try_receive_completed, its last part: each transaction of the batch is
\* queued again, held for the next slot, or removed.
finish_completed ==
    /\ pc = "complete"
    /\ StillLocked = {}
    /\ LET txs == completing.work.txs
           With(o) == {txs[k].id : k \in {j \in DOMAIN txs : completing.retry[j] = o}}
       IN  /\ push_ids_into_queue(
                  retry_transaction({e.id : e \in Range(txs)}, With("now") \cup With("later")),
                  priority_queue, With("now"))
           /\ held_transactions' = held_transactions \cup With("later")
    /\ completing' = NoCompletion
    /\ pc' = "receive"
    /\ UNCHANGED <<locks, holder, pass, tracker, decision, most_recent_leader_slot,
                   channels, worker, leader, arrived>>

\* clear_container: what is queued is dropped, what is held or in flight stays.
clear_container ==
    /\ id_to_transaction_state' = remove_by_id(id_to_transaction_state, priority_queue)
    /\ priority_queue' = {}

\* clean_queue: what is queued is checked again, and F fails.
clean_queue ==
    \E F \in SUBSET priority_queue :
        push_ids_into_queue(remove_by_id(id_to_transaction_state, F), {}, priority_queue \ F)

\* The start of schedule: the budget less what is in flight, and the threads
\* that are below their target.
start_schedule ==
    LET below == {t \in Thread : cus_in_flight[t] < target_cu_per_thread} IN
    \E b \in Budgets :
        /\ budget' = Max({0, b - FoldFunction(LAMBDA m, n : m + n, 0, cus_in_flight)})
        /\ scanned' = 0
        /\ schedulable' = below
        /\ pc' = IF below = {} THEN "buffer" ELSE "schedule"

\* receive_completed ends when the channel is empty.
process_transactions ==
    /\ pc = "receive"
    /\ finished_work = <<>>
    /\ CASE decision.kind = "consume" ->
              start_schedule /\ UNCHANGED <<id_to_transaction_state, priority_queue>>
         [] decision.kind = "forward" ->
              clear_container /\ pc' = "buffer" /\ UNCHANGED <<budget, scanned, schedulable>>
         [] decision.kind = "forward_and_hold" ->
              clean_queue /\ pc' = "buffer" /\ UNCHANGED <<budget, scanned, schedulable>>
         [] decision.kind = "hold" ->
              pc' = "buffer" /\ UNCHANGED <<id_to_transaction_state, priority_queue,
                                            budget, scanned, schedulable>>
    /\ UNCHANGED <<locks, holder, held_transactions, unschedulables, working_account_set,
                   batches, tracker, control, channels, worker, leader, arrived>>

Scanning ==
    /\ pc = "schedule"
    /\ budget > 0 /\ scanned < max_scanned /\ schedulable # {} /\ priority_queue # {}

\* The next transaction: the queue's maximum (a set of one key, none when the
\* queue is empty).
Top == {i \in priority_queue :
           \A j \in priority_queue \ {i} : Below(id_to_transaction_state, j, i)}

\* The next transaction conflicts with one of the batches being filled: they
\* are sent first.
send_conflicting ==
    /\ Scanning
    /\ \E i \in Top : ~ check_locks(TxOf(i))
    /\ send_batches(batches)
    /\ batches' = Empty
    /\ working_account_set' = NoAccounts
    /\ UNCHANGED <<locks, holder, container, unschedulables, budget, scanned, schedulable,
                   pc, control, finished_work, worker, leader, arrived>>

\* The next transaction is locked for a thread and put into its batch, which
\* is sent with the others when it is full.
try_schedule_transaction(i, t) ==
    LET x    == TxOf(i)
        b    == [batches EXCEPT ![t] = Append(@, [id |-> i, tx |-> x])]
        full == Len(b[t]) >= target_transactions_per_batch
    IN  /\ lock_accounts(x, t)
        /\ holder' = [holder EXCEPT ![x] = t]
        /\ id_to_transaction_state' = [id_to_transaction_state EXCEPT ![i].taken = TRUE]
        /\ budget' = Max({0, budget - Cost(x)})
        /\ IF full
           THEN /\ send_batches(b)
                /\ batches' = Empty
                /\ working_account_set' = NoAccounts
           ELSE /\ batches' = b
                /\ working_account_set' = take_locks(working_account_set, x)
                /\ UNCHANGED <<consume_work, tracker>>
        /\ schedulable' = IF cus_in_flight[t] + TotalCost(b[t]) >= target_cu_per_thread
                          THEN schedulable \ {t} ELSE schedulable

\* The next transaction conflicts with a bundle, with several threads, or with
\* a thread that may not take more.
SetAside(i) ==
    /\ unschedulables' = unschedulables \cup {i}
    /\ UNCHANGED <<locks, holder, id_to_transaction_state, budget, batches,
                   working_account_set, schedulable, consume_work, tracker>>

schedule ==
    /\ Scanning
    /\ scanned' = scanned + 1
    /\ \E i \in Top :
       /\ check_locks(TxOf(i))
       /\ priority_queue' = priority_queue \ {i}
       /\ \/ /\ \E t \in select_thread(accounts_schedulable_threads(TxOf(i)) \cap schedulable) :
                   try_schedule_transaction(i, t)
             /\ UNCHANGED unschedulables
          \/ SetAside(i)
    /\ UNCHANGED <<held_transactions, pc, control, finished_work, worker, leader,
                   arrived>>

\* The end of schedule: what is left in the batches is sent, and what could
\* not be scheduled goes back to the queue.
end_schedule ==
    /\ pc = "schedule"
    /\ ~ Scanning
    /\ send_batches(batches)
    /\ batches' = Empty
    /\ working_account_set' = NoAccounts
    /\ push_ids_into_queue(id_to_transaction_state, priority_queue, unschedulables)
    /\ unschedulables' = {}
    /\ budget' = 0 /\ scanned' = 0 /\ schedulable' = {}
    /\ pc' = "buffer"
    /\ UNCHANGED <<locks, holder, held_transactions, control, finished_work, worker, leader,
                   arrived>>

receive_and_buffer_packets ==
    /\ pc = "buffer"
    /\ \E S \in (SUBSET (Tx \ arrived)) \ {{}} : \E F \in SUBSET S :
          Cardinality(S) <= EXTRA_CAPACITY /\ handle_packet_batch_message(S, F)
    /\ UNCHANGED <<locks, holder, held_transactions, pass, tracker, pc, control, channels,
                   worker, leader>>

SchedulerThread ==
    \/ decide \/ receive_completed \/ complete_batch \/ finish_completed
    \/ process_transactions \/ send_conflicting \/ schedule \/ end_schedule
    \/ receive_and_buffer_packets
-----------------------------------------------------------------------------
(***************************************************************************)
(* The consume workers (consume_worker.rs, consumer.rs).                   *)
(***************************************************************************)
Idle == [state |-> "idle", work |-> NoWork]

\* Mutant: the worker waits for the bank of the slot.
run_Waits(t) ==
    /\ worker[t] = Idle
    /\ consume_work[t] # <<>>
    /\ bank = Head(consume_work[t]).target_slot
    /\ worker' = [worker EXCEPT ![t] = [state |-> "consume", work |-> Head(consume_work[t])]]
    /\ consume_work' = [consume_work EXCEPT ![t] = Tail(@)]
    /\ UNCHANGED <<locks, holder, container, pass, tracker, pc, control, finished_work,
                   leader, arrived>>

\* A batch is executed on the bank there is now, if it is the bank of the
\* slot the batch was scheduled for.
run(t) ==
    /\ worker[t] = Idle
    /\ consume_work[t] # <<>>
    /\ LET work == Head(consume_work[t]) IN
       worker' = [worker EXCEPT ![t] =
                    [state |-> IF bank # NoSlot /\ bank = work.target_slot
                               THEN "consume" ELSE "retry_drain",
                     work |-> work]]
    /\ consume_work' = [consume_work EXCEPT ![t] = Tail(@)]
    /\ UNCHANGED <<locks, holder, container, pass, tracker, pc, control, finished_work,
                   leader, arrived>>

Answer(work, retry) == Append(finished_work, [work |-> work, retry |-> retry])

\* What process_and_record_aged_transactions answers for the transactions txs.
\* One is done when it was committed or failed for good; it is retried when it
\* was processed but not recorded or found its accounts locked ("now"), or
\* would exceed a cost limit ("later").
retryable_transaction_indexes(txs) == [DOMAIN txs -> {"no", "now", "later"}]

consume(t) ==
    /\ worker[t].state = "consume"
    /\ \E retry \in retryable_transaction_indexes(worker[t].work.txs) :
          finished_work' = Answer(worker[t].work, retry)
    /\ worker' = [worker EXCEPT ![t] = Idle]
    /\ UNCHANGED <<locks, holder, container, pass, tracker, pc, control, consume_work,
                   leader, arrived>>

\* The current batch goes back whole, and so does all that is in the channel.
retry_drain(t) ==
    /\ worker[t].state = "retry_drain"
    /\ finished_work' = Answer(worker[t].work, [k \in DOMAIN worker[t].work.txs |-> "now"])
    /\ IF consume_work[t] = <<>>
       THEN /\ worker' = [worker EXCEPT ![t] = Idle]
            /\ UNCHANGED consume_work
       ELSE /\ worker' = [worker EXCEPT ![t].work = Head(consume_work[t])]
            /\ consume_work' = [consume_work EXCEPT ![t] = Tail(@)]
    /\ UNCHANGED <<locks, holder, container, pass, tracker, pc, control, leader, arrived>>

Worker(t) == run(t) \/ consume(t) \/ retry_drain(t)

\* The PoH service sets the bank of a later leader slot, or clears it.
set_bank ==
    /\ \/ bank # NoSlot /\ bank' = NoSlot /\ UNCHANGED last_slot
       \/ bank = NoSlot /\ last_slot < MaxSlot /\ bank' = last_slot + 1 /\ last_slot' = bank'
    /\ UNCHANGED <<locks, holder, container, pass, tracker, pc, control, channels, worker,
                   arrived>>
-----------------------------------------------------------------------------
Init ==
    /\ LocksInit
    /\ id_to_transaction_state = <<>>
    /\ priority_queue = {} /\ held_transactions = {} /\ unschedulables = {}
    /\ working_account_set = NoAccounts
    /\ batches = Empty
    /\ budget = 0 /\ scanned = 0 /\ schedulable = {}
    /\ cus_in_flight = [t \in Thread |-> 0]
    /\ num_in_flight = [t \in Thread |-> 0]
    /\ pc = "start"
    /\ decision = [kind |-> "hold", slot |-> NoSlot]
    /\ most_recent_leader_slot = NoSlot
    /\ completing = NoCompletion
    /\ consume_work = Empty
    /\ worker = [t \in Thread |-> Idle]
    /\ finished_work = <<>>
    /\ bank = NoSlot /\ last_slot = NoSlot
    /\ arrived = {}

Next == SchedulerThread \/ (\E t \in Thread : Worker(t)) \/ set_bank

Spec == Init /\ [][Next]_vars

\* The scheduler thread and the workers are loops that never block for good.
FairSpec ==
    /\ Spec
    /\ WF_vars(SchedulerThread)
    /\ \A t \in Thread : WF_vars(Worker(t))
-----------------------------------------------------------------------------
(***************************************************************************)
(* Properties.                                                             *)
(***************************************************************************)
\* The batches that are being filled, queued, executed, or on their way back.
Works ==
    {[thread |-> t, txs |-> batches[t], target_slot |-> decision.slot] : t \in Thread}
    \cup (UNION {Range(consume_work[t]) : t \in Thread})
    \cup {worker[t].work : t \in Thread}
    \cup {f.work : f \in Range(finished_work)}
    \cup {completing.work}

Scheduled == UNION {{e.id : e \in Range(w.txs)} : w \in Works}

\* Transactions in one batch never conflict with each other: a worker locks
\* the accounts of a whole batch at once, and would send the second of two
\* conflicting transactions back for ever.
BatchesDisjoint ==
    \A w \in Works : \A j, k \in DOMAIN w.txs :
        j # k => ~ Conflict(w.txs[j].tx, w.txs[k].tx)

\* A buffered transaction is in exactly one place: queued, held, set aside in
\* this pass, or scheduled; it can be taken unless it is scheduled, and a
\* batch's keys still name its transactions.  A key that outlived its entry
\* would later name another transaction.  Between two messages the container
\* is within its capacity, however many transactions are in flight or held.
ContainerSound ==
    LET places == <<priority_queue, held_transactions, unschedulables, Scheduled>> IN
    /\ UNION {places[k] : k \in 1 .. 4} = DOMAIN id_to_transaction_state
    /\ \A j, k \in 1 .. 4 : j # k => places[j] \cap places[k] = {}
    /\ \A i \in DOMAIN id_to_transaction_state :
          id_to_transaction_state[i].taken <=> i \in Scheduled
    /\ \A w \in Works : \A e \in Range(w.txs) : e.tx = TxOf(e.id)
    /\ Cardinality(DOMAIN id_to_transaction_state) <= capacity

\* Whatever becomes of the bank, a scheduled transaction comes back to the
\* scheduler and its accounts are unlocked.
ComesBack == \A x \in Tx : []<>(holder[x] = NoThread)
=============================================================================
