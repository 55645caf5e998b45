---------------------------- MODULE BlockConsumer ----------------------------
(***************************************************************************)
(* How the block stage executes a block it has recorded                    *)
(* (core/src/block_stage/block_consumer.rs, execute_and_commit_parallel):  *)
(* a driver asks the DevinScheduler for ranges and deals them round-robin  *)
(* to worker threads over one channel each; a worker locks, executes,      *)
(* caches and commits its range and reports on a shared channel; the       *)
(* driver gives the range back to the scheduler.  Channels, account locks, *)
(* the shared account overrides and the accounts store are modelled, and   *)
(* each is touched in a step of its own.                                   *)
(*                                                                         *)
(* The value of an account is the transaction that wrote it last (0: what  *)
(* it was before the block, i + 1: transaction i), which is what ordering  *)
(* can be told by.  A transaction is processed, writing all its writable   *)
(* accounts, or not, writing none.                                         *)
(*                                                                         *)
(* Other stages keep off the bank while a block executes, unless it has    *)
(* ended under the block (SchedulerSync): what they then have in hand they *)
(* still lock and execute, but can neither record nor commit.              *)
(***************************************************************************)
EXTENDS DevinScheduler

CONSTANTS
    NUM_THREADS,   \* workers
    FaultSets,     \* which of "timeout", "panic" and "contention" may happen to a block
    Others         \* transactions other stages may have in hand, [read, write]

ASSUME ThreadsAssumption ==
    /\ NUM_THREADS \in Nat \ {0}
    /\ FaultSets \subseteq SUBSET {"timeout", "panic", "contention"}
    /\ \A o \in Others : o.read \subseteq Accounts /\ o.write \subseteq Accounts

VARIABLES                \* besides those of the scheduler
    driver,              \* where the scheduling loop is
    next_worker,         \* the worker the next range goes to
    queue,               \* queue[w]: ranges sent to worker w
    finish_rx,           \* results on their way back
    wpc, range,          \* where worker w is, and the range it works on
    locked,              \* locked[w]: transactions whose accounts w's batch has locked
    outcome,             \* outcome[i]: "none", "processed" or "unprocessed"
    seen,                \* history: what transaction i loaded, account by account
    overrides,           \* account_overrides; NoOverride where an account has none
    store,               \* the bank's accounts
    details,             \* all_commit_details; "placeholder" where none has arrived
    in_hand, holding,    \* of Others: those yet to be locked, and those locked
    faults,              \* what may go wrong while this block executes
    blockhash_queue      \* the bank's RwLock of recent blockhashes

scheduler == vars
workers == <<wpc, range, locked>>
others == <<in_hand, holding>>
results == <<outcome, seen, overrides, store>>
consumer_vars == <<scheduler, driver, next_worker, queue, finish_rx, workers, results, details,
          others, faults, blockhash_queue>>

Threads == 0 .. (NUM_THREADS - 1)
NoOverride == -1

AccountsOf(i) == transactions[i].read \cup transactions[i].write

-----------------------------------------------------------------------------
(* The driver.                                                             *)

\* The block is recorded: fresh channels, workers and overrides.
Start(b) ==
    /\ driver \in {"idle", "returned"}
    /\ b # <<>>
    /\ init(b)
    /\ driver' = "loop"
    /\ next_worker' = 0
    /\ queue' = [w \in Threads |-> <<>>]
    /\ finish_rx' = <<>>
    /\ wpc' = [w \in Threads |-> "recv"]
    /\ range' = [w \in Threads |-> {}]
    /\ locked' = [w \in Threads |-> {}]
    /\ outcome' = [i \in DOMAIN b |-> "none"]
    /\ seen' = [i \in DOMAIN b |-> <<>>]
    /\ overrides' = [a \in Accounts |-> NoOverride]
    /\ store' = [a \in Accounts |-> 0]
    /\ details' = [i \in DOMAIN b |-> "placeholder"]
    /\ faults' \in FaultSets
    /\ in_hand' = IF "contention" \in faults' THEN Others ELSE {}
    /\ holding' = {}
    /\ blockhash_queue' = "open"

\* Mutant: the loop has no timeout.
LoopTest_NoTimeout ==
    /\ driver = "loop"
    /\ driver' = IF finished THEN "join" ELSE "pop"
    /\ UNCHANGED <<scheduler, next_worker, queue, finish_rx, workers, results, details,
                   others, faults, blockhash_queue>>

\* while !finished && elapsed < EXECUTION_TIMEOUT; leaving it drops the senders.
LoopTest ==
    /\ driver = "loop"
    /\ \/ ~finished /\ driver' = "pop"
       \/ finished /\ driver' = "join"
       \/ "timeout" \in faults /\ driver' = "join"
    /\ UNCHANGED <<scheduler, next_worker, queue, finish_rx, workers, results, details,
                   others, faults, blockhash_queue>>

\* A range goes to the next worker, and is lost if that worker has panicked;
\* no range, and the loop looks for results.
PopAndSend ==
    /\ driver = "pop"
    /\ \E k \in 0 .. (Len(indices) - next) :
           /\ pop(k)
           /\ IF k = 0
              THEN driver' = "recv" /\ UNCHANGED <<queue, next_worker>>
              ELSE /\ queue' = IF wpc[next_worker] = "dead" THEN queue
                               ELSE [queue EXCEPT ![next_worker] =
                                        Append(@, Scanned(k))]
                   /\ next_worker' = (next_worker + 1) % NUM_THREADS
                   /\ UNCHANGED driver
    /\ UNCHANGED <<finish_rx, workers, results, details, others, faults, blockhash_queue>>

\* Mutant: the statuses are stored from index 0 instead of range.start.
TryRecv_NoOffset ==
    /\ driver = "recv"
    /\ driver' = "loop"
    /\ IF finish_rx = <<>>
       THEN UNCHANGED <<scheduler, finish_rx, details>>
       ELSE LET r == Head(finish_rx)
                start == Min(r.range) IN
            /\ finish(r.range)
            /\ finish_rx' = Tail(finish_rx)
            /\ details' = [i \in Txs |-> IF i + start \in r.range THEN r.status[i + start]
                                         ELSE details[i]]
    /\ UNCHANGED <<next_worker, queue, workers, results, others, faults, blockhash_queue>>

\* finish_rx.try_recv(): at most one result per round.
TryRecv ==
    /\ driver = "recv"
    /\ driver' = "loop"
    /\ IF finish_rx = <<>>
       THEN UNCHANGED <<scheduler, finish_rx, details>>
       ELSE LET r == Head(finish_rx) IN
            /\ finish(r.range)
            /\ finish_rx' = Tail(finish_rx)
            /\ details' = [i \in Txs |-> IF i \in r.range THEN r.status[i] ELSE details[i]]
    /\ UNCHANGED <<next_worker, queue, workers, results, others, faults, blockhash_queue>>

\* The scope joins the workers; a panic in one of them is passed on.
Join ==
    /\ driver = "join"
    /\ \A w \in Threads : wpc[w] \in {"exited", "dead"}
    /\ driver' = IF \E w \in Threads : wpc[w] = "dead" THEN "panicked" ELSE "returned"
    /\ UNCHANGED <<scheduler, next_worker, queue, finish_rx, workers, results, details,
                   others, faults, blockhash_queue>>

DriverStep == LoopTest \/ PopAndSend \/ TryRecv \/ Join

-----------------------------------------------------------------------------
(* The last tick of the slot.                                              *)

\* The caller of the driver locks the queue for reading before the block is
\* recorded and unlocks it after the driver has returned or panicked.
BlockReads == driver \in {"loop", "pop", "recv", "join"}

\* The lock is fair: no reader gets past a writer that is queued.
ReadersPass == blockhash_queue # "queued"

RegisterUnchanged ==
    UNCHANGED <<scheduler, driver, next_worker, queue, finish_rx, workers, results, details,
                others, faults>>

\* Mutant: the PoH thread queues for the lock.
register_recent_blockhash_Write ==
    /\ blockhash_queue = "open"
    /\ blockhash_queue' = IF BlockReads THEN "queued" ELSE "registered"
    /\ RegisterUnchanged

\* The PoH thread tries again and again, and gets the lock when nobody reads.
register_recent_blockhash ==
    /\ blockhash_queue = "open"
    /\ driver # "idle" /\ ~BlockReads
    /\ blockhash_queue' = "registered"
    /\ RegisterUnchanged

-----------------------------------------------------------------------------
(* A worker.                                                               *)

Move(w, l) == wpc' = [wpc EXCEPT ![w] = l]

DriverUnchanged ==
    UNCHANGED <<scheduler, driver, next_worker, details, others, faults, blockhash_queue>>

WorkerRecv(w) ==
    /\ wpc[w] = "recv" /\ queue[w] # <<>>
    /\ range' = [range EXCEPT ![w] = Head(queue[w])]
    /\ queue' = [queue EXCEPT ![w] = Tail(@)]
    /\ Move(w, "prepare")
    /\ DriverUnchanged /\ UNCHANGED <<finish_rx, locked, results>>

\* The channel is empty and its sender is dropped.
WorkerExit(w) ==
    /\ wpc[w] = "recv" /\ queue[w] = <<>> /\ driver = "join"
    /\ Move(w, "exited")
    /\ DriverUnchanged /\ UNCHANGED <<queue, finish_rx, range, locked, results>>

\* Whether two transactions, given by the accounts they read and write, need
\* the same account, one of them to write it.
Contend(t, u) ==
    t.write \cap (u.read \cup u.write) # {} \/ t.read \cap u.write # {}

\* try_lock_accounts, transaction by transaction, locks L: those that conflict
\* neither with another batch nor with an earlier one of this batch.
TryLock(w, L) ==
    \A i \in range[w] :
        i \in L <=> /\ \A v \in Threads \ {w} : \A j \in locked[v] : ~Conflict(i, j)
                    /\ \A j \in L : j < i => ~Conflict(i, j)
                    /\ \A o \in holding : ~Contend(o, transactions[i])

\* prepare_sanitized_batch
LockBatch(w, from, to) ==
    /\ wpc[w] = from
    /\ \E L \in SUBSET range[w] : TryLock(w, L) /\ locked' = [locked EXCEPT ![w] = L]
    /\ Move(w, to)
    /\ DriverUnchanged /\ UNCHANGED <<queue, finish_rx, range, results>>

Prepare(w) == LockBatch(w, "prepare", "execute")

\* AccountLoader: an override hides the store.
Loaded(a) == IF overrides[a] # NoOverride THEN overrides[a] ELSE store[a]

\* The last of the transactions P that writes a, or else v.
Written(P, a, v) ==
    LET W == {i \in P : a \in transactions[i].write} IN
    IF W = {} THEN v ELSE Max(W) + 1

\* Mutant: AccountInUse is not retried.
Execute_IgnoresInUse(w) ==
    /\ wpc[w] = "execute"
    /\ locked' = [locked EXCEPT ![w] = {}]
    /\ \E P \in SUBSET range[w] :
           /\ outcome' = [i \in Txs |-> IF i \notin range[w] THEN outcome[i]
                                        ELSE IF i \in P THEN "processed" ELSE "unprocessed"]
           /\ seen' = [i \in Txs |->
                  IF i \notin range[w] THEN seen[i]
                  ELSE [a \in AccountsOf(i) |->
                            Written({j \in P : j < i}, a, Loaded(a))]]
    /\ Move(w, "relock")
    /\ DriverUnchanged /\ UNCHANGED <<queue, finish_rx, range, overrides, store>>

\* execute_chunk: load_and_execute_transactions, whose results are thrown away
\* for another try if any transaction met AccountInUse.  The batch is dropped.
\* Within a batch each transaction sees the writes of the ones before it.
\* check_age reads the blockhash queue, under a lock of its own.
Execute(w) ==
    /\ wpc[w] = "execute" /\ ReadersPass
    /\ locked' = [locked EXCEPT ![w] = {}]
    /\ IF locked[w] # range[w]
       THEN Move(w, "prepare") /\ UNCHANGED <<outcome, seen>>
       ELSE /\ \E P \in SUBSET range[w] :
                   /\ outcome' = [i \in Txs |->
                          IF i \notin range[w] THEN outcome[i]
                          ELSE IF i \in P THEN "processed" ELSE "unprocessed"]
                   /\ seen' = [i \in Txs |->
                          IF i \notin range[w] THEN seen[i]
                          ELSE [a \in AccountsOf(i) |->
                                    Written({j \in P : j < i}, a, Loaded(a))]]
            /\ Move(w, "relock")
    /\ DriverUnchanged /\ UNCHANGED <<queue, finish_rx, range, overrides, store>>

\* A second batch is prepared for the commit; its lock results are not looked at.
Relock(w) == LockBatch(w, "relock", "cache")

Processed(w) == {i \in range[w] : outcome[i] = "processed"}

\* Mutant: an account that has an override keeps it.
Cache_FirstOnly(w) ==
    /\ wpc[w] = "cache"
    /\ overrides' = [a \in Accounts |-> IF overrides[a] # NoOverride THEN overrides[a]
                                        ELSE Written(Processed(w), a, overrides[a])]
    /\ Move(w, "commit")
    /\ DriverUnchanged /\ UNCHANGED <<queue, finish_rx, range, locked, outcome, seen, store>>

\* collect_accounts_to_store, then account_overrides.set_account for each.
Cache(w) ==
    /\ wpc[w] = "cache"
    /\ overrides' = [a \in Accounts |-> Written(Processed(w), a, overrides[a])]
    /\ Move(w, "commit")
    /\ DriverUnchanged /\ UNCHANGED <<queue, finish_rx, range, locked, outcome, seen, store>>

\* Mutant: committed only if the whole chunk was processed.
Commit_AllOrNothing(w) ==
    /\ wpc[w] = "commit"
    /\ store' = IF Processed(w) # range[w] THEN store
                ELSE [a \in Accounts |-> Written(Processed(w), a, store[a])]
    /\ Move(w, "send")
    /\ DriverUnchanged
    /\ UNCHANGED <<queue, finish_rx, range, locked, outcome, seen, overrides>>

\* committer.commit_transactions; nothing to commit if nothing was processed.
Commit(w) ==
    /\ wpc[w] = "commit"
    /\ store' = [a \in Accounts |-> Written(Processed(w), a, store[a])]
    /\ Move(w, "send")
    /\ DriverUnchanged
    /\ UNCHANGED <<queue, finish_rx, range, locked, outcome, seen, overrides>>

\* finish_tx.send: ignored once the driver has left the loop.
Send(w) ==
    /\ wpc[w] = "send"
    /\ finish_rx' = Append(finish_rx,
                           [range |-> range[w], status |-> [i \in range[w] |-> outcome[i]]])
    /\ Move(w, "drop")
    /\ DriverUnchanged /\ UNCHANGED <<queue, range, locked, results>>

\* Mutant: the batch is never dropped.
Drop_KeepsLocks(w) ==
    /\ wpc[w] = "drop"
    /\ range' = [range EXCEPT ![w] = {}]
    /\ Move(w, "recv")
    /\ DriverUnchanged /\ UNCHANGED <<queue, finish_rx, locked, results>>

\* End of the loop's body: the batch's locks go.
Drop(w) ==
    /\ wpc[w] = "drop"
    /\ locked' = [locked EXCEPT ![w] = {}]
    /\ range' = [range EXCEPT ![w] = {}]
    /\ Move(w, "recv")
    /\ DriverUnchanged /\ UNCHANGED <<queue, finish_rx, results>>

\* Unwinding drops the batch and the worker's channel ends.
WorkerPanic(w) ==
    /\ "panic" \in faults /\ wpc[w] \in {"execute", "commit"}
    /\ locked' = [locked EXCEPT ![w] = {}]
    /\ queue' = [queue EXCEPT ![w] = <<>>]
    /\ Move(w, "dead")
    /\ DriverUnchanged /\ UNCHANGED <<finish_rx, range, results>>

WorkerStep(w) ==
    \/ WorkerRecv(w) \/ WorkerExit(w) \/ Prepare(w) \/ Execute(w) \/ Relock(w)
    \/ Cache(w) \/ Commit(w) \/ Send(w) \/ Drop(w)

-----------------------------------------------------------------------------
(* The other stages.                                                       *)

OthersUnchanged ==
    UNCHANGED <<scheduler, driver, next_worker, queue, finish_rx, workers, results, details,
                faults, blockhash_queue>>

\* Another stage prepares the batch it has in hand, if its accounts are free.
OtherPrepare(o) ==
    /\ o \in in_hand
    /\ in_hand' = in_hand \ {o}
    /\ holding' = IF \/ \E w \in Threads : \E i \in locked[w] : Contend(o, transactions[i])
                     \/ \E p \in holding : Contend(o, p)
                  THEN holding ELSE holding \cup {o}
    /\ OthersUnchanged

\* It has executed it, finds that it cannot be recorded and drops the batch.
OtherDrop(o) ==
    /\ o \in holding
    /\ holding' = holding \ {o}
    /\ UNCHANGED in_hand
    /\ OthersUnchanged

-----------------------------------------------------------------------------
ConsumerInit ==
    /\ Init
    /\ driver = "idle"
    /\ next_worker = 0
    /\ queue = [w \in Threads |-> <<>>]
    /\ finish_rx = <<>>
    /\ wpc = [w \in Threads |-> "exited"]
    /\ range = [w \in Threads |-> {}]
    /\ locked = [w \in Threads |-> {}]
    /\ outcome = <<>> /\ seen = <<>> /\ details = <<>>
    /\ overrides = [a \in Accounts |-> NoOverride]
    /\ store = [a \in Accounts |-> 0]
    /\ in_hand = {} /\ holding = {}
    /\ faults = {}
    /\ blockhash_queue = "open"

ConsumerNext ==
    \/ \E b \in Blocks : Start(b)
    \/ DriverStep
    \/ register_recent_blockhash
    \/ \E w \in Threads : WorkerStep(w) \/ WorkerPanic(w)
    \/ \E o \in Others : OtherPrepare(o) \/ OtherDrop(o)

ConsumerSpec == ConsumerInit /\ [][ConsumerNext]_consumer_vars

\* The driver spins and the workers are threads of a pool that nothing else
\* uses while a block executes.  Another stage gives its locks back as soon as it
\* has executed its batch.  Two seconds do pass: where a timeout may happen,
\* a driver that keeps looping leaves the loop.  Nothing is assumed of blocks
\* arriving, of other stages coming or of panics.
Fairness ==
    /\ WF_consumer_vars(DriverStep)
    /\ \A w \in Threads : WF_consumer_vars(WorkerStep(w))
    /\ \A o \in Others : WF_consumer_vars(OtherDrop(o))
    /\ SF_consumer_vars(driver = "loop" /\ driver' = "join" /\ LoopTest)

FairSpec == ConsumerSpec /\ Fairness

-----------------------------------------------------------------------------
(* Properties.                                                             *)

\* Every variable has its type.
ConsumerTypeOK ==
    /\ TypeOK
    /\ in_hand \subseteq Others /\ holding \subseteq Others
    /\ faults \in FaultSets \cup {{}}
    /\ blockhash_queue \in {"open", "queued", "registered"}
    /\ driver \in {"idle", "loop", "pop", "recv", "join", "returned", "panicked"}
    /\ next_worker \in Threads
    /\ wpc \in [Threads -> {"recv", "prepare", "execute", "relock", "cache", "commit",
                            "send", "drop", "exited", "dead"}]
    /\ range \in [Threads -> SUBSET Txs] /\ locked \in [Threads -> SUBSET Txs]
    /\ outcome \in [Txs -> {"none", "processed", "unprocessed"}]
    /\ details \in [Txs -> {"placeholder", "processed", "unprocessed"}]
    /\ overrides \in [Accounts -> NoOverride .. Cardinality(Txs)]
    /\ store \in [Accounts -> 0 .. Cardinality(Txs)]

\* Whatever the workers' speeds, a transaction loads from every account what
\* executing the block in order would have left there: the write of the last
\* earlier transaction that was processed and writes it.
SerialReads ==
    \A i \in Txs :
        outcome[i] # "none" =>
            \A a \in AccountsOf(i) :
                seen[i][a] = Written({j \in Txs : j < i /\ outcome[j] = "processed"}, a, 0)

AtWork == {"execute", "relock", "cache", "commit", "send"}

\* No worker stands in the way of another's commit. The lock results of the
\* batch prepared for it are never looked at, but the locks of no other worker
\* refuse it, so that it has all of its range unless another stage came; and
\* with or without its locks no two workers execute or commit transactions that
\* conflict, nor is one still at it when the last blockhash is registered and
\* the bank may freeze.
CommitLocked ==
    \A w \in Threads :
        /\ wpc[w] = "relock" =>
              \A v \in Threads \ {w} : \A i \in range[w], j \in locked[v] : ~Conflict(i, j)
        /\ wpc[w] \in {"cache", "commit", "send", "drop"} /\ "contention" \notin faults =>
              locked[w] = range[w]
        /\ wpc[w] \in AtWork =>
              \A v \in Threads \ {w} : wpc[v] \in AtWork =>
                 \A i \in range[w], j \in range[v] : ~Conflict(i, j)
        /\ blockhash_queue = "registered" => wpc[w] \in {"exited", "dead"}

\* The driver returns with every transaction executed and its own status
\* reported, unless it timed out.
NothingLost ==
    driver = "returned" /\ finished =>
        \A i \in Txs : outcome[i] # "none" /\ details[i] = outcome[i]

\* What SerialBlock sees: a range counts as committed once its commit is done.
Serial == INSTANCE SerialBlock WITH
    committed <- {i \in Txs : outcome[i] # "none"
                              /\ \A w \in Threads : i \in range[w] => wpc[w] \in {"send", "drop"}},
    processed <- {i \in Txs : outcome[i] = "processed"
                              /\ \A w \in Threads : i \in range[w] => wpc[w] \in {"send", "drop"}}

\* The commits of execute_and_commit_parallel implement SerialBlock.
SerialSpec == Serial!Spec

\* No deadlock between pop, the account locks, the channels and the PoH thread,
\* which wants the lock the block holds: when no worker panics and the time does
\* not run out, a block is executed to the end, whatever other stages lock.
BlockCompletes ==
    driver = "loop" /\ faults \subseteq {"contention"} ~> driver = "returned" /\ finished

\* A panicked worker does not leave a zombie: the driver leaves its loop.
NoZombie == driver = "loop" ~> driver \in {"returned", "panicked"}

\* "Recording succeeded, so we're committed to this block - execute and
\* commit": a block that is reported as executed has been.
RecordedIsExecuted == driver = "returned" => \A i \in Txs : outcome[i] # "none"

=============================================================================
