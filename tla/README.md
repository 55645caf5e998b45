# Block production, replay scheduling and voting in TLA+

This directory holds a TLA+ development of the concurrent parts of the
validator: how a block received from the block engine is executed in parallel,
how it shares a leader slot with the validator's own schedulers, how
transactions are handed to the PoH thread and become a ledger, how the non-vote
scheduler deals transactions to its workers, how replay schedules the
transactions of other leaders' blocks, and how a validator votes across crashes.
The modules are translated from the Rust source under `src/`. TLC checks them on
small instances. TLAPS proves the main safety properties of eight of them, and
three refinements, for every instance.

`PROJECT.json` lists the components, the runs, the source lines every
definition stands for, the hazards, the mutants and the theorems.

## The system

| Part | Source | Module |
|---|---|---|
| Scheduler of a block | `core/src/block_stage/devin_scheduler.rs` | `DevinScheduler` |
| Execution of a block on worker threads | `core/src/block_stage/block_consumer.rs` | `BlockConsumer` |
| Block stage loop | `core/src/block_stage/mod.rs` | `SchedulerSync` |
| Claims of a slot by block stage and fallback schedulers | `core/src/scheduler_synchronization.rs` | `SchedulerSync` |
| Vote worker, scheduler controller, consume workers, bundle stage | `core/src/banking_stage/*`, `core/src/bundle_stage.rs` | `SchedulerSync` (their gates, records and commits) |
| Record channel between the schedulers and PoH | `poh/src/record_channels.rs` | `RecordChannels` |
| PoH thread: hashes, ticks, records, handles messages | `poh/src/poh_service.rs`, `poh_controller.rs` | `PohService`, `RecordChannels` |
| PoH recorder and hash chain | `poh/src/poh_recorder.rs`, `entry/src/poh.rs` | `PohService` |
| Replay loop: freezes banks, resets PoH, starts leader banks | `core/src/replay_stage.rs` | `PohService` |
| Non-vote scheduler with its container and workers | `core/src/banking_stage/transaction_scheduler/*`, `consume_worker.rs` | `GreedyScheduler` |
| Account locks of the non-vote scheduler | `scheduling-utils/src/thread_aware_account_locks.rs` | `ThreadAwareAccountLocks` |
| Account locking of the unified scheduler | `unified-scheduler-logic/src/lib.rs` | `SchedulingStateMachine` |
| Pool, threads and banks of the unified scheduler | `unified-scheduler-pool/src/lib.rs`, `runtime/src/installed_scheduler_pool.rs` | `UnifiedScheduler` |
| Tower, its storage, voting and restart | `core/src/consensus.rs`, `core/src/voting_service.rs`, `core/src/replay_stage.rs` | `Tower` |
| Lockouts, in the tower and in the vote program | `core/src/consensus/tower_vote_state.rs`, `programs/vote/src/vote_state/mod.rs` | `TowerVoteState` |

In a leader slot a block arrives at the block stage. The stage claims the slot in
one atomic word (`SchedulerSync`), waits for the vote worker, records the whole
block through the record channel (`RecordChannels`) and executes it
(`BlockConsumer`, with `DevinScheduler` inside). The PoH thread receives the
record, mixes its batches into the hash chain and then hurries through the rest
of the slot (`PohService`). If no block comes, the non-vote scheduler
(`GreedyScheduler`) and the bundle stage take the slot after the delegation
period. Blocks of other leaders are replayed through a pooled scheduler
(`UnifiedScheduler`, with `SchedulingStateMachine` inside); when a bank is frozen
the validator may vote for it (`Tower`), and later blocks take up the vote.

## The modules

**DevinScheduler** has the fields of the struct as variables and `init`, `Pop`
and `Finish` as actions. The code's loops are stated in closed form over the set
of transactions a call takes. `DevinSchedulerLoop` writes the loops out and
checks that both agree in every reachable state. A range is the set of its
indices; a lock map is a total function with 0 for a missing entry; lock words
saturate at `LockMax`, which stands for `u32::MAX`.

**BlockConsumer** extends `DevinScheduler` with the driver's loop, one queue per
worker, the shared result channel, account locks, the shared account overrides, the
store, and the blockhash queue lock that the slot's last tick waits for. A worker
prepares a batch (locks), executes, prepares a second batch for the commit, caches
into the overrides, commits, reports and drops its locks; each is a step. An
account's value is the index of the transaction that wrote it last, which is what
ordering can be told by. A lock is refused ("account in use") by a sibling, whose
batch is dropped after its report, or, where `FaultSets` allows contention, by
another stage (`OtherPrepare`, `OtherDrop`). `SchedulerSync` says when that can be:
`BlockExclusive` keeps all other stages off the bank of a block, unless the bank
ended under the block's execution; then they may still lock and execute, but not
commit, since the ended bank records nothing. A refusal of the first batch is
retried as the code does; the lock results of the second are not looked at, so with
contention a range may be committed without its locks. The driver may time out and a
worker may panic when `FaultSets` allows it. **SerialBlock** is the abstract
specification: transactions commit in groups, no group before an earlier conflicting
transaction, and the store is that of the serial order. `SerialSpec` states the
refinement.

**SchedulerSync** models every function of `scheduler_synchronization.rs` with
each atomic access a step, together with all its callers: the block stage, the
vote worker, the scheduler controller with workers that use scheduled work at
any later time, and the bundle stage. The environment creates banks, sets them
in PoH, ends and replaces them. The freeze lock and the blockhash queue lock
are modelled where they order a record against the end of the bank.

**RecordChannels** models `try_send`, `try_recv`, `shutdown`, `restart` and
`is_safe_to_restart` one atomic access at a time, with the PoH thread's loop as
the receiver. The 64-bit word is the pair of its fields, and an addition that
overflows the lower field carries into the upper one. **RecordQueue** is what the
channel promises: a queue of atomic operations, open for one bank at a time.
`IsQueue` states the refinement.

**PohService** models the hash chain, the recorder with its tick cache and
working bank, the whole `tick_producer` loop with its pacing and exit, the
message guard, and the replay loop as far as it touches PoH. The channel has the
atomic operations of `RecordQueue`, written out for the records PoH tells apart.
A `record()` call is one step per tick it spans; the recorder's lock is held over
them. A history variable keeps what was broadcast for every bank: tick heights
and the hashes each tick closes.

**GreedyScheduler** is the loop of the scheduler thread with the greedy
scheduler, the default block production method: decision, completed batches, the
scheduling pass, cleaning and buffering, over a container with its slab of ids,
its priority queue and its capacity. Workers take batches from a channel each and
return them, with transactions to retry, through one. What parsing and the bank's
checks say of a transaction is left open. It extends **ThreadAwareAccountLocks**,
the lock table: for each account the writing thread with a count, and the reading
threads with a count each. `LocksSpec` states that the scheduler takes and gives
back locks as that module's specification allows.

**SchedulingStateMachine** has one usage queue per address, with both
capabilities: FIFO queues, which replay uses, and priority queues, in which a
higher priority takes an address back from a task that does not run yet. A task
arrives, may be buffered, becomes unblocked when its last address is granted,
and leaves. **UnifiedScheduler** extends it with the scheduler thread, the handlers,
`ThreadManager`, the pool with its cleaner, and the banks: install, schedule, wait at
the last tick and for the freeze, stale and resumed banks, timeouts, the first
transaction error and the abort that follows it.

**Tower** follows one validator's votes: replay records a vote, advances the root
and queues the vote; the voting thread saves the tower and sends; blocks take the
vote up through the vote program; a crash may come between any two of these, and
the restart reads the saved tower and adjusts it to the root the ledger was
replayed to. A crash may lose the latest roots of the blockstore, which the
restart adds again from the tower once the ledger is replayed. A vote may not be
signed when it is pushed or refreshed: the key is missing, the vote account belongs
to another identity (a hot spare), or the call fails. **TowerVoteState** has the two
pieces of code that must agree, the local lockout stack and `process_tower_sync` of
the vote program, which drops the votes and the root that are older than the
block's `SlotHashes` before it judges the rest.

The MC modules define the blocks, tasks, trees and records of the small
instances. Definitions with a comment that begins with "Mutant" change one
definition the way a plausible bug would; they are not part of any
specification. Every property of a passing run is violated by one of them.

## The runs

| Run | Shows | Distinct states |
|---|---|---|
| `devin_scheduler` | conflicting transactions in block order, each handed out once, closed forms equal the loops | 7,483 |
| `block_consumer` | every load sees the serial value, no worker is in the way of another's commit, no result is lost, refinement of `SerialBlock`, blocks complete, the driver leaves its loop, with contention, timeouts and panics | 161,667 |
| `block_consumer_doc` | *violation*: a recorded block need not be executed | |
| `scheduler_sync` | mutual exclusion with a block in progress, a block only into a slot that holds nothing but votes, a claim is given up, the fallback gets its slot | 194,486 |
| `scheduler_sync_doc` | *violation*: fallback transactions do follow a block | |
| `record_channels` | no record crosses banks, indexes follow the queue order, messages are handled, refinement of `RecordQueue` | 275,794 |
| `poh_service` | what is broadcast is a valid block, records whole and for the working bank, pacing only with a block, a working bank ends | 922,568 |
| `poh_service_doc` | *violation*: the parent of a new leader bank need not be frozen | |
| `scheduling_state_machine` | tasks handed out never conflict, FIFO order, no deadlock, with both kinds of queues | 91,284 |
| `unified_scheduler` | a transaction runs in its own bank only, the result is that of the block, no assertion fails, every call returns | 310,572 |
| `tower` | lockouts of sent and saved votes are kept over crashes, the vote program accepts the votes, no assertion fails but one (see below), the blockstore has the roots of the towers | 397,975 |
| `greedy_scheduler` | conflicts at one thread and never in one batch, the container is sound, the lock table is used as it promises, batches come back | 222,042 |

### Bounds

- `DevinScheduler`: all blocks of four transactions that cost 1 and write at
  least one of two accounts, and longer ones chosen for costs and lock chains.
  Range and cost limits are 2, so that every stop condition of `pop` occurs.
- `BlockConsumer`: blocks of three transactions over two accounts that begin with a
  writer, and four chosen for ranges of several, skipped transactions, shared
  readers and chains. Two workers are enough for one to overtake, block or outlive
  the other. With contention another stage has one transaction in hand, which
  writes the first account; timeouts and panics come together and without it.
- `SchedulerSync`: a slot of ours and one that another validator leads, one worker, both
  fallback schedulers. The proofs cover any number of slots and workers.
- `RecordChannels`: two senders, capacity 3, records of one and two batches, two
  bank ids and the disabled one, and `MaxIndex`, a bound on the transactions of a
  bank after which no send begins.
- `PohService`: slots 0 to 2 (0 is where the validator starts) of three ticks of three
  hashes, one hash per batch, capacity 2, records of one and two batches, so that
  records cross ticks and a bank may start late, span a skipped slot or be reset.
  `MaxSlot` ends the ticking; from slot `ExitFrom` on the validator may exit. The
  doc run has slots of four ticks of three hashes.
- `SchedulingStateMachine`: three tasks over two addresses with every usage of the
  instance and every order of arrival, at most two running.
- `UnifiedScheduler`: three tasks in two banks, two handlers, two timeouts for the
  first bank.
- `Tower`: six slots in three trees with forks, a history of two lockouts, so that
  roots move, `SlotHashes` of two slots (`MAX_ENTRIES`), so that a block filters
  votes and roots, one vote in the queue of the voting thread, and two mishaps
  (`MaxMishaps`): crashes, and votes that fail or find a hot spare. A missing key
  costs no mishap.
- `GreedyScheduler`: three transactions over two accounts, two threads, a container of
  two with one extra, batches of two, and two slots.

### Fairness

- `BlockConsumer`: weak fairness for the driver and each worker, which are
  running threads. Strong fairness for leaving the loop when the time is up
  (two seconds do pass), where timeouts may happen at all. Weak fairness for
  another stage's drop of its batch, which it does as soon as the batch is executed
  (`consumer.rs:249-252`). What it has in hand of an ended bank it prepares once.
- `SchedulerSync`: weak fairness for every thread's step. Strong fairness for the
  block stage's wait for the vote flag: it spins, and the vote worker receives
  packets between two rounds with the flag down. Nothing is asked of the
  environment.
- `RecordChannels`: weak fairness for the threads, strong fairness for taking the
  index mutex, and strong fairness for the hashing round that is not followed by
  a tick, since a tick needs many rounds. Nobody has to begin a send.
- `PohService`: weak fairness for the PoH thread alone.
- `UnifiedScheduler`: weak fairness for the scheduler thread, the handlers and the
  calls in progress. Nobody has to begin a call, except that replay goes on with
  its bank.
- `GreedyScheduler`: weak fairness for the scheduler thread and the workers. The
  leader bank may come and go, or never come.

`CHECK_DEADLOCK FALSE` stands where threads may end (exit, panic, a block
executed, a sender with nothing to send, all tasks done).

## The proofs

Eight modules hold 13,841 obligations, all proved by tlapm. The assumptions are
the `ASSUME`s of the component modules: constants are naturals in range,
account keys of a transaction are distinct, a block has fewer transactions than
the lock word counts, thread names are distinct, senders, tasks, addresses and
the scheduler's transactions are finitely many, a container has as many keys as
its capacity and its extra capacity, and records are not empty. `PohService` adds
`BatchAssumption`: fewer hashes are made in a round of the loop than a tick has.
The default is 64 (`poh_service.rs:35`) against 62,500 per tick; the command line
sets it freely. TLC evaluates the assumptions in the runs of the component.

Each module tries Zenon by default (`USE ZenonT(40)`) and names the SMT solver at
the leaves that need arithmetic or sequences. Where a proof counts, its lemmas
take the facts about finite sets as one hypothesis, `Counting` of
**FiniteCounting**; `CountingHolds`, at the end of the module, establishes it from
`FiniteSetTheorems`, before the first temporal theorem.

**BlockConsumer_workers** (1,969 obligations) begins with the scheduler alone, and
**BlockConsumer_proof** (1,022) ends with the theorems on both. Of `DevinScheduler`:
`TypeCorrect`, `OrderKept` (`ConflictOrder`),
`HandedOutOnce` (`ExactlyOnce`), `NeverStuck` (`IdleIsUnlocked`). Order is not
inductive by itself: the inductive invariant adds that `running_locks` is
exactly the locks of the running transactions (`RunningLocksExact`), that every
skipped transaction's accounts are locked in `skipped_locks`
(`SkippedLocksHeld`), and that something runs whenever something is skipped
(`SkipsNeedRunning`). The lemmas say what locking and unlocking a set does to
an exact lock map, and what `pop` takes out of `indices`.

Of `BlockConsumer`: `ReadsAreSerial` (`SerialReads`), `CommitsUnderLocks`
(`CommitLocked`), `NothingIsLost` (`NothingLost`) and `ImplementsSerial`
(`SerialSpec`, the refinement of `SerialBlock`), for any blocks, any number of
workers, any faults and any transactions other stages may lock. The scheduler's
invariant carries over, since driver steps are steps of the scheduler or leave it
alone. Around it `ConsumerInv` says where a range is and that it is in one place
only (`QueueInv`, `WorkerInv`, `ResultInv`, `Apart`), who holds which locks
(`LockInv`: all those of its range, or with contention some of them), that a worker
still dropping its locks meets no conflicting one (`Separated`), what has happened
to a transaction the scheduler calls waiting, running or done (`OrderInv`), and that
overrides and store hold for each account what the last cached, respectively
committed, writer left (`ValuesInv`). `SerialReads` follows: all earlier conflicting
transactions are cached when a worker loads, and no later one. `CommitLocked` does
not say that a commit holds its locks, which is true only without other stages;
exclusion between workers comes from the scheduler, and the theorem says so: no
sibling's locks refuse the second batch, and no two workers between execution and
report have conflicting ranges. The refinement maps a worker's commit to the
abstract commit of its range and everything else to a stutter.

**SchedulerSync_proof** (971): `TypeCorrect`, `Exclusion` (`BlockExclusive`),
`FirstInSlot` (`BlockFirst`), for any slots, workers and set of fallback
schedulers. The invariant adds who owns banks and that block and fallback only
claim the highest one (`BanksOwned`, `BlockIsHighest`), that the block stage
holds the claim it acts on (`ClaimHeld`, `ClaimOwned`), that the vote flag is up
while votes are processed (`FlagUp`) and votes are out once the block has waited
(`VotesOut`), and that work granted earlier has been recorded or can no longer
be (`GrantsSettled`, `VanillaOut`, `RecordsSettled`).

**RecordChannels_proof** (1,910): `TypeCorrect`,
`RecordsAreCurrent` (`CurrentBank`), `RestartsDrained` (`Drained`), `BudgetKept`
(`Budget`), `IndexesMatch` (`IndexMatches`), `RoomForReserved` (`NeverFull`) and
`Implements` (`IsQueue`, the refinement of `RecordQueue`), for any number of senders
and any capacity. The invariant relates the counter to the senders that are
inside (`Counted`), gives every accepted batch a place of its own in the
capacity (`SlotsInv`), follows the mutex (`LockInv`), and says what the receiver
knows at each of its steps (`ReceiverInv`), such as that nobody who passed the
bank check can still send once the counter was seen at zero after a shutdown.

**PohService_proof** (2,713): `BlocksAreValid` (`LedgerValid`), `ChainInStep`
(`PohInStep`), `BankAndChannel` (`BankHandover`), `RecordsAreWhole` (`RecordWhole`)
and `SpeedrunAfterBlock` (`SpeedrunHasBlock`), for any tick and slot lengths,
capacities, records and any number of slots. `ChainInv` is stated of a chain, a
recorder and the ledgers, whatever step is being taken: tick heights against start
and working bank (`HeightInv`), the tick cache (`CacheInv`), the hashes of the
current tick as broadcast, made and to make (`HashInv`), and the ledgers
(`LedgerInv`). So the same lemmas serve a tick of the loop and one within a
record. Around it `PlaceInv` says what the PoH thread holds at each place,
`MessageInv` what a pending message implies, `ChannelInv` that accepted records
are for the working bank, and `ReceivedInv` that a block that sets the pace is
recorded or in hand. That nothing is accepted or left over when there is no bank
(`DrainedInv`) needs `RoomInv`: as long as records may come, the working bank
does not get its last tick within the next round, for which the batch
assumption is needed. TLC checked this invariant on the instance of the run
before it was proved.

**SchedulingStateMachine_proof** (1,536): `RunnableExclusiveHolds`
(`RunnableExclusive`), `ArrivalOrderHolds` (`ArrivalOrder`), `NoDeadlockHolds`
(`NoDeadlock`) and `QueueAssertsHold` (`QueueAsserts`), for any tasks and addresses and both kinds
of queues. The invariant adds that an active task holds or awaits each of its
addresses (`Placed`), that `blocked_usage_count` is exact (`Counted`), that holders
are compatible (`Compatible`), why anybody waits (`NonEmpty`, `WriterBetween`),
and that a conflicting task of lower rank in front can no longer be reblocked
(`NoInversion`, `FifoOrder`, with `Ranked`: ranks differ). For deadlock
freedom the blocked task of the highest rank waits only for tasks that are not
blocked, and those run or are in the queue of unblocked tasks.

**GreedyScheduler_pool** and **GreedyScheduler_proof** (1,702 and 2,018). Of the lock
table: `ConflictsOneThreadHolds` (`ConflictsOneThread`) and `LocksExactHolds`
(`LocksExact`), for any threads, accounts and transactions and any user of the table
that obeys it. The invariant is that counts equal the transactions in flight,
and that only the writing thread reads an account that is locked for writing
(`WriterReadsAlone`). Of the scheduler: `BatchesDisjointHolds` (`BatchesDisjoint`),
`ContainerSoundHolds` (`ContainerSound`) and `GreedyImplementsLocks`, that every step is
a step of the lock table or leaves it alone (`LocksSpec`); with it the two theorems
on the table hold of the scheduler (`GreedyConflictsOneThread`, `GreedyLocksExact`).
They hold for any capacity, batch size, threads, transactions and bank changes.

A batch goes from the one being filled to a worker's channel, the worker, the channel
back and the completion, and most steps only move batches. So the invariant speaks of
a `Pool`: a function from every `Place` a batch can be at to its thread and
transactions. `Sound` says of a pool, whatever the places: a key is in one batch at
one position (`OnceIn`), a batched transaction is the one its key names, is taken,
and is locked for the thread of its batch (`ItemsSound`), every taken key is in a
batch (`TakenFound`), the transactions of a batch do not conflict (`DisjointTxs`), and
the keys that are not taken are queued, held or set aside, each in one of the three
(`PlacesSound`). A step that only moves batches has a function from new to old places
(`Moved`), and one lemma shows that `Sound` is kept by all of them. What is left are the
steps that add a transaction to a batch, give a batch up, or take keys in and out of
the container. While batches are being filled, `FillSound` says that
`working_account_set` covers them, which is what keeps conflicts out of a batch.

Only model-checked:
- liveness, which is out of the prover's reach: `BlockCompletes`, `NoZombie`,
  `ClaimResolved`, `FallbackGranted`, `MessageHandled`, `BankEnds`, `CallReturns`,
  `ComesBack`;
- `ClosedForms`, which compares the closed forms of `DevinScheduler` with
  recursive operators: that needs induction over data;
- `Tower` with `TowerVoteState`: lockouts are powers of two, of which the provers know
  nothing, and expired lockouts are dropped by a recursive filter of a sequence,
  about which nothing can be proved without induction over data;
- `UnifiedScheduler` (`OnlyInItsBank`, `ResultExact`, `NoPanic`): its state machine is
  proved, the threads, pool and banks around it have no proof yet.

## What the runs found

- `scheduler_synchronization.rs:230`: after a block is executed the slot is
  claimed for the fallback schedulers, so they do run in a slot in which a block
  was received (`NoVanillaAfterBlock`). A comment in `scheduler_controller.rs:134`
  says they do not. The block still comes first (`BlockFirst`).
- `block_consumer.rs:577`: the driver's two second limit leaves a recorded block
  partly unexecuted and the caller reports success (`RecordedIsExecuted`).
- `replay_stage.rs:778`: `tpu_has_bank` is two loads. A `SetBank` handled between
  them goes unseen; if the bank then completes after this round's freezing and
  before `maybe_start_leader`, the assertion that the parent is frozen fails
  (`ParentFrozen`). It takes a bank that is set late or hurried through, and a
  long round of the replay loop.

Other things the models show without a run of their own:

*The block's locks.* Two comments, `block_consumer.rs:376` ("AccountInUse errors can
occur due to contention with vote processing threads") and `:409`, expect vote
threads on the block's bank, while `begin_vote_processing`
(`scheduler_synchronization.rs:180`) is there "to ensure mutual exclusion with the
block stage", and `BlockExclusive` shows that it does as long as the bank goes on.
What is left is a bank that ended while the block is executed. There the retry
loop is needed, and the second batch (`block_consumer.rs:504`) may be refused its
locks and committed without them. Nothing goes wrong by it in the model: the other
stage cannot record and so writes nothing, and workers are kept apart by the
scheduler (`CommitLocked`, `SerialReads`). If vote threads did commit to the bank
during a block, as the comments have it, the commit would be unprotected.

*The tower.* Three comments say more than the code does.
- `replay_stage.rs:2784-2786`: "if we were non voting or hot spare on the original
  vote, the refresh will also fail". A push that fails or finds a hot spare
  (2917-2935) neither saves the tower nor marks the vote, and the result depends on
  the bank, not on the vote. A later refresh may therefore send, without saving, a vote
  that was never sent; after a crash nothing remembers it and its lockout may be
  broken. `LockoutRespected` is about votes whose tower was saved (`sent`); votes
  that went out otherwise are in `unsaved`, and `RootsAgree` says nothing about the
  roots once there is one.
- `consensus.rs:1748-1752`: "saves tower before setting blockstore roots". Here the
  roots are set first and the tower is queued after; but, as the comment goes on,
  nothing orders the writes, and a crash may leave the blockstore without roots that
  the saved tower has. `RootsAgree` shows that the restart puts them back. It does so
  after the ledger was replayed from the old root, so that for this run of the
  process bank_forks is behind the tower's root.
- `consensus.rs:846`: "This case should never happen because bank forks purges all
  non-descendants of the root every time root is set". While bank_forks is behind,
  it holds banks that do not descend from the tower's root, and the assertion of
  `is_locked_out` can fail on one that has no conflicting vote left in the tower. The
  process ends. `NoPanic` claims this assertion only while both roots are equal.

*PoH.* When the PoH thread is told to exit with a message pending, the message's
guard is dropped untaken and panics. The channel may be reopened for a late bank
with more capacity than the slot has hashes; that an accepted record is never
refused then rests on the cost limits of a block, not on the channel. And `try_recv`
gives the capacity of a record back before its batches are mixed in, so that a full
channel may be queued behind the record in hand; the last record is then refused and
the PoH thread panics, although `record_channels.rs:187` says that all sent records
are recorded. With the capacity of the code this takes 131,071 batches in one slot.
A refusal always comes before the first batch (`RecordWhole`).

## Simplifications

- Memory is sequentially consistent. The code uses SeqCst for the vote flag and
  acquire/release for the record channel.
- `SchedulerSync`: leader slots come in any order, and the highest bank is not
  removed from bank forks. A block that arrives between the creation of the bank
  and its `SetBank` is claimed, refused by the channel and lost, as in the code.
- `BlockConsumer`: a transaction reads and writes all the accounts it locks, or is not
  processed and writes none. Preparation and recording of the block are steps of
  `SchedulerSync`; costs, tips, fees and metrics are left out.
- `PohService`: flushing ticks to the broadcast stage and registering them with the
  bank is one step; the broadcast stage stays connected; `hashes_per_tick` does
  not change; the leader schedule, grace ticks and the clock are left open.
  Banks are not dumped or purged.
- `recv_timeout` and the low power and short lived PoH producers serve tests and
  are not modelled.
- `GreedyScheduler`: what parsing, the bank's checks and the bundle stage's locks say
  of a transaction is left open. Lock counts do not wrap. The prio-graph scheduler,
  which a flag selects, and external workers are not modelled.
- `UnifiedScheduler`: block verification only; nothing outside tests unpauses a
  block production scheduler in this repository. A handler's panic ends the
  process (`set_panic_hook`) and is not modelled. One scheduler is followed; a batch is
  one transaction; a scheduler that is trashed for its size is one that is dropped
  from the pool.
- `Tower`: fork choice may select any tip that is not locked out; thresholds, which
  depend on the stakes of others, are left open. A crash may lose roots of the
  blockstore, but neither its blocks nor the tower file, although
  `tower_storage.rs:215` does not sync it: with an older file a lockout may be lost.
  There is no second instance of the validator, and no duplicate block. A tower too
  old for the slot history, a missing vote account and `wait_to_vote_slot` are not
  modelled.

The type invariants (`TypeOK`) are no properties of the runs. Those of
`DevinScheduler`, `SchedulerSync`, `RecordChannels`, `SchedulingStateMachine` and
`ThreadAwareAccountLocks` are proved, as theorems or as part of an inductive
invariant.

## Not modelled

- Fork choice and vote tracking: weighted trees over the stakes of the whole cluster.
  `Tower` does not depend on their results.
- Bundle account locks and bundle storage; vote storage; cost tracker: state of
  one thread or sums under one lock, which their tests reach.
- Proxy stages, tip manager, sigverify, fetch and forwarding, RPC and tools: network
  clients, pipelines and wiring around the stages modelled here.
- Repair, duplicate slots, gossip, Votor: protocols of a cluster, which need a model of
  several nodes; Votor is not active in the released configuration.
- Turbine, blockstore, accounts database, bank and SVM: storage and execution,
  abstracted to what the stages above read and write.

To run: `tlc -config X.cfg M` with module and config of a run in
`PROJECT.json`, and `tlapm M.tla` for the modules `*_proof` and
`BlockConsumer_workers`.
