---------------------------- MODULE SchedulerSync ----------------------------
(***************************************************************************)
(* Who may put transactions into a leader slot: the block stage, the       *)
(* vanilla schedulers (scheduler controller with its consume workers, and  *)
(* the bundle stage) and the vote worker, synchronised by the two atomics  *)
(* of core/src/scheduler_synchronization.rs.  Every atomic access is a     *)
(* step of its own; the threads are those that call the module:            *)
(*                                                                         *)
(*   "block"      core/src/block_stage/mod.rs, process_loop                *)
(*   "vote"       core/src/banking_stage/vote_worker.rs, process_packets   *)
(*   "scheduler"  scheduler_controller.rs, run                             *)
(*   "bundles"    core/src/bundle_stage.rs, process_buffered_bundles       *)
(*   Workers      core/src/banking_stage/consume_worker.rs, consume        *)
(*                                                                         *)
(* The life of a bank (created by the replay stage, handed to the PoH      *)
(* service, opened for records, shut and ended) is the environment; the    *)
(* record channel itself is the subject of RecordChannels.                 *)
(***************************************************************************)
EXTENDS Integers, FiniteSets

CONSTANTS Slots,          \* the slots banks are created for
          Mine,           \* the slots this validator leads
          Vanilla,        \* the vanilla schedulers that run
          Workers,        \* the consume workers
          BLOCK_CLAIMED_BIT \* 1 << 63 in the code

\* Real slots are far below the sentinel's slot bits, and slot 0 is the
\* genesis bank, which nobody leads.
ASSUME SlotsAssumption ==
    /\ BLOCK_CLAIMED_BIT \in Nat \ {0}
    /\ Slots \subseteq 1 .. (BLOCK_CLAIMED_BIT - 2)
    /\ Mine \subseteq Slots

Threads == {"block", "vote", "scheduler", "bundles"}

ASSUME ThreadsAssumption ==
    /\ Vanilla \subseteq {"scheduler", "bundles"}
    /\ Workers \cap Threads = {}

VARIABLES state,            \* SCHEDULER_STATE
          vote_processing,  \* VOTE_PROCESSING
          status,           \* status[s]: how far the bank of slot s has come
          fallback,         \* slots whose bank has ticked past the delegation period
          pc, slot,         \* where each thread is, and the slot of the bank it holds
          work,             \* work[w]: target slots queued for consume worker w
          recorded          \* history: which of a block and vanilla has recorded in slot s

vars == <<state, vote_processing, status, fallback, pc, slot, work, recorded>>

Processes == Threads \cup Workers
\* The threads that execute, record and commit batches of their own.
Executors == {"vote", "bundles"} \cup Workers

Statuses == {"none", "foreign", "created", "set", "open", "shut", "ended"}
Sources  == {"block", "vanilla"}
NoSlot   == 0             \* the thread holds no bank
PCs == {"idle", "tick", "load_delegation", "load_fallback", "update", "reload", "granted",
        "begin", "check", "defer", "end", "execute", "commit",
        "claim", "wait", "prepare", "lock", "record", "finished", "failed"}

-----------------------------------------------------------------------------
(* The packed state word.                                                  *)

SENTINEL == 2 * BLOCK_CLAIMED_BIT - 1

get_slot(value) ==
    IF value >= BLOCK_CLAIMED_BIT THEN value - BLOCK_CLAIMED_BIT ELSE value

is_block_claim(value) == value # SENTINEL /\ value >= BLOCK_CLAIMED_BIT

vanilla_claim(s) == get_slot(s)

block_claim(s) == get_slot(s) + BLOCK_CLAIMED_BIT

\* u64::wrapping_sub(1)
wrapping_pred(s) == IF s = 0 THEN SENTINEL ELSE s - 1

\* Mutant: the sentinel is read as a slot number.
Claimable_NoSentinel(s) == get_slot(state) < s

\* The test shared by the two claiming fetch_update closures.
Claimable(s) == state = SENTINEL \/ get_slot(state) < s

\* vanilla_should_schedule: "slot is already claimed for current_slot".
ClaimedFor(s) == state # SENTINEL /\ get_slot(state) = s

is_block_executing(s) == ClaimedFor(s) /\ is_block_claim(state)

-----------------------------------------------------------------------------
(* The bank's life, as the replay stage and the PoH service drive it.      *)

\* shared_leader_state.load() returns the bank of s.
Leads(s) == status[s] \in {"set", "open", "shut"}

\* bank_forks.working_bank(): the highest slot that has a bank.
IsWorkingSlot(s) ==
    /\ status[s] # "none"
    /\ \A t \in Slots : status[t] # "none" => t <= s

\* The block stage holds the freeze lock and the blockhash queue lock of s.
BankLocked(s) == pc["block"] \in {"record", "execute"} /\ slot["block"] = s

EnvironmentOnly == UNCHANGED <<state, vote_processing, pc, slot, work, recorded>>

\* maybe_start_leader and update_bank_forks_and_poh_recorder_for_new_tpu_bank:
\* a bank for a slot of ours that has none yet, while PoH has no bank.
NewTpuBank(s) ==
    /\ s \in Mine /\ status[s] = "none"
    /\ \A t \in Slots : status[t] \notin {"created", "set", "open", "shut"}
    /\ status' = [status EXCEPT ![s] = "created"]
    /\ EnvironmentOnly /\ UNCHANGED fallback

\* A bank replayed for another leader's slot.
ForeignBank(s) ==
    /\ s \notin Mine /\ status[s] = "none"
    /\ status' = [status EXCEPT ![s] = "foreign"]
    /\ EnvironmentOnly /\ UNCHANGED fallback

\* handle_service_message, SetBank: the leader state shows the bank ...
SetBank(s) ==
    /\ status[s] = "created"
    /\ status' = [status EXCEPT ![s] = "set"]
    /\ EnvironmentOnly /\ UNCHANGED fallback

\* ... and then the record channel is restarted for it.
RestartChannel(s) ==
    /\ status[s] = "set"
    /\ status' = [status EXCEPT ![s] = "open"]
    /\ EnvironmentOnly /\ UNCHANGED fallback

\* The tick that ends the delegation period (15/16 of the slot).
TickPastDelegation(s) ==
    /\ Leads(s) /\ s \notin fallback
    /\ fallback' = fallback \cup {s}
    /\ EnvironmentOnly /\ UNCHANGED status

\* record_receiver.shutdown(), at the end of the slot or on a service message.
ShutdownChannel(s) ==
    /\ status[s] = "open"
    /\ status' = [status EXCEPT ![s] = "shut"]
    /\ EnvironmentOnly /\ UNCHANGED fallback

\* The last tick: it needs the blockhash queue, which the block stage holds
\* from before it records until it has executed.
LastTick(s) ==
    /\ status[s] \in {"set", "shut"} /\ s \in fallback
    /\ ~BankLocked(s)
    /\ status' = [status EXCEPT ![s] = "ended"]
    /\ EnvironmentOnly /\ UNCHANGED fallback

\* reset_poh_recorder: the leader bank is dropped whatever its height, but
\* only once the channel has been shut.
Reset(s) ==
    /\ status[s] \in {"set", "shut"}
    /\ status' = [status EXCEPT ![s] = "ended"]
    /\ EnvironmentOnly /\ UNCHANGED fallback

Environment ==
    \E s \in Slots :
        \/ NewTpuBank(s) \/ ForeignBank(s) \/ SetBank(s) \/ RestartChannel(s)
        \/ TickPastDelegation(s) \/ ShutdownChannel(s) \/ LastTick(s) \/ Reset(s)

-----------------------------------------------------------------------------
(* Steps of a thread: it moves to another place, some shared variable      *)
(* changes, the rest stays.                                                *)

\* An idle thread has dropped its bank.
Goto(p, l) ==
    /\ pc' = [pc EXCEPT ![p] = l]
    /\ slot' = IF l = "idle" THEN [slot EXCEPT ![p] = NoSlot] ELSE slot

OnlyGoto(p, l) ==
    Goto(p, l) /\ UNCHANGED <<state, vote_processing, status, fallback, work, recorded>>

OnlyState(p, v, l) ==
    /\ state' = v
    /\ Goto(p, l) /\ UNCHANGED <<vote_processing, status, fallback, work, recorded>>

OnlyFlag(p, b, l) ==
    /\ vote_processing' = b
    /\ Goto(p, l) /\ UNCHANGED <<state, status, fallback, work, recorded>>

\* The thread takes hold of the bank of s.
TakeBank(p, s, l) ==
    /\ pc[p] = "idle"
    /\ pc' = [pc EXCEPT ![p] = l]
    /\ slot' = [slot EXCEPT ![p] = s]

\* make_consume_or_forward_decision: the leader bank, if there is one;
\* otherwise the decision is to hold or forward, and nothing changes.
Decide(p, s, l) ==
    /\ Leads(s) /\ TakeBank(p, s, l)
    /\ UNCHANGED <<state, vote_processing, status, fallback, work, recorded>>

\* maybe_consume: in_delegation_period from the bank's tick height.
ReadTick(p, delegated, late) ==
    /\ pc[p] = "tick"
    /\ OnlyGoto(p, IF slot[p] \in fallback THEN late ELSE delegated)

\* Where a batch of p ends.
Done(p) == IF p = "vote" THEN "end" ELSE "idle"

\* transaction_recorder.record: accepted by an open channel of this bank only;
\* a full channel refuses too.
Record(p) ==
    /\ pc[p] = "execute"
    /\ \/ /\ status[slot[p]] = "open"
          /\ recorded' = IF p = "vote" THEN recorded
                         ELSE [recorded EXCEPT ![slot[p]] = @ \cup {"vanilla"}]
          /\ Goto(p, "commit")
          /\ UNCHANGED <<state, vote_processing, status, fallback, work>>
       \/ OnlyGoto(p, Done(p))

Commit(p) == pc[p] = "commit" /\ OnlyGoto(p, Done(p))

ExecutorStep(p) == Record(p) \/ Commit(p)

-----------------------------------------------------------------------------
(* The vote worker, batch by batch.                                        *)

VoteDecide == \E s \in Slots : Decide("vote", s, "begin")

\* Mutant: the flag is not raised before the state is read.
VoteRaise_Late == pc["vote"] = "begin" /\ OnlyGoto("vote", "check")

\* begin_vote_processing: raise the flag, then look at the state.
VoteRaise == pc["vote"] = "begin" /\ OnlyFlag("vote", TRUE, "check")

VoteCheck ==
    /\ pc["vote"] = "check"
    /\ OnlyGoto("vote", IF is_block_executing(slot["vote"]) THEN "defer" ELSE "execute")

\* The block has the slot: lower the flag, reinsert the votes, leave the loop.
VoteDefer == pc["vote"] = "defer" /\ OnlyFlag("vote", FALSE, "idle")

\* end_vote_processing, then the next batch of the same bank or a new decision.
VoteEnd ==
    /\ pc["vote"] = "end"
    /\ \E l \in {"begin", "idle"} : OnlyFlag("vote", FALSE, l)

VoteStep == VoteRaise \/ VoteCheck \/ VoteDefer \/ VoteEnd \/ ExecutorStep("vote")

-----------------------------------------------------------------------------
(* The vanilla schedulers: vanilla_should_schedule, one atomic at a time.  *)

VanillaDecide(v) == \E s \in Slots : Decide(v, s, "tick")

VanillaTick(v) == ReadTick(v, "load_delegation", "load_fallback")

\* Some(!claimed_by_block), None while delegated, or go on to claim.
VanillaLoad(v) ==
    /\ pc[v] \in {"load_delegation", "load_fallback"}
    /\ OnlyGoto(v, IF ClaimedFor(slot[v])
                   THEN IF is_block_claim(state) THEN "idle" ELSE "granted"
                   ELSE IF pc[v] = "load_delegation" THEN "idle" ELSE "update")

VanillaUpdate(v) ==
    /\ pc[v] = "update"
    /\ IF Claimable(slot[v])
       THEN OnlyState(v, vanilla_claim(slot[v]), "granted")
       ELSE OnlyGoto(v, "reload")

VanillaReload(v) ==
    /\ pc[v] = "reload"
    /\ OnlyGoto(v, IF ClaimedFor(slot[v]) /\ ~is_block_claim(state)
                   THEN "granted" ELSE "idle")

\* The scheduler sends work for the bank's slot to a worker; the bundle stage
\* executes its bundles itself.
Schedule ==
    /\ pc["scheduler"] = "granted"
    /\ \E w \in Workers : work' = [work EXCEPT ![w] = @ \cup {slot["scheduler"]}]
    /\ Goto("scheduler", "idle")
    /\ UNCHANGED <<state, vote_processing, status, fallback, recorded>>

ConsumeBundles == pc["bundles"] = "granted" /\ OnlyGoto("bundles", "execute")

VanillaStep(v) ==
    VanillaTick(v) \/ VanillaLoad(v) \/ VanillaUpdate(v) \/ VanillaReload(v)

\* consume: the leader bank must be the one the work was scheduled for ...
Consume(w) ==
    \E s \in work[w] :
        /\ Leads(s) /\ TakeBank(w, s, "execute")
        /\ work' = [work EXCEPT ![w] = @ \ {s}]
        /\ UNCHANGED <<state, vote_processing, status, fallback, recorded>>

\* ... otherwise this work and all that is queued goes back as retryable.
RetryDrain(w) ==
    /\ pc[w] = "idle"
    /\ \E s \in work[w] : ~Leads(s)
    /\ work' = [work EXCEPT ![w] = {}]
    /\ UNCHANGED <<state, vote_processing, status, fallback, pc, slot, recorded>>

-----------------------------------------------------------------------------
(* The block stage, process_loop, with process_and_record_block_transactions. *)

\* A block arrives: dropped unless it is for the working bank, and that bank
\* is ours.
BlockRecv ==
    \E s \in Mine :
        /\ IsWorkingSlot(s) /\ TakeBank("block", s, "tick")
        /\ UNCHANGED <<state, vote_processing, status, fallback, work, recorded>>

\* block_should_schedule: None after the delegation period ...
BlockTick == ReadTick("block", "claim", "idle")

\* ... otherwise an attempt to claim.
BlockClaim ==
    /\ pc["block"] = "claim"
    /\ IF Claimable(slot["block"])
       THEN OnlyState("block", block_claim(slot["block"]), "wait")
       ELSE OnlyGoto("block", "idle")

\* wait_for_votes_to_finish
BlockWait ==
    /\ pc["block"] = "wait"
    /\ ~vote_processing
    /\ OnlyGoto("block", "prepare")

\* Translation, crank, signatures and checks: an empty block is done, an
\* invalid one has failed, any other goes on to be recorded.
BlockPrepare ==
    /\ pc["block"] = "prepare"
    /\ \E l \in {"finished", "failed", "lock"} : OnlyGoto("block", l)

\* freeze_lock and blockhash_queue_lock
BlockLock == pc["block"] = "lock" /\ OnlyGoto("block", "record")

\* All or nothing; an error drops the locks and returns.
BlockRecord ==
    /\ pc["block"] = "record"
    /\ \/ /\ status[slot["block"]] = "open"
          /\ recorded' = [recorded EXCEPT ![slot["block"]] = @ \cup {"block"}]
          /\ Goto("block", "execute")
          /\ UNCHANGED <<state, vote_processing, status, fallback, work>>
       \/ OnlyGoto("block", "failed")

\* execute_and_commit_parallel, which always returns Ok, and the locks dropped.
BlockExecute == pc["block"] = "execute" /\ OnlyGoto("block", "finished")

\* Mutant: a finished block is undone like a failed one.
block_execution_finished_Reverts ==
    /\ pc["block"] = "finished"
    /\ OnlyState("block", IF is_block_executing(slot["block"])
                          THEN vanilla_claim(wrapping_pred(slot["block"])) ELSE state, "idle")

block_execution_finished ==
    /\ pc["block"] = "finished"
    /\ OnlyState("block", IF is_block_executing(slot["block"])
                          THEN vanilla_claim(slot["block"]) ELSE state, "idle")

\* Mutant: a failed block returns without giving up its claim.
block_failed_KeepsClaim == pc["block"] = "failed" /\ OnlyGoto("block", "idle")

block_failed ==
    /\ pc["block"] = "failed"
    /\ OnlyState("block", IF is_block_executing(slot["block"])
                          THEN vanilla_claim(wrapping_pred(slot["block"])) ELSE state, "idle")

BlockStep ==
    \/ BlockTick \/ BlockClaim \/ BlockPrepare \/ BlockLock \/ BlockRecord
    \/ BlockExecute \/ block_execution_finished \/ block_failed

-----------------------------------------------------------------------------
Init ==
    /\ state = SENTINEL
    /\ vote_processing = FALSE
    /\ status = [s \in Slots |-> "none"]
    /\ fallback = {}
    /\ pc = [p \in Processes |-> "idle"]
    /\ slot = [p \in Processes |-> NoSlot]
    /\ work = [w \in Workers |-> {}]
    /\ recorded = [s \in Slots |-> {}]

Next ==
    \/ Environment
    \/ VoteDecide \/ VoteStep
    \/ \E v \in Vanilla : VanillaDecide(v) \/ VanillaStep(v)
    \/ Schedule \/ ConsumeBundles \/ ExecutorStep("bundles")
    \/ \E w \in Workers : Consume(w) \/ RetryDrain(w) \/ ExecutorStep(w)
    \/ BlockRecv \/ BlockStep \/ BlockWait

\* The threads run: a batch, a bundle, a block and each decision take finitely
\* many steps.  The spin in wait_for_votes_to_finish samples a flag the vote
\* worker raises and lowers, and the vote worker receives packets between two
\* rounds, so the spin meets a lowered flag: strong fairness.  Nothing is
\* assumed of the environment: blocks, banks, ticks and resets may never come.
Fairness ==
    /\ WF_vars(VoteDecide) /\ WF_vars(VoteStep)
    /\ \A v \in Vanilla : WF_vars(VanillaDecide(v)) /\ WF_vars(VanillaStep(v))
    /\ WF_vars(Schedule) /\ WF_vars(ConsumeBundles)
    /\ WF_vars(ExecutorStep("bundles"))
    /\ \A w \in Workers : WF_vars(Consume(w) \/ RetryDrain(w) \/ ExecutorStep(w))
    /\ WF_vars(BlockStep) /\ SF_vars(BlockWait)

Spec == Init /\ [][Next]_vars

FairSpec == Spec /\ Fairness

-----------------------------------------------------------------------------
\* Every variable has its type; the state word stays within 64 bits.
TypeOK ==
    /\ state \in 0 .. SENTINEL
    /\ vote_processing \in BOOLEAN
    /\ status \in [Slots -> Statuses]
    /\ fallback \subseteq Slots
    /\ pc \in [Processes -> PCs]
    /\ slot \in [Processes -> Slots \cup {NoSlot}]
    /\ \A p \in Processes : slot[p] = NoSlot <=> pc[p] = "idle"
    /\ work \in [Workers -> SUBSET Slots]
    /\ recorded \in [Slots -> SUBSET Sources]

\* While the block stage executes a recorded block, no vote batch, bundle or
\* scheduled batch that was recorded in the same slot is still to be committed,
\* and none is even being executed against that bank unless the bank has lost
\* its slot, so that it can no longer be recorded.  This is the mutual exclusion
\* begin_vote_processing and wait_for_votes_to_finish are for.
BlockExclusive ==
    pc["block"] \in {"prepare", "lock", "record", "execute"} =>
        \A p \in Executors :
            slot[p] = slot["block"] =>
                /\ pc[p] # "commit"
                /\ pc[p] = "execute" => status[slot[p]] = "ended"

\* A block is recorded only into a slot in which nothing but votes has been
\* recorded before it: no vanilla batch, and no earlier block (a second block
\* for the slot may follow a failed one, never one that was recorded).
BlockFirst ==
    pc["block"] \in {"wait", "prepare", "lock", "record"} =>
        recorded[slot["block"]] = {}

\* The claim a block makes is given up again: block_failed or
\* block_execution_finished is reached on every path, and the wait for the
\* vote worker ends.
ClaimResolved ==
    \A s \in Mine : []<>(state # block_claim(s))

\* "Otherwise, vanilla scheduling takes over during fallback stage": once the
\* leader bank is past its delegation period, the slot becomes vanilla's,
\* unless the bank loses its slot first or a later slot was claimed before (a
\* slot never leaves fallback, so this is a leads-to from Leads(s) and s in it).
FallbackGranted ==
    \A s \in Mine :
        []<>(\/ s \notin fallback
             \/ ~Leads(s)
             \/ state = vanilla_claim(s)
             \/ state # SENTINEL /\ get_slot(state) > s)

\* "only run after the delegation threshold if no block was received": no
\* vanilla batch is recorded in a slot in which a block was.
NoVanillaAfterBlock ==
    \A s \in Slots : ~({"block", "vanilla"} \subseteq recorded[s])

=============================================================================
