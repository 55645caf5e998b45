------------------------------- MODULE Tower -------------------------------
(***************************************************************************)
(* One validator's votes, from the tower they are recorded in to the       *)
(* blocks they land in, across crashes of the process:                     *)
(*                                                                         *)
(*   - the replay thread (core/src/replay_stage.rs, core/src/consensus.rs) *)
(*     freezes banks, records a vote in its tower, advances the root of    *)
(*     the ledger and queues the vote;                                     *)
(*   - the voting thread (core/src/voting_service.rs) saves the tower to   *)
(*     disk and then sends the vote;                                       *)
(*   - blocks of the cluster take up sent votes through the vote program;  *)
(*   - a restart reads the saved tower back and adjusts it to the root the *)
(*     ledger was replayed to (core/src/validator.rs).                     *)
(*                                                                         *)
(* What fork choice, the switch threshold and the vote thresholds decide   *)
(* from the other validators' stakes is left open: any tip that is not     *)
(* locked out may be voted for. There are no duplicate blocks and no       *)
(* second instance with the same identity. The tower file and the blocks   *)
(* of the ledger survive a crash; of the roots marked in the blockstore,   *)
(* between which and the tower file there is no write barrier, the latest  *)
(* may be lost.                                                            *)
(***************************************************************************)
EXTENDS TowerVoteState

CONSTANTS
    Slot,           \* the slots with a block, 0 being the genesis block
    Forks,          \* block trees: each maps a slot to its set of ancestors
    MaxMishaps,     \* bound: crashes, and votes that fail or find a hot spare
    MaxQueued       \* bound: vote operations waiting for the voting thread

VARIABLES
    ancestors,      \* the block tree of the cluster
    landed,         \* block -> state of our vote account in it, once produced
    frozen,         \* banks in bank_forks, all of them frozen
    root,           \* root of bank_forks
    blockstore_root, \* max_root of the blockstore
    tower,          \* the Tower of the replay thread
    vote_ops,       \* channel to the voting thread
    handling,       \* the vote being sent, NoVotes if none
    stored,         \* the tower file, NoTower if missing
    sent,           \* votes sent to the cluster with their tower on disk
    unsaved,        \* votes sent without it
    mishaps,        \* crashes, and votes that failed or found a hot spare
    panicked        \* an assertion, expect or panic of the code was reached

vars == <<ancestors, landed, frozen, root, blockstore_root, tower, vote_ops,
          handling, stored, sent, unsaved, mishaps, panicked>>

ASSUME ForksAssumption ==
    /\ Slot \subseteq Nat /\ 0 \in Slot
    /\ \A f \in Forks : f \in [Slot -> SUBSET Slot]
    /\ \A f \in Forks : \A s \in Slot :
          /\ \A a \in f[s] : a < s /\ f[a] = {b \in f[s] : b < a}
          /\ s # 0 => 0 \in f[s]

NoTower == [votes |-> <<>>, root |-> 0, last_vote |-> NoVotes]

\* Whether b descends from, or is, block a.
Extends(b, a) == a = b \/ a \in ancestors[b]

parent_slot(b) == CHOOSE p \in ancestors[b] : \A a \in ancestors[b] : a <= p

\* The tips of the replayed forks: fork choice always descends to one.
Tips == {b \in frozen : \A c \in frozen : b \notin ancestors[c]}

Statuses == {"Uninitialized", "Blockhash", "NonVoting", "HotSpare"}

\* A Tower in memory; the status of its last vote and the stray slot are not
\* saved with it.
InMemory(saved, stray) ==
    [votes |-> saved.votes, root |-> saved.root, last_vote |-> saved.last_vote,
     last_vote_tx_blockhash |-> "Uninitialized", stray_restored_slot |-> stray]

SavedTower(t) == [votes |-> t.votes, root |-> t.root, last_vote |-> t.last_vote]

-----------------------------------------------------------------------------
(* The tower (core/src/consensus.rs). *)

LastVotedSlot(t) == last_voted_slot(t.last_vote.votes)

is_stray_last_vote(t) ==
    t.stray_restored_slot # 0 /\ t.stray_restored_slot = LastVotedSlot(t)

is_recent(t, s) ==
    IF t.votes # <<>> THEN s > last_voted_slot(t.votes) ELSE s > t.root

\* A vote for s is simulated; a vote left in the tower that s does not
\* descend from locks s out.
Conflicts(t, s) ==
    \E v \in Slots(process_next_vote_slot(t, s).votes) : ~Extends(s, v)

is_locked_out(t, s) == ~is_recent(t, s) \/ Conflicts(t, s)

\* is_locked_out asserts that the root is an ancestor of a bank it lets vote.
LockoutPanics(t, s) ==
    /\ ~is_locked_out(t, s)
    /\ ~Extends(s, process_next_vote_slot(t, s).root)

\* cache_tower_stats asks it for every frozen bank: a failed assertion ends the
\* process.
Alive == \A b \in frozen : ~LockoutPanics(tower, b)

\* heaviest_slot_on_same_voted_fork and make_check_switch_threshold_decision
\* expect the last vote to be in bank_forks, unless it was restored, and the
\* tip not to be one of its ancestors.
SwitchPanics(t, s) ==
    /\ LastVotedSlot(t) # 0
    /\ ~is_stray_last_vote(t)
    /\ LastVotedSlot(t) \notin frozen \/ s \in ancestors[LastVotedSlot(t)]

update_last_vote_from_vote_state(t) ==
    [t EXCEPT !.last_vote = [votes |-> t.votes, root |-> t.root]]

\* The slot panics in the code when it is not newer than the last vote, which
\* is_locked_out excludes.
record_bank_vote(t, s) ==
    update_last_vote_from_vote_state(process_next_vote_slot(t, s))

-----------------------------------------------------------------------------
(* Restoring a tower (core/src/consensus.rs, core/src/validator.rs). *)

\* The newest vote of the tower that the slot history holds, 0 for the root.
Anchor(votes, history) ==
    LET found == {i \in DOMAIN votes : votes[i].slot \in history}
    IN  CHOOSE k \in found \cup {0} : \A i \in found : i <= k

\* Mutant: every restored vote is forgotten.
adjust_lockouts_with_slot_history_Forgets(t, history) ==
    [t EXCEPT !.votes = <<>>, !.last_vote = NoVotes]

\* Mutant: the restored last vote is not remembered as stray.
adjust_lockouts_with_slot_history_NotStray(t, history) ==
    LET votes == SubSeq(t.votes, Anchor(t.votes, history) + 1, Len(t.votes))
    IN  [t EXCEPT !.votes = votes,
                  !.last_vote = IF votes = <<>> THEN NoVotes ELSE @]

\* The anchor and the votes below it are dropped, the ones above it are kept:
\* they are on another fork or on blocks that are not replayed yet.
adjust_lockouts_with_slot_history(t, history) ==
    LET votes == SubSeq(t.votes, Anchor(t.votes, history) + 1, Len(t.votes))
    IN  [t EXCEPT !.votes = votes,
                  !.last_vote = IF votes = <<>> THEN NoVotes ELSE @,
                  !.stray_restored_slot = IF votes = <<>> THEN @ ELSE LastVotedSlot(t)]

\* FatallyInconsistent: the history does not hold the root or a vote below
\* the anchor.
Inconsistent(t, history) ==
    \/ t.root \notin history
    \/ \E i \in 1..Anchor(t.votes, history) : t.votes[i].slot \notin history

SlotHistory(r) == ancestors[r] \cup {r}

adjust_lockouts_after_replay(t, r) ==
    IF LastVotedSlot(t) = 0
    THEN t
    ELSE IF t.root <= r
         THEN [adjust_lockouts_with_slot_history(t, SlotHistory(r))
                 EXCEPT !.root = r]
         ELSE adjust_lockouts_with_slot_history(t, SlotHistory(r) \cup {t.root})

RestorePanics(t, r) ==
    IF LastVotedSlot(t) = 0
    THEN t.root # r
    ELSE Inconsistent(t, SlotHistory(r) \cup (IF t.root <= r THEN {} ELSE {t.root}))

\* Without a file no vote was ever sent, and the vote account is empty.
new_from_bankforks(r) == InMemory([NoTower EXCEPT !.root = r], 0)

\* The saved votes are taken for granted only up to the crash: the tower is
\* adjusted to the root bank before the replay thread starts.
process(r) ==
    IF stored = NoTower
    THEN new_from_bankforks(r)
    ELSE adjust_lockouts_after_replay(InMemory(stored, 0), r)

-----------------------------------------------------------------------------
(* The replay thread (core/src/replay_stage.rs). *)

\* A bank whose vote account is newer than the tower replaces its votes, those
\* at or below the local root excepted.
Adopted(t, state) ==
    IF t.root > state.root
    THEN [votes |-> SelectSeq(state.votes, LAMBDA v : v.slot > t.root), root |-> t.root]
    ELSE state

IsBehind(t, state) == last_voted_slot(state.votes) > last_voted_slot(t.votes)

adopt_on_chain_tower_if_behind(t, state) ==
    IF IsBehind(t, state)
    THEN update_last_vote_from_vote_state(
            [t EXCEPT !.votes = Adopted(t, state).votes, !.root = Adopted(t, state).root])
    ELSE t

\* The first vote kept descends from the local root, and the last voted slot
\* (or the root) is in bank_forks.
AdoptPanics(t, state, banks) ==
    LET new == Adopted(t, state)
    IN  /\ IsBehind(t, state)
        /\ \/ /\ t.root > state.root
              /\ new.votes # <<>>
              /\ t.root \notin ancestors[new.votes[1].slot]
           \/ (IF new.votes = <<>> THEN new.root ELSE last_voted_slot(new.votes)) \notin banks

\* update_slot_hashes: a block knows the newest of its ancestors.
SlotHashes(b) ==
    {a \in ancestors[b] : Cardinality({c \in ancestors[b] : c >= a}) <= MAX_ENTRIES}

\* What the vote account may hold in block b: what it held in the parent, or a
\* vote sent to the cluster that b executed. A block's content never changes.
LandedIn(b) ==
    LET state == landed[parent_slot(b)]
    IN  IF b \in DOMAIN landed
        THEN {landed[b]}
        ELSE {state} \cup {Filtered(state, v, SlotHashes(b)) :
                 v \in {v \in sent \cup unsaved : process_tower_sync(state, v, SlotHashes(b))}}

\* Blocks that the blockstore holds and that are to be replayed after a restart.
Pending == {b \in DOMAIN landed \ frozen : Extends(b, root)}

\* Block b is replayed and frozen; compute_bank_stats looks at its vote account,
\* after a restart in the order of the slots.
replay(b) ==
    /\ b \notin frozen
    /\ parent_slot(b) \in frozen
    /\ Alive
    /\ Pending # {} => b \in Pending /\ \A c \in Pending : b <= c
    /\ \E state \in LandedIn(b) :
          /\ landed' = [c \in DOMAIN landed \cup {b} |->
                           IF c = b THEN state ELSE landed[c]]
          /\ frozen' = frozen \cup {b}
          /\ tower' = adopt_on_chain_tower_if_behind(tower, state)
          /\ panicked' = AdoptPanics(tower, state, frozen')
    /\ UNCHANGED <<ancestors, root, blockstore_root, vote_ops, handling, stored,
                   sent, unsaved, mishaps>>

\* The new root is set in the blockstore and in bank_forks, which drops the
\* banks that do not descend from it.
check_and_handle_new_root(new_root) ==
    /\ root' = new_root
    /\ blockstore_root' = Max({blockstore_root, new_root})
    /\ frozen' = {b \in frozen : Extends(b, new_root)}
    /\ panicked' = (new_root \notin frozen)

PushVote(t) == [tx |-> t.last_vote, saved_tower |-> <<SavedTower(t)>>]

RefreshVote(t) == [tx |-> t.last_vote, saved_tower |-> <<>>]

\* The validator may not hold the keypair of the authorized voter, which an
\* operator can add and remove while the process runs (NonVoting). The vote
\* account in the bank may belong to another identity (HotSpare), be missing or
\* have no authorized voter, or the bank may be older than wait_to_vote_slot
\* (Failed): the result depends on the bank, not on the vote.
generate_vote_tx == {"Tx", "NonVoting", "HotSpare", "Failed"}

\* Queues operation op with the vote of tower t if it can be signed. Of the
\* other results only those in marking are remembered in the tower.
Queue(t, op, result, marking) ==
    /\ mishaps' = IF result \in {"Tx", "NonVoting"} THEN mishaps ELSE mishaps + 1
    /\ mishaps' <= MaxMishaps
    /\ vote_ops' = IF result = "Tx" THEN Append(vote_ops, op) ELSE vote_ops
    /\ tower' = IF result = "Tx" THEN [t EXCEPT !.last_vote_tx_blockhash = "Blockhash"]
                ELSE IF result \in marking
                     THEN [t EXCEPT !.last_vote_tx_blockhash = result]
                     ELSE t

\* The tower is saved with the vote. A vote that is not sent is not saved, and
\* a failure or a hot spare leaves the status of the vote before it.
push_vote(t) ==
    \E result \in generate_vote_tx : Queue(t, PushVote(t), result, {"NonVoting"})

handle_votable_bank(b) ==
    /\ Len(vote_ops) < MaxQueued
    /\ b \in Tips
    /\ Pending = {}
    /\ Alive
    /\ ~is_locked_out(tower, b)
    /\ LET t == record_bank_vote(tower, b)
       IN  /\ IF t.root # tower.root
              THEN check_and_handle_new_root(t.root)
              ELSE UNCHANGED <<root, blockstore_root, frozen, panicked>>
           /\ push_vote(t)
    /\ UNCHANGED <<ancestors, landed, handling, stored, sent, unsaved>>

\* The last vote is sent again when tip b of its fork has not seen it land. The
\* tower is not saved with it, although a vote that could not be signed when it
\* was pushed was not saved then.
maybe_refresh_last_vote(b) ==
    /\ Len(vote_ops) < MaxQueued
    /\ tower.last_vote_tx_blockhash \in {"Uninitialized", "Blockhash"}
    /\ b \in Tips
    /\ LastVotedSlot(tower) \in frozen
    /\ Extends(b, LastVotedSlot(tower))
    /\ last_voted_slot(landed[b].votes) \in 1..(LastVotedSlot(tower) - 1)
    /\ Pending = {}
    /\ Alive
    /\ \E result \in generate_vote_tx :
          Queue(tower, RefreshVote(tower), result, {"NonVoting", "HotSpare"})
    /\ UNCHANGED <<ancestors, landed, frozen, root, blockstore_root, handling, stored,
                   sent, unsaved, panicked>>

-----------------------------------------------------------------------------
(* The voting thread (core/src/voting_service.rs). *)

\* handle_vote takes an operation and first saves the tower that comes with it.
store ==
    /\ handling = NoVotes /\ vote_ops # <<>>
    /\ handling' = Head(vote_ops).tx
    /\ vote_ops' = Tail(vote_ops)
    /\ stored' = IF Head(vote_ops).saved_tower = <<>>
                 THEN stored
                 ELSE Head(vote_ops).saved_tower[1]
    /\ UNCHANGED <<ancestors, landed, frozen, root, blockstore_root, tower, sent,
                   unsaved, mishaps, panicked>>

\* handle_vote then sends the vote to the leaders and to gossip.
send_vote_transaction ==
    /\ handling # NoVotes
    /\ IF handling = stored.last_vote
       THEN sent' = sent \cup {handling} /\ UNCHANGED unsaved
       ELSE unsaved' = unsaved \cup {handling} /\ UNCHANGED sent
    /\ handling' = NoVotes
    /\ UNCHANGED <<ancestors, landed, frozen, root, blockstore_root, tower, vote_ops,
                   stored, mishaps, panicked>>

-----------------------------------------------------------------------------
(* Crash and restart (core/src/validator.rs, ledger/src/blockstore_processor.rs). *)

\* Mutant: the roots of the blockstore are left as the crash left them.
reconcile_blockstore_roots_with_external_source_Skipped(last, external) == last

\* The blockstore's roots are extended to the root of the restored tower. The
\* ancestors of that root are found in the blockstore, with the last root among
\* them (else the code panics).
reconcile_blockstore_roots_with_external_source(last, external) == Max({last, external})

ReconcilePanics(last, external) == last < external /\ last \notin ancestors[external]

\* The process dies and starts again. The ledger is replayed: its root is the
\* newest root that the crash has left in the blockstore, or a later block that
\* a supermajority of the vote accounts in one of its descendants has rooted. The
\* cluster roots one chain. Only then are the blockstore's roots reconciled with
\* the saved tower. The blocks above the root are replayed next, before the
\* replay thread votes.
restart(r) ==
    LET last == Min({r, blockstore_root})
    IN  /\ mishaps < MaxMishaps
        /\ r \in DOMAIN landed
        /\ \/ Extends(blockstore_root, r)
           \/ Extends(r, blockstore_root) /\ \E b \in DOMAIN landed : r \in ancestors[b]
        /\ mishaps' = mishaps + 1
        /\ root' = r
        /\ blockstore_root' =
              Max({r, reconcile_blockstore_roots_with_external_source(last, stored.root)})
        /\ frozen' = {r}
        /\ tower' = adopt_on_chain_tower_if_behind(process(r), landed[r])
        /\ panicked' = \/ stored # NoTower /\ RestorePanics(InMemory(stored, 0), r)
                       \/ ReconcilePanics(last, stored.root)
                       \/ AdoptPanics(process(r), landed[r], {r})
        /\ vote_ops' = <<>>
        /\ handling' = NoVotes
        /\ UNCHANGED <<ancestors, landed, stored, sent, unsaved>>

-----------------------------------------------------------------------------
Init ==
    /\ ancestors \in Forks
    /\ landed = [b \in {0} |-> NoVotes]
    /\ frozen = {0}
    /\ root = 0
    /\ blockstore_root = 0
    /\ tower = InMemory(NoTower, 0)
    /\ vote_ops = <<>>
    /\ handling = NoVotes
    /\ stored = NoTower
    /\ sent = {}
    /\ unsaved = {}
    /\ mishaps = 0
    /\ panicked = FALSE

Next ==
    \/ \E b \in Slot \ {0} : replay(b)
    \/ \E b \in Slot : handle_votable_bank(b) \/ maybe_refresh_last_vote(b)
    \/ store
    \/ send_vote_transaction
    \/ \E r \in Slot : restart(r)

Spec == Init /\ [][Next]_vars

-----------------------------------------------------------------------------
(* Properties. *)

\* Every variable has its type, and a lockout never has more confirmations
\* than a tower holds votes.
TypeOK ==
    /\ ancestors \in Forks
    /\ 0 \in DOMAIN landed /\ DOMAIN landed \subseteq Slot
    /\ frozen \subseteq DOMAIN landed /\ root \in frozen
    /\ blockstore_root \in DOMAIN landed
    /\ tower.last_vote_tx_blockhash \in Statuses
    /\ \A s \in {tower, tower.last_vote, stored, stored.last_vote, handling}
               \cup sent \cup unsaved \cup {landed[b] : b \in DOMAIN landed} :
          /\ s.root \in Slot
          /\ Len(s.votes) <= MAX_LOCKOUT_HISTORY
          /\ \A i \in DOMAIN s.votes :
                s.votes[i].slot \in Slot /\ s.votes[i].conf \in 1..MAX_LOCKOUT_HISTORY
    /\ Len(vote_ops) <= MaxQueued
    /\ mishaps \in 0..MaxMishaps
    /\ panicked \in BOOLEAN

\* Lockouts are kept, whatever crashes come in between: a vote that is sent, or
\* about to be, descends from every slot of an earlier one whose tower was saved,
\* or comes after that slot's lockout has ended.
LockoutRespected ==
    \A old \in sent : \A new \in sent \cup {handling} :
        LET s == last_voted_slot(new.votes)
        IN  s > last_voted_slot(old.votes) =>
               \A i \in DOMAIN old.votes :
                  \/ Extends(s, old.votes[i].slot)
                  \/ ~is_locked_out_at_slot(old.votes[i], s)

\* The vote program accepts what the tower produces: a block whose SlotHashes
\* hold the last slot of a vote that was sent, and whose chain holds an older
\* vote of ours or none, takes it, whatever was filtered from the votes before.
VotesAccepted ==
    \A b \in Slot \ {0} : \A v \in sent \cup unsaved :
        /\ parent_slot(b) \in DOMAIN landed
        /\ last_voted_slot(v.votes) > last_voted_slot(landed[parent_slot(b)].votes)
        /\ last_voted_slot(v.votes) \in SlotHashes(b)
        => process_tower_sync(landed[parent_slot(b)], v, SlotHashes(b))

\* No assertion, expect or panic about the tower is ever reached: not while a
\* restored tower is adjusted, a bank's votes are adopted or a root is set, and
\* not in the checks the replay thread makes of every bank and every tip. One
\* exception: with bank_forks behind the tower's root there are banks that do not
\* descend from it, and is_locked_out does not expect them.
NoPanic ==
    /\ ~panicked
    /\ root = tower.root => Alive
    /\ \A b \in Tips : ~SwitchPanics(tower, b)

\* After a crash that lost roots of the blockstore as after any other step, the
\* blockstore has the root of the tower, and of every tower that was saved, sent
\* or landed, as a root, unless a vote went out with no tower saved; bank_forks
\* is at the tower's root or, when the ledger is replayed again past slots the
\* tower has rooted, behind it.
RootsAgree ==
    /\ unsaved = {} =>
          \A s \in {tower, stored, stored.last_vote, handling} \cup sent
                    \cup {landed[b] : b \in DOMAIN landed} : Extends(blockstore_root, s.root)
    /\ Extends(tower.root, root)
=============================================================================
