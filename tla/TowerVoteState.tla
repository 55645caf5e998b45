--------------------------- MODULE TowerVoteState ---------------------------
(***************************************************************************)
(* The two pieces of code that must agree on what a vote is:               *)
(*                                                                         *)
(*   - TowerVoteState (core/src/consensus/tower_vote_state.rs), with which *)
(*     a validator applies its own votes to its local tower;               *)
(*   - the vote program (programs/vote/src/vote_state/mod.rs), which       *)
(*     decides whether a block accepts the tower the validator sends.      *)
(*                                                                         *)
(* A vote state is a record with the fields                                *)
(*   votes: a sequence of lockouts [slot, conf], oldest first, and         *)
(*   root:  the slot of the last rooted vote.                              *)
(* Slot 0 is the genesis block, which is never voted for; it stands for    *)
(* the absent slot (None) wherever the code has an Option<Slot>, of which  *)
(* None is the smallest.                                                   *)
(***************************************************************************)
EXTENDS Naturals, Sequences, FiniteSets, FiniteSetsExt

CONSTANTS
    MAX_LOCKOUT_HISTORY,     \* votes a tower holds before the oldest is rooted
    MAX_ENTRIES              \* slots the SlotHashes of a block hold

ASSUME HistoryAssumption ==
    MAX_LOCKOUT_HISTORY \in Nat \ {0, 1} /\ MAX_ENTRIES \in Nat \ {0}

(***************************************************************************)
(* Lockout of the vote interface crate: a vote with n confirmations is     *)
(* locked for 2^n slots.                                                   *)
(***************************************************************************)
Lockout(s, n) == [slot |-> s, conf |-> n]

last_locked_out_slot(v) == v.slot + 2 ^ v.conf

is_locked_out_at_slot(v, s) == last_locked_out_slot(v) >= s

\* An empty vote state: no votes, and no root but the genesis block.
NoVotes == [votes |-> <<>>, root |-> 0]

Slots(votes) == {votes[i].slot : i \in DOMAIN votes}

last_voted_slot(votes) == IF votes = <<>> THEN 0 ELSE votes[Len(votes)].slot

-----------------------------------------------------------------------------
(* The local tower. *)

\* Mutant: a vote expires at the last slot of its lockout.
pop_expired_votes_EndsAtLockout(votes, s) ==
    LET locked == {i \in DOMAIN votes : last_locked_out_slot(votes[i]) > s}
    IN  SubSeq(votes, 1, CHOOSE k \in locked \cup {0} : \A i \in locked : i <= k)

\* Votes are popped from the newest on, up to the first that is still locked
\* out at slot s: an expired vote below a locked one stays.
pop_expired_votes(votes, s) ==
    LET locked == {i \in DOMAIN votes : is_locked_out_at_slot(votes[i], s)}
    IN  SubSeq(votes, 1, CHOOSE k \in locked \cup {0} : \A i \in locked : i <= k)

\* A vote is confirmed once more when the tower is deeper than ever above it.
double_lockouts(votes) ==
    [i \in DOMAIN votes |->
        IF Len(votes) > (i - 1) + votes[i].conf
        THEN [votes[i] EXCEPT !.conf = @ + 1]
        ELSE votes[i]]

process_next_vote_slot(state, s) ==
    LET kept == pop_expired_votes(state.votes, s)
        full == Len(kept) = MAX_LOCKOUT_HISTORY
        rest == IF full THEN Tail(kept) ELSE kept
    IN  IF s <= last_voted_slot(state.votes)
        THEN state
        ELSE [state EXCEPT !.votes = double_lockouts(Append(rest, Lockout(s, 1))),
                           !.root = IF full THEN kept[1].slot ELSE @]

-----------------------------------------------------------------------------
(* The vote program. *)

\* What a TowerSync must look like whatever the vote account holds.
WellFormed(new) ==
    /\ Len(new.votes) \in 1..MAX_LOCKOUT_HISTORY
    /\ \A i \in DOMAIN new.votes :
          /\ new.votes[i].conf \in 1..MAX_LOCKOUT_HISTORY
          /\ new.votes[i].slot > new.root \/ new.root = 0
    /\ \A i \in 1..(Len(new.votes) - 1) :
          /\ new.votes[i].slot < new.votes[i + 1].slot
          /\ new.votes[i].conf > new.votes[i + 1].conf
          /\ new.votes[i + 1].slot <= last_locked_out_slot(new.votes[i])

\* Every vote of the account above the new root is in the new state with no
\* fewer confirmations, or had expired when the next vote of it was cast.
NoRollback(state, new) ==
    /\ new.root >= state.root
    /\ \A i \in DOMAIN state.votes :
          LET cur  == state.votes[i]
              next == {j \in DOMAIN new.votes : new.votes[j].slot >= cur.slot}
              n    == new.votes[CHOOSE j \in next : \A k \in next : j <= k]
          IN  (cur.slot > new.root /\ next # {}) =>
                 IF n.slot = cur.slot
                 THEN n.conf >= cur.conf
                 ELSE last_locked_out_slot(cur) < n.slot

process_new_vote_state(state, new) == WellFormed(new) /\ NoRollback(state, new)

\* The root a TowerSync is taken to have: one from before the SlotHashes cannot
\* be verified and gives way to the latest vote of the account that is not
\* newer, or to the account's own root.
VerifiableRoot(state, new, slot_hashes) ==
    LET known == {s \in Slots(state.votes) : s <= new.root}
    IN  IF new.root >= Min(slot_hashes) THEN new.root
        ELSE IF known = {} THEN state.root ELSE Max(known)

\* Votes from before the SlotHashes are dropped unless the account has them.
Filtered(state, new, slot_hashes) ==
    [votes |-> SelectSeq(new.votes, LAMBDA v : \/ v.slot >= Min(slot_hashes)
                                               \/ v.slot \in Slots(state.votes)),
     root  |-> VerifiableRoot(state, new, slot_hashes)]

\* The last vote is new to the account and not older than the SlotHashes; the
\* root and the votes that are not older either must be in them.
check_and_filter_proposed_vote_state(state, new, slot_hashes) ==
    /\ new.votes # <<>> /\ slot_hashes # {}
    /\ last_voted_slot(new.votes) > last_voted_slot(state.votes)
    /\ last_voted_slot(new.votes) >= Min(slot_hashes)
    /\ \A s \in Slots(new.votes) \cup {VerifiableRoot(state, new, slot_hashes)} :
          s >= Min(slot_hashes) => s \in slot_hashes

\* Whether a block with these SlotHashes accepts the vote "new". The account
\* then holds what was left of it.
process_tower_sync(state, new, slot_hashes) ==
    /\ check_and_filter_proposed_vote_state(state, new, slot_hashes)
    /\ process_new_vote_state(state, Filtered(state, new, slot_hashes))
=============================================================================
