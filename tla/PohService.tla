------------------------------ MODULE PohService ------------------------------
(***************************************************************************)
(* The PoH thread and the replay loop that hands it banks.                 *)
(*                                                                         *)
(*   poh      entry/src/poh.rs: the hash chain, as the numbers it counts   *)
(*   rec      poh/src/poh_recorder.rs: tick height, tick cache and the     *)
(*            working bank                                                 *)
(*   the PoH thread: poh/src/poh_service.rs, tick_producer                 *)
(*   the replay loop: core/src/replay_stage.rs, where it sends Reset and   *)
(*            SetBank through poh/src/poh_controller.rs                    *)
(*                                                                         *)
(* The record channel is the atomic queue that RecordChannels is shown to  *)
(* implement.  The wall clock is left open: unless it speeds through the   *)
(* slot, the PoH thread may at any time find itself early and wait.  So is *)
(* the leader schedule.  A bank is named by its slot.                      *)
(***************************************************************************)
EXTENDS Integers, Sequences, Functions

CONSTANTS
    hashes_per_tick, ticks_per_slot, hashes_per_batch,
    CAPACITY,      \* batches the record channel holds
    Records,       \* records that may be sent: [batches, harmonic]
    MaxSlot,       \* bound: the last slot of the run
    ExitFrom       \* bound: the slot from which on the validator may be told to exit

ASSUME PohAssumption ==
    /\ hashes_per_tick \in Nat \ {0, 1}       \* asserted by Poh::new_with_slot_info
    /\ ticks_per_slot \in Nat \ {0} /\ hashes_per_batch \in Nat \ {0}
    /\ CAPACITY \in Nat \ {0} /\ Records \subseteq [batches : 1 .. CAPACITY, harmonic : BOOLEAN]
    /\ MaxSlot \in Nat \ {0} /\ ExitFrom \in Nat

\* The batches between two looks at the channel are few: 64 against the 62500
\* hashes of a tick.
ASSUME BatchAssumption ==
    /\ hashes_per_batch <= hashes_per_tick - 2
    /\ hashes_per_batch < ticks_per_slot + CAPACITY

Slots  == 0 .. MaxSlot     \* slot 0 is the bank the validator starts from
NoBank == -1
Foreign == -2              \* stands for the parent of another leader's bank

VARIABLES
    poh,            \* [num_hashes, remaining, tick_number]
    rec,            \* PohRecorder, see NewRecorder
    open, queue,    \* the channel: the bank it accepts, and the records [bank, batches, harmonic]
    ppc,            \* where the PoH thread is
    next_record, left,        \* the record it holds, and the batches not yet mixed in
    block_received, speedrun, \* speedrun: target_ns_per_tick is shortened_target_ns_per_tick
    poh_exit, should_exit,
    message, taken, \* the service message pending, and whether the PoH thread holds it
    rpc, tpu_has_bank, last_reset,  \* the replay loop
    parent, frozen, \* bank_forks: the parent of every bank, the frozen banks
    ledger          \* history: what was broadcast for a bank

channel == <<open, queue>>
pacing  == <<block_received, speedrun>>
service == <<message, taken>>
replay  == <<rpc, tpu_has_bank, last_reset, parent, frozen>>
vars == <<poh, rec, channel, ppc, next_record, left, pacing, poh_exit, should_exit,
          service, replay, ledger>>

NoRecord == [bank |-> NoBank, batches |-> 0, harmonic |-> FALSE]
NoMessage == [type |-> "none", slot |-> NoBank]

-----------------------------------------------------------------------------
(* entry/src/poh.rs                                                        *)

NewPoh == [num_hashes |-> 0, remaining |-> hashes_per_tick, tick_number |-> 0]

hash(p, n) ==
    LET k == IF p.remaining - 1 < n THEN p.remaining - 1 ELSE n
    IN  [p EXCEPT !.num_hashes = @ + k, !.remaining = @ - k]

\* n >= 1 mixins, all within the current tick
record_batches(p, n) == [p EXCEPT !.num_hashes = 0, !.remaining = @ - n]

\* The tick number only matters modulo ticks_per_slot, a power of two.
poh_tick(p) ==
    [num_hashes |-> 0, remaining |-> hashes_per_tick,
     tick_number |-> (p.tick_number + 1) % ticks_per_slot]

remaining_hashes_in_slot(p) ==
    (ticks_per_slot - (p.tick_number + 1)) * hashes_per_tick + p.remaining

SaturatingSub(a, b) == IF a > b THEN a - b ELSE 0

\* RecordReceiver::should_shutdown
should_shutdown(r) == SaturatingSub(r, ticks_per_slot) <= CAPACITY

-----------------------------------------------------------------------------
(* poh/src/poh_recorder.rs                                                 *)

NewRecorder ==
    [tick_height |-> ticks_per_slot,   \* (start_slot + 1) * ticks_per_slot
     tick_cache  |-> <<>>,             \* [num_hashes, height] of ticks not yet broadcast
     working     |-> NoBank,
     start       |-> 0,                \* start_bank
     leading     |-> TRUE]             \* leader_first_tick_height is Some

\* bank.tick_height() of a new bank is its parent's; a bank spans the skipped
\* slots after its parent too.
min_tick_height(s) == (parent[s] + 1) * ticks_per_slot
max_tick_height(s) == (s + 1) * ticks_per_slot

\* Heights and hashes of the ticks broadcast, the hashes broadcast since the
\* last of them, and whether a block of the block engine is among the entries.
NewLedger == [ticks |-> <<>>, hashes |-> <<>>, partial |-> 0, harmonic |-> FALSE]

\* Ticks are broadcast and registered with the bank.
Broadcast(l, ticks) ==
    [l EXCEPT !.ticks   = @ \o [i \in DOMAIN ticks |-> ticks[i].height],
              !.hashes  = @ \o [i \in DOMAIN ticks |->
                                   ticks[i].num_hashes + (IF i = 1 THEN l.partial ELSE 0)],
              !.partial = IF ticks = <<>> THEN @ ELSE 0]

\* How many cached ticks belong to the working bank: take_while(..).count().
EntryCount(r) ==
    LET InBank(i) == r.tick_cache[i].height <= max_tick_height(r.working)
    IN  CHOOSE n \in 0 .. Len(r.tick_cache) :
            /\ \A i \in 1 .. n : InBank(i)
            /\ n < Len(r.tick_cache) => ~InBank(n + 1)

FlushRefused(r, tick) ==
    \/ r.working = NoBank
    \/ r.tick_height < min_tick_height(r.working)
    \/ tick /\ r.tick_height = min_tick_height(r.working)

\* flush_cache: the recorder afterwards.  A bank that has its last tick is
\* cleared; whether the schedule then has another leader slot is left open.
flush_cache(r, tick, leads) ==
    IF FlushRefused(r, tick) THEN r
    ELSE LET flushed == [r EXCEPT !.tick_cache = SubSeq(@, EntryCount(r) + 1, Len(@))]
         IN  IF r.tick_height < max_tick_height(r.working) THEN flushed
             ELSE [flushed EXCEPT !.working = NoBank, !.start = r.working, !.leading = leads]

\* ... and the ledgers l with what it broadcast.
Flushed(r, tick, l) ==
    IF FlushRefused(r, tick) THEN l
    ELSE [l EXCEPT ![r.working] = Broadcast(@, SubSeq(r.tick_cache, 1, EntryCount(r)))]

\* PohRecorder::tick up to its flush_cache(true).
Cached(r, p) ==
    [r EXCEPT !.tick_height = @ + 1,
              !.tick_cache = IF r.leading
                             THEN Append(@, [num_hashes |-> p.num_hashes + 1,
                                             height     |-> r.tick_height + 1])
                             ELSE @]

\* PohRecorder::tick, from recorder r, chain p and ledgers l.
Tick(r, p, l) ==
    /\ poh' = poh_tick(p)
    /\ IF r.leading
       THEN /\ \E leads \in BOOLEAN : rec' = flush_cache(Cached(r, p), TRUE, leads)
            /\ ledger' = Flushed(Cached(r, p), TRUE, l)
       ELSE rec' = Cached(r, p) /\ ledger' = l

\* The all-or-nothing test of record().
total_remaining_hashes ==
    SaturatingSub(poh.remaining, 1)
        + SaturatingSub(max_tick_height(rec.working), rec.tick_height + 1)
              * (hashes_per_tick - 1)

Mixed(l, k) ==
    [l EXCEPT ![next_record.bank].partial = @ + poh.num_hashes + k,
              ![next_record.bank].harmonic = @ \/ next_record.harmonic]

-----------------------------------------------------------------------------
(* The record channel, as RecordQueue has it.                              *)

Queued == FoldFunction(LAMBDA r, n : r.batches + n, 0, queue)

\* A scheduler's worker sends a record for the bank it executed it in.
Send(r) ==
    /\ open # NoBank /\ Queued + r.batches <= CAPACITY
    /\ queue' = Append(queue, [bank |-> open, batches |-> r.batches, harmonic |-> r.harmonic])
    /\ UNCHANGED <<poh, rec, open, ppc, next_record, left, pacing, poh_exit, should_exit,
                   service, replay, ledger>>

\* try_recv: the PoH thread goes on at "some" with a record, and at "none" without.
TryRecv(some, none) ==
    IF queue # <<>>
    THEN next_record' = Head(queue) /\ queue' = Tail(queue) /\ ppc' = some
    ELSE next_record' = NoRecord /\ ppc' = none /\ UNCHANGED queue

ShutdownIf(b) == open' = IF b THEN NoBank ELSE open

is_safe_to_restart == queue = <<>>

-----------------------------------------------------------------------------
(* poh/src/poh_service.rs: tick_producer                                   *)

\* Mutant: the channel is not shut down for a message.
CheckForServiceMessage_StaysOpen ==
    /\ ppc = "top"
    /\ should_exit' = (should_exit \/ poh_exit)
    /\ taken' = (message # NoMessage)
    /\ ShutdownIf(should_exit')
    /\ ppc' = "work"
    /\ UNCHANGED <<poh, rec, queue, next_record, left, pacing, poh_exit, message, replay, ledger>>

\* The head of the outer loop: the exit flag, then a service message.
CheckForServiceMessage ==
    /\ ppc = "top"
    /\ should_exit' = (should_exit \/ poh_exit)
    /\ taken' = (message # NoMessage)
    /\ ShutdownIf(should_exit' \/ taken')
    /\ ppc' = "work"
    /\ UNCHANGED <<poh, rec, queue, next_record, left, pacing, poh_exit, message, replay, ledger>>

\* Mutant: asks for a tick one hash too late, after the last hash hash() makes.
HashBatch_NeverTicks ==
    LET p == hash(poh, hashes_per_batch)
    IN  /\ ppc = "work" /\ next_record = NoRecord
        /\ poh' = p
        /\ ShutdownIf(should_shutdown(
               SaturatingSub(remaining_hashes_in_slot(p), hashes_per_batch)))
        /\ IF p.remaining = 0
           THEN ppc' = "tick" /\ UNCHANGED <<next_record, queue>>
           ELSE TryRecv("pace", "work") \/ (~speedrun /\ TryRecv("pace", "wait"))
        /\ UNCHANGED <<rec, left, pacing, poh_exit, should_exit, service, replay, ledger>>

\* record_or_hash without a record in hand: one round of its hashing loop.
\* While speeding through the slot it never stops to wait for the clock.
HashBatch ==
    LET p == hash(poh, hashes_per_batch)
    IN  /\ ppc = "work" /\ next_record = NoRecord
        /\ poh' = p
        /\ ShutdownIf(should_shutdown(
               SaturatingSub(remaining_hashes_in_slot(p), hashes_per_batch)))
        /\ IF p.remaining = 1
           THEN ppc' = "tick" /\ UNCHANGED <<next_record, queue>>
           ELSE TryRecv("pace", "work") \/ (~speedrun /\ TryRecv("pace", "wait"))
        /\ UNCHANGED <<rec, left, pacing, poh_exit, should_exit, service, replay, ledger>>

\* The busy wait for the clock, ended by a record or by the time.
BusyWait ==
    /\ ppc = "wait"
    /\ \/ queue # <<>> /\ TryRecv("pace", "pace")
       \/ ppc' = "pace" /\ UNCHANGED <<queue, next_record>>
    /\ UNCHANGED <<poh, rec, open, left, pacing, poh_exit, should_exit, service, replay, ledger>>

\* Mutant: no test that all of the record fits.
RecordFits_AnyLength == rec.working # NoBank

RecordFits ==
    rec.working # NoBank /\ next_record.batches <= total_remaining_hashes

\* record_or_hash with a record in hand: PohRecorder::record up to its loop.
\* The recorder's lock is held from here until no record is left.
Record ==
    /\ (ppc = "work" /\ next_record # NoRecord) \/ ppc = "record"
    /\ block_received' = (block_received \/ next_record.harmonic)
    /\ left' = next_record.batches
    /\ ppc' = IF RecordFits THEN "mixing" ELSE "panicked"
    /\ UNCHANGED <<poh, rec, channel, next_record, speedrun, poh_exit, should_exit,
                   service, replay, ledger>>

\* One round of that loop: the batches that fit before the next tick are mixed
\* in.  If some are left it ticks.  If not, the next record is tried.
Mix ==
    LET r == flush_cache(rec, FALSE, FALSE)
        k == IF poh.remaining - 1 < left THEN poh.remaining - 1 ELSE left
        p == IF k = 0 THEN poh ELSE record_batches(poh, k)
        l == Mixed(Flushed(rec, FALSE, ledger), k)
    IN  /\ ppc = "mixing"
        /\ left' = left - k
        /\ IF FlushRefused(rec, FALSE) \/ r.working # next_record.bank
           THEN ppc' = "panicked" /\ UNCHANGED <<poh, rec, channel, next_record, ledger>>
           ELSE \/ /\ k = left
                   /\ poh' = p /\ rec' = r /\ ledger' = l
                   /\ ShutdownIf(should_shutdown(remaining_hashes_in_slot(p)))
                   /\ TryRecv("record", "pace")
                \/ /\ k # left
                   /\ Tick(r, p, IF k = 0 THEN Flushed(rec, FALSE, ledger) ELSE l)
                   /\ UNCHANGED <<channel, ppc, next_record>>
        /\ UNCHANGED <<pacing, poh_exit, should_exit, service, replay>>

\* The end of a round: the pace for the bank, a tick if record_or_hash asked
\* for one, and the test whether to leave the inner loop.
Pace == speedrun' = (/\ rec.working # NoBank
                     /\ rec.tick_height < max_tick_height(rec.working)
                     /\ block_received)

Round ==
    /\ \/ ppc = "pace" /\ UNCHANGED <<poh, rec, ledger>>
       \/ ppc = "tick" /\ rec.tick_height < max_tick_height(MaxSlot) /\ Tick(rec, poh, ledger)
    /\ Pace
    /\ ppc' = IF next_record = NoRecord /\ (~taken \/ is_safe_to_restart)
              THEN "handle" ELSE "work"
    /\ UNCHANGED <<channel, next_record, left, block_received, poh_exit, should_exit,
                   service, replay>>

\* After the inner loop, without a service message.
NoServiceMessage ==
    /\ ppc = "handle" /\ ~taken
    /\ ppc' = IF should_exit /\ is_safe_to_restart THEN "exited" ELSE "top"
    /\ UNCHANGED <<poh, rec, channel, next_record, left, pacing, poh_exit, should_exit,
                   service, replay, ledger>>

\* Mutants: the tick cache, or the chain, is left as it was.
HandleReset_KeepsCache ==
    /\ ppc = "handle" /\ taken /\ ~should_exit /\ message.type = "Reset"
    /\ poh' = NewPoh
    /\ \E leads \in BOOLEAN :
          rec' = [tick_height |-> max_tick_height(message.slot), tick_cache |-> rec.tick_cache,
                  working |-> NoBank, start |-> message.slot, leading |-> leads]
    /\ ppc' = "release"
    /\ UNCHANGED <<channel, next_record, left, pacing, poh_exit, should_exit, service,
                   replay, ledger>>

\* Mutant: the hash chain keeps its tick number over a reset.
HandleReset_KeepsChain ==
    /\ ppc = "handle" /\ taken /\ ~should_exit /\ message.type = "Reset"
    /\ \E leads \in BOOLEAN :
          rec' = [tick_height |-> max_tick_height(message.slot), tick_cache |-> <<>>,
                  working |-> NoBank, start |-> message.slot, leading |-> leads]
    /\ ppc' = "release"
    /\ UNCHANGED <<poh, channel, next_record, left, pacing, poh_exit, should_exit, service,
                   replay, ledger>>

\* PohRecorder::reset; whether the schedule has a leader slot is left open.
HandleReset ==
    /\ ppc = "handle" /\ taken /\ ~should_exit /\ message.type = "Reset"
    /\ poh' = NewPoh
    /\ \E leads \in BOOLEAN :
          rec' = [tick_height |-> max_tick_height(message.slot), tick_cache |-> <<>>,
                  working |-> NoBank, start |-> message.slot, leading |-> leads]
    /\ ppc' = "release"
    /\ UNCHANGED <<channel, next_record, left, pacing, poh_exit, should_exit, service,
                   replay, ledger>>

\* Mutant: block_received is left over from the slot before.
HandleSetBank_KeepsReceived ==
    LET bank == message.slot
        set  == [rec EXCEPT !.working = bank]
    IN  /\ ppc = "handle" /\ taken /\ ~should_exit /\ message.type = "SetBank"
        /\ rec.working = NoBank
        /\ \E leads \in BOOLEAN : rec' = flush_cache(set, FALSE, leads)
        /\ ledger' = Flushed(set, FALSE, ledger)
        /\ open' = IF rec.tick_height < max_tick_height(bank) - 1 THEN bank ELSE open
        /\ ppc' = "release"
        /\ UNCHANGED <<poh, queue, next_record, left, pacing, poh_exit, should_exit,
                       service, replay>>

\* PohRecorder::set_bank, and the channel's restart unless the bank is too late.
HandleSetBank ==
    LET bank == message.slot
        set  == [rec EXCEPT !.working = bank]
    IN  /\ ppc = "handle" /\ taken /\ ~should_exit /\ message.type = "SetBank"
        /\ IF rec.working # NoBank
           THEN ppc' = "panicked" /\ UNCHANGED <<rec, ledger, open, block_received>>
           ELSE /\ \E leads \in BOOLEAN : rec' = flush_cache(set, FALSE, leads)
                /\ ledger' = Flushed(set, FALSE, ledger)
                /\ open' = IF rec.tick_height < max_tick_height(bank) - 1 THEN bank ELSE open
                /\ block_received' = FALSE
                /\ ppc' = "release"
        /\ UNCHANGED <<poh, queue, next_record, left, speedrun, poh_exit, should_exit,
                       service, replay>>

\* PohServiceMessageGuard's drop: the message counts as pending until now.
\* When exiting, the message has not been taken out of its guard.
DropGuard ==
    /\ \/ ppc = "release" /\ message' = NoMessage /\ taken' = FALSE /\ ppc' = "top"
       \/ /\ ppc = "handle" /\ taken /\ should_exit
          /\ ppc' = "panicked" /\ UNCHANGED service
    /\ UNCHANGED <<poh, rec, channel, next_record, left, pacing, poh_exit, should_exit,
                   replay, ledger>>

-----------------------------------------------------------------------------
(* core/src/replay_stage.rs: one round of the replay loop                  *)

PohVars == <<poh, rec, channel, ppc, next_record, left, pacing, should_exit, taken, ledger>>

\* tpu_has_bank: two loads, the second only if the first finds no bank.  It is
\* a local variable of the round, FALSE here between two rounds.
LoadLeaderState ==
    /\ rpc = "top"
    /\ tpu_has_bank' = (rec.working # NoBank)
    /\ rpc' = IF tpu_has_bank' THEN "replay" ELSE "pending"
    /\ UNCHANGED <<PohVars, poh_exit, message, last_reset, parent, frozen>>

LoadPending ==
    /\ rpc = "pending"
    /\ tpu_has_bank' = (message # NoMessage)
    /\ rpc' = "replay"
    /\ UNCHANGED <<PohVars, poh_exit, message, last_reset, parent, frozen>>

is_complete(s) ==
    parent[s] \in Slots /\ min_tick_height(s) + Len(ledger[s].ticks) = max_tick_height(s)

\* Banks with all their ticks are frozen: the leader's own, and perhaps one
\* that another leader made.
ReplayActiveBanks ==
    /\ rpc = "replay"
    /\ \E other \in {{}} \cup {{s} : s \in {t \in Slots : parent[t] = NoBank}} :
          /\ parent' = [s \in Slots |-> IF s \in other THEN Foreign ELSE parent[s]]
          /\ frozen' = frozen \cup {s \in Slots : is_complete(s)} \cup other
    /\ rpc' = "reset"
    /\ UNCHANGED <<PohVars, poh_exit, message, tpu_has_bank, last_reset>>

\* Fork choice selects a frozen bank, perhaps a new one to reset PoH to.
MaybeReset ==
    /\ rpc = "reset"
    /\ \/ UNCHANGED <<message, last_reset>>
       \/ \E bank \in frozen \ {last_reset} :
             /\ message = NoMessage
             /\ message' = [type |-> "Reset", slot |-> bank]
             /\ last_reset' = bank
    /\ rpc' = "start"
    /\ UNCHANGED <<PohVars, poh_exit, tpu_has_bank, parent, frozen>>

\* The slot PoH is ticking through.
current_poh_slot == rec.tick_height \div ticks_per_slot

\* The loop's test for a pending message and the call of maybe_start_leader, when
\* it starts a bank or fails.  reached_leader_slot takes the recorder's lock.
maybe_start_leader ==
    /\ rpc = "start"
    /\ ~tpu_has_bank /\ message = NoMessage
    /\ rec.leading /\ ppc \notin {"record", "mixing"}
    /\ current_poh_slot \in Slots /\ parent[current_poh_slot] = NoBank
    /\ IF rec.start \notin frozen
       THEN rpc' = "panicked" /\ UNCHANGED <<parent, message>>
       ELSE /\ parent' = [parent EXCEPT ![current_poh_slot] = rec.start]
            /\ message' = [type |-> "SetBank", slot |-> current_poh_slot]
            /\ rpc' = "top"
    /\ UNCHANGED <<PohVars, poh_exit, tpu_has_bank, last_reset, frozen>>

\* There is a bank, a message or no leader slot, or it has not been reached, or
\* another of maybe_start_leader's conditions fails.
DoNotStart ==
    /\ rpc = "start"
    /\ rpc' = "top" /\ tpu_has_bank' = FALSE
    /\ UNCHANGED <<PohVars, poh_exit, message, last_reset, parent, frozen>>

Exit ==
    /\ current_poh_slot >= ExitFrom /\ ~poh_exit
    /\ poh_exit' = TRUE
    /\ UNCHANGED <<PohVars, message, replay>>

-----------------------------------------------------------------------------
Init ==
    /\ poh = NewPoh
    /\ \E leads \in BOOLEAN : rec = [NewRecorder EXCEPT !.leading = leads]
    /\ open = NoBank /\ queue = <<>>
    /\ ppc = "top" /\ next_record = NoRecord /\ left = 0
    /\ block_received = FALSE /\ speedrun = FALSE
    /\ poh_exit = FALSE /\ should_exit = FALSE
    /\ message = NoMessage /\ taken = FALSE
    /\ rpc = "top" /\ tpu_has_bank = FALSE /\ last_reset = 0
    /\ parent = [s \in Slots |-> IF s = 0 THEN Foreign ELSE NoBank]
    /\ frozen = {0}
    /\ ledger = [s \in Slots |-> NewLedger]

PohThread ==
    \/ CheckForServiceMessage \/ HashBatch \/ BusyWait \/ Record \/ Mix \/ Round
    \/ NoServiceMessage \/ HandleReset \/ HandleSetBank \/ DropGuard

ReplayLoop ==
    \/ LoadLeaderState \/ LoadPending \/ ReplayActiveBanks \/ MaybeReset
    \/ maybe_start_leader \/ DoNotStart

Next ==
    \/ PohThread
    \/ ReplayLoop
    \/ \E r \in Records : Send(r)
    \/ Exit

Spec == Init /\ [][Next]_vars

\* The PoH thread runs.  Nothing is asked of the replay loop and the senders.
FairSpec == Spec /\ WF_vars(PohThread)

-----------------------------------------------------------------------------
Record_Type == [bank : Slots \cup {NoBank}, batches : 0 .. CAPACITY, harmonic : BOOLEAN]

\* Every variable has its type; the chain always has the hash of a tick left.
TypeOK ==
    /\ poh \in [num_hashes : 0 .. hashes_per_tick - 1, remaining : 1 .. hashes_per_tick,
                tick_number : 0 .. ticks_per_slot - 1]
    /\ rec.tick_height \in 0 .. max_tick_height(MaxSlot)
    /\ rec.working \in Slots \cup {NoBank} /\ rec.start \in Slots /\ rec.leading \in BOOLEAN
    /\ open \in Slots \cup {NoBank} /\ queue \in Seq(Record_Type)
    /\ ppc \in {"top", "work", "wait", "record", "mixing", "pace", "tick", "handle",
                "release", "exited", "panicked"}
    /\ next_record \in Record_Type /\ left \in 0 .. CAPACITY
    /\ <<block_received, speedrun, poh_exit, should_exit, taken, tpu_has_bank>> \in
           [1 .. 6 -> BOOLEAN]
    /\ message \in [type : {"none", "Reset", "SetBank"}, slot : Slots \cup {NoBank}]
    /\ rpc \in {"top", "pending", "replay", "reset", "start", "panicked"}
    /\ last_reset \in Slots /\ frozen \subseteq Slots
    /\ parent \in [Slots -> Slots \cup {NoBank, Foreign}]

\* What is broadcast for a bank is a valid block as far as it goes: the ticks
\* follow its parent's without a gap, none is past its last, and each closes
\* exactly hashes_per_tick hashes, whenever the bank was set, reset or recorded to.
LedgerValid ==
    \A s \in Slots :
        LET l == ledger[s]
        IN  parent[s] \in Slots =>
              /\ Len(l.ticks) <= max_tick_height(s) - min_tick_height(s)
              /\ \A i \in DOMAIN l.ticks : /\ l.ticks[i] = min_tick_height(s) + i
                                           /\ l.hashes[i] = hashes_per_tick

\* remaining_hashes_in_slot, which decides when the channel closes, counts from
\* the chain's tick number; the recorder counts its own height.  They agree.
PohInStep == rec.tick_height % ticks_per_slot = poh.tick_number

\* Bank and channel change hands together: records are accepted, and held by
\* the PoH thread, for the working bank only, and no bank is working when the
\* PoH thread sets one (set_bank asserts it).
BankHandover ==
    /\ open # NoBank => open = rec.working
    /\ \A r \in Range(queue) \cup {next_record} : r # NoRecord => r.bank = rec.working
    /\ ppc = "handle" /\ taken /\ message.type = "SetBank" => rec.working = NoBank

\* Once record() has begun to mix in a record, all that is left of it fits in
\* the bank: it never fails between two batches of a block.
RecordWhole ==
    ppc = "mixing" => /\ rec.working = next_record.bank
                      /\ left <= total_remaining_hashes

\* The PoH thread speeds through a slot only once its block has been recorded
\* or has arrived: a slot without its block gets the extended time.
SpeedrunHasBlock ==
    speedrun /\ rec.working # NoBank => ledger[rec.working].harmonic

\* A working bank does not stay for ever: it gets its last tick or is reset.
BankEnds == []<>(rec.working = NoBank \/ ppc \in {"exited", "panicked"})

\* maybe_start_leader's assertion: the parent PoH has ticked on from is frozen.
ParentFrozen == rpc # "panicked"
===============================================================================
