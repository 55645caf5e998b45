--------------------------- MODULE RecordChannels ---------------------------
(***************************************************************************)
(* The channel on which transaction threads hand records to the PoH        *)
(* service (poh/src/record_channels.rs): an atomic word that packs the     *)
(* bank records are accepted for with the batches that may still be sent,  *)
(* a counter of senders in the middle of a send, a bounded channel, and a  *)
(* mutex around the next transaction index.  Every atomic access is a step *)
(* of its own.  The receiver is the PoH service thread: it shuts the       *)
(* channel, receives, and restarts it for another bank once                *)
(* is_safe_to_restart has said so (poh/src/poh_service.rs).                *)
(*                                                                         *)
(* The word is the pair of its bit fields; adding to it carries from the   *)
(* lower field into the upper one.                                         *)
(***************************************************************************)
EXTENDS Integers, Sequences, FiniteSets

CONSTANTS
    Senders,       \* the threads that record
    INSERTIONS,    \* 2^17 in the code: values of the word's lower field
    BANK_IDS,      \* 2^47 in the code: values of its upper field
    Records,       \* kinds of record: how many batches and transactions
    Track,         \* track_transaction_indexes
    MaxIndex       \* bound: no send begins after this many transactions of a bank

ASSUME WordAssumption ==
    /\ INSERTIONS \in Nat \ {0, 1} /\ BANK_IDS \in Nat \ {0, 1}
    /\ Track \in BOOLEAN /\ MaxIndex \in Nat

ASSUME SendersAssumption ==
    IsFiniteSet(Senders) /\ Senders \cap {"none", "receiver"} = {}

\* try_send asserts that a record has transactions, and no batch is empty.
ASSUME RecordsAssumption ==
    Records \subseteq [batches : Nat \ {0}, txs : Nat \ {0}]

VARIABLES
    word,            \* bank_id_allowed_insertions
    active_senders,
    channel,         \* the bounded channel
    index_lock,      \* who holds the mutex of transaction_indexes
    transaction_indexes,
    pc, record, loaded,  \* of a sender: where it is, its record, the word it loaded
    rpc,             \* where the receiver is
    message,         \* the service message it works on; NoBank if none
    sender_active,   \* its local variable in try_recv
    received,        \* the record it has taken and not yet accounted for
    should_exit,     \* its local variable in tick_producer
    bank,            \* history: the bank of the last restart
    enqueued, at     \* history: transactions sent since then, and before a sender's record

sender_vars == <<pc, record, loaded, at>>
receiver_vars == <<rpc, message, sender_active, received, should_exit, bank>>
vars == <<word, active_senders, channel, index_lock, transaction_indexes, sender_vars,
          receiver_vars, enqueued>>

DISABLED_BANK_ID == BANK_IDS - 1
MAX_BANK_ID == DISABLED_BANK_ID - 1
CAPACITY == INSERTIONS - 1          \* MAX_ALLOWED_INSERTIONS

\* In message: no message, and a Reset, which restarts nothing.
NoBank == -1
ResetMessage == -2

None == "none"
Receiver == "receiver"

\* History: a record that has been accepted knows which slots of the channel's
\* capacity its batches were given, one each.
Slots == 1 .. CAPACITY
NewRecord(b, r) == [bank |-> b, batches |-> r.batches, txs |-> r.txs, slots |-> {}]
NoRecord == NewRecord(NoBank, [batches |-> 0, txs |-> 0])

encoded_value(b, n) == [bank_id |-> b, allowed |-> n]

SHUTDOWN == encoded_value(DISABLED_BANK_ID, 0)

fetch_add(v, n) ==
    encoded_value((v.bank_id + (v.allowed + n) \div INSERTIONS) % BANK_IDS,
                  (v.allowed + n) % INSERTIONS)

is_shutdown == word.bank_id = DISABLED_BANK_ID

\* The slots that are in use: reserved, in the channel, or taken out of it by a
\* receiver that has not yet given the allowance back.
Occupied ==
    {x \in Slots : \/ \E s \in Senders : x \in record[s].slots
                   \/ \E i \in DOMAIN channel : x \in channel[i].slots
                   \/ x \in received.slots}

\* Some n of the slots of S; none if there are fewer.
Pick(S, n) ==
    IF n <= Cardinality(S) THEN CHOOSE T \in SUBSET S : Cardinality(T) = n ELSE {}

-----------------------------------------------------------------------------
(* RecordSender::try_send                                                  *)

Goto(s, l) == pc' = [pc EXCEPT ![s] = l]

ReceiverIdle == UNCHANGED receiver_vars

\* The thread wants to record for a bank it has seen, which may be an old one.
Begin(s) ==
    /\ pc[s] = "idle" /\ enqueued < MaxIndex
    /\ \E b \in 0 .. MAX_BANK_ID : \E r \in Records :
           record' = [record EXCEPT ![s] = NewRecord(b, r)]
    /\ Goto(s, IF Track THEN "lock" ELSE "load")
    /\ ReceiverIdle
    /\ UNCHANGED <<word, active_senders, channel, index_lock, transaction_indexes, loaded,
                   at, enqueued>>

LockIndexes(s) ==
    /\ pc[s] = "lock" /\ index_lock = None
    /\ index_lock' = s
    /\ Goto(s, "load")
    /\ ReceiverIdle
    /\ UNCHANGED <<word, active_senders, channel, transaction_indexes, record, loaded, at,
                   enqueued>>

Unlock(s) == index_lock' = IF Track THEN None ELSE index_lock

\* Mutant: the bank the channel is open for is not looked at.
Refused_AnyBank(s) ==
    is_shutdown \/ word.allowed < record[s].batches

\* The early returns: Shutdown, InactiveBankId and Full.
Refused(s) ==
    \/ is_shutdown
    \/ word.bank_id # record[s].bank
    \/ word.allowed < record[s].batches

\* The word is loaded, and the send given up or gone on with.
Load(s) ==
    /\ pc[s] = "load"
    /\ IF Refused(s)
       THEN /\ Unlock(s) /\ Goto(s, "idle") /\ UNCHANGED loaded
            /\ record' = [record EXCEPT ![s] = NoRecord]
       ELSE /\ loaded' = [loaded EXCEPT ![s] = word]
            /\ Goto(s, "increment") /\ UNCHANGED <<index_lock, record>>
    /\ ReceiverIdle
    /\ UNCHANGED <<word, active_senders, channel, transaction_indexes, at, enqueued>>

Increment(s) ==
    /\ pc[s] = "increment"
    /\ active_senders' = active_senders + 1
    /\ Goto(s, "reserve")
    /\ ReceiverIdle
    /\ UNCHANGED <<word, channel, index_lock, transaction_indexes, record, loaded, at,
                   enqueued>>

\* Mutant: the word is stored without looking at it again.
Reserve_Blind(s) ==
    /\ pc[s] = "reserve"
    /\ word' = encoded_value(loaded[s].bank_id, loaded[s].allowed - record[s].batches)
    /\ record' = [record EXCEPT ![s].slots = Pick(Slots, record[s].batches)]
    /\ Goto(s, "send")
    /\ loaded' = [loaded EXCEPT ![s] = SHUTDOWN]
    /\ ReceiverIdle
    /\ UNCHANGED <<active_senders, channel, index_lock, transaction_indexes, at, enqueued>>

\* compare_exchange
Reserve(s) ==
    /\ pc[s] = "reserve"
    /\ IF word = loaded[s]
       THEN /\ word' = encoded_value(word.bank_id, word.allowed - record[s].batches)
            /\ record' = [record EXCEPT ![s].slots = Pick(Slots \ Occupied, record[s].batches)]
            /\ Goto(s, "send")
       ELSE Goto(s, "again") /\ UNCHANGED <<word, record>>
    /\ loaded' = [loaded EXCEPT ![s] = SHUTDOWN]
    /\ ReceiverIdle
    /\ UNCHANGED <<active_senders, channel, index_lock, transaction_indexes, at, enqueued>>

\* Mutant: a sender that failed to reserve stays counted.
Again_StaysActive(s) ==
    /\ pc[s] = "again"
    /\ Unlock(s)
    /\ Goto(s, IF Track THEN "lock" ELSE "load")
    /\ ReceiverIdle
    /\ UNCHANGED <<word, active_senders, channel, transaction_indexes, record, loaded, at,
                   enqueued>>

\* Failed to reserve: decrement, and the loop's next round takes the lock anew.
Again(s) ==
    /\ pc[s] = "again"
    /\ active_senders' = active_senders - 1
    /\ Unlock(s)
    /\ Goto(s, IF Track THEN "lock" ELSE "load")
    /\ ReceiverIdle
    /\ UNCHANGED <<word, channel, transaction_indexes, record, loaded, at, enqueued>>

\* sender.try_send, asserted not to find the channel full.
Send(s) ==
    /\ pc[s] = "send"
    /\ Len(channel) < CAPACITY
    /\ channel' = Append(channel, record[s])
    /\ record' = [record EXCEPT ![s].slots = {}]
    /\ at' = [at EXCEPT ![s] = enqueued]
    /\ enqueued' = enqueued + record[s].txs
    /\ Goto(s, "decrement")
    /\ ReceiverIdle
    /\ UNCHANGED <<word, active_senders, index_lock, transaction_indexes, loaded>>

Decrement(s) ==
    /\ pc[s] = "decrement"
    /\ active_senders' = active_senders - 1
    /\ Goto(s, "index")
    /\ ReceiverIdle
    /\ UNCHANGED <<word, channel, index_lock, transaction_indexes, record, loaded, at,
                   enqueued>>

\* The record's starting index is the counter, which moves on.
Index(s) ==
    /\ pc[s] = "index"
    /\ transaction_indexes' = IF Track THEN transaction_indexes + record[s].txs
                              ELSE transaction_indexes
    /\ Unlock(s)
    /\ Goto(s, "idle")
    /\ record' = [record EXCEPT ![s] = NoRecord] /\ at' = [at EXCEPT ![s] = 0]
    /\ ReceiverIdle
    /\ UNCHANGED <<word, active_senders, channel, loaded, enqueued>>

SenderStep(s) ==
    \/ LockIndexes(s) \/ Load(s) \/ Increment(s) \/ Reserve(s) \/ Again(s) \/ Send(s)
    \/ Decrement(s) \/ Index(s)

-----------------------------------------------------------------------------
(* The receiver: the loop of PohService::tick_producer, without the PoH     *)
(* itself: when record_or_hash shuts the channel because the slot runs out  *)
(* of hashes is left open here.                                             *)

SendersIdle == UNCHANGED <<active_senders, sender_vars, enqueued>>

shutdown == word' = SHUTDOWN

\* The top of the outer loop: the exit flag and check_for_service_message.
Top ==
    /\ rpc = "top"
    /\ should_exit' \in {should_exit, TRUE}
    /\ message' \in {NoBank, ResetMessage} \cup (bank + 1 .. MAX_BANK_ID)
    /\ IF should_exit' \/ message' # NoBank THEN shutdown ELSE UNCHANGED word
    /\ rpc' = "work"
    /\ SendersIdle
    /\ UNCHANGED <<channel, index_lock, transaction_indexes, sender_active, received, bank>>

\* A batch of hashes.  When a tick is due after it nothing is received.
Hash(next) ==
    /\ rpc = "work"
    /\ shutdown \/ UNCHANGED word
    /\ rpc' = next
    /\ SendersIdle
    /\ UNCHANGED <<channel, index_lock, transaction_indexes, message, sender_active, received,
                   should_exit, bank>>

\* try_recv loads active_senders before it looks into the channel.
LoadActive ==
    /\ rpc \in {"recv", "reload"}
    /\ sender_active' = (active_senders > 0)
    /\ rpc' = "try"
    /\ SendersIdle
    /\ UNCHANGED <<word, channel, index_lock, transaction_indexes, message, received,
                   should_exit, bank>>

\* Empty is returned only when no sender was active before the channel was empty.
TryRecv ==
    /\ rpc = "try"
    /\ IF channel # <<>>
       THEN /\ received' = Head(channel) /\ channel' = Tail(channel)
            /\ rpc' = "account"
       ELSE /\ rpc' = IF sender_active THEN "reload" ELSE "check"
            /\ UNCHANGED <<received, channel>>
    /\ sender_active' = IF channel # <<>> THEN FALSE ELSE sender_active
    /\ SendersIdle
    /\ UNCHANGED <<word, index_lock, transaction_indexes, message, should_exit, bank>>

on_received_record ==
    /\ rpc = "account"
    /\ word' = fetch_add(word, received.batches)
    /\ received' = [received EXCEPT !.slots = {}]
    /\ rpc' = "record"
    /\ SendersIdle
    /\ UNCHANGED <<channel, index_lock, transaction_indexes, message, sender_active,
                   should_exit, bank>>

\* The record goes to the recorder, and the channel may have to be shut.
Record ==
    /\ rpc = "record"
    /\ received' = NoRecord
    /\ shutdown \/ UNCHANGED word
    /\ rpc' = "recv"
    /\ SendersIdle
    /\ UNCHANGED <<channel, index_lock, transaction_indexes, message, sender_active,
                   should_exit, bank>>

\* Mutant: is_safe_to_restart looks into the channel alone.
ActiveIsZero_Dropped(from, yes, no) ==
    /\ rpc = from
    /\ rpc' = IF channel = <<>> THEN yes ELSE no
    /\ SendersIdle
    /\ UNCHANGED <<word, channel, index_lock, transaction_indexes, message, sender_active,
                   received, should_exit, bank>>

\* The two conjuncts of is_safe_to_restart, in their order.
ActiveIsZero(from, yes, no) ==
    /\ rpc = from
    /\ rpc' = IF active_senders = 0 THEN yes ELSE no
    /\ SendersIdle
    /\ UNCHANGED <<word, channel, index_lock, transaction_indexes, message, sender_active,
                   received, should_exit, bank>>

ChannelIsEmpty(from, yes, no) ==
    /\ rpc = from
    /\ rpc' = IF channel = <<>> THEN yes ELSE no
    /\ SendersIdle
    /\ UNCHANGED <<word, channel, index_lock, transaction_indexes, message, sender_active,
                   received, should_exit, bank>>

\* No message: on to the end of the outer loop.  Otherwise only if it is safe.
can_process_service_message ==
    \/ message = NoBank /\ ActiveIsZero("check", "end", "end")
    \/ message # NoBank /\ ActiveIsZero("check", "empty", "work")
    \/ ChannelIsEmpty("empty", "handle", "work")

\* handle_service_message, up to the restart of the channel.  SetBank restarts it
\* unless the bank's ticks are nearly over.  Once the exit flag has been seen the
\* message is dropped instead, and its guard panics.
handle_service_message ==
    /\ rpc = "handle"
    /\ \/ /\ should_exit
          /\ rpc' = "panic" /\ UNCHANGED message
       \/ /\ ~should_exit /\ message # ResetMessage
          /\ rpc' = "restart" /\ UNCHANGED message
       \/ /\ ~should_exit
          /\ rpc' = "end" /\ message' = NoBank
    /\ SendersIdle
    /\ UNCHANGED <<word, channel, index_lock, transaction_indexes, sender_active, received,
                   should_exit, bank>>

\* Mutant: the index goes on from bank to bank.
RestartLock_KeepsIndex ==
    /\ rpc = "restart" /\ channel = <<>>
    /\ Track => index_lock = None
    /\ index_lock' = IF Track THEN Receiver ELSE index_lock
    /\ rpc' = "store"
    /\ SendersIdle
    /\ UNCHANGED <<word, channel, transaction_indexes, message, sender_active, received,
                   should_exit, bank>>

\* restart: an assertion, then the mutex is taken and the index reset.
RestartLock ==
    /\ rpc = "restart" /\ channel = <<>>
    /\ Track => index_lock = None
    /\ index_lock' = IF Track THEN Receiver ELSE index_lock
    /\ transaction_indexes' = 0
    /\ rpc' = "store"
    /\ SendersIdle
    /\ UNCHANGED <<word, channel, message, sender_active, received, should_exit, bank>>

RestartStore ==
    /\ rpc = "store"
    /\ word' = encoded_value(message, CAPACITY)
    /\ bank' = message /\ enqueued' = 0
    /\ rpc' = "unlock"
    /\ UNCHANGED <<active_senders, channel, index_lock, transaction_indexes, sender_vars,
                   message, sender_active, received, should_exit>>

RestartUnlock ==
    /\ rpc = "unlock"
    /\ index_lock' = IF Track THEN None ELSE index_lock
    /\ message' = NoBank
    /\ rpc' = "end"
    /\ SendersIdle
    /\ UNCHANGED <<word, channel, transaction_indexes, sender_active, received, should_exit,
                   bank>>

\* The end of the outer loop: around again, or out if the channel is drained.
End ==
    \/ ~should_exit /\ ActiveIsZero("end", "top", "top")
    \/ should_exit /\ ActiveIsZero("end", "leave", "top")
    \/ ChannelIsEmpty("leave", "done", "top")

ReceiverStep ==
    \/ Hash("recv") \/ Hash("check") \/ LoadActive \/ TryRecv \/ on_received_record \/ Record
    \/ can_process_service_message \/ handle_service_message
    \/ RestartLock \/ RestartStore \/ RestartUnlock \/ End

-----------------------------------------------------------------------------
Init ==
    /\ word = SHUTDOWN /\ active_senders = 0 /\ channel = <<>>
    /\ index_lock = None /\ transaction_indexes = 0
    /\ pc = [s \in Senders |-> "idle"]
    /\ record = [s \in Senders |-> NoRecord]
    /\ loaded = [s \in Senders |-> SHUTDOWN]
    /\ at = [s \in Senders |-> 0]
    /\ rpc = "top" /\ message = NoBank /\ sender_active = FALSE /\ received = NoRecord
    /\ should_exit = FALSE /\ bank = NoBank /\ enqueued = 0

Next ==
    \/ \E s \in Senders : Begin(s) \/ SenderStep(s)
    \/ Top \/ ReceiverStep

Spec == Init /\ [][Next]_vars

\* Threads run on; a mutex that is free again and again is taken in the end.
\* Nobody has to start a send.  A tick is not due after every batch of hashes, as
\* it takes hashes_per_tick of them.
FairSpec ==
    /\ Spec
    /\ \A s \in Senders : WF_vars(SenderStep(s)) /\ SF_vars(LockIndexes(s))
    /\ WF_vars(Top \/ ReceiverStep) /\ SF_vars(Hash("recv")) /\ SF_vars(RestartLock)

-----------------------------------------------------------------------------
(* Properties                                                              *)

InFlight == {"reserve", "again", "send", "decrement"}

AcceptedRecord ==
    [bank : 0 .. MAX_BANK_ID, batches : Nat \ {0}, txs : Nat \ {0}, slots : SUBSET Slots]

\* The values the state of the channel, its senders and its receiver ranges over:
\* the two fields of the word never leave their bits, and index positions never
\* become negative.
TypeOK ==
    /\ word \in [bank_id : 0 .. DISABLED_BANK_ID, allowed : 0 .. CAPACITY]
    /\ active_senders \in Nat
    /\ channel \in Seq(AcceptedRecord)
    /\ index_lock \in Senders \cup {None, Receiver}
    /\ transaction_indexes \in Nat /\ enqueued \in Nat
    /\ pc \in [Senders -> {"idle", "lock", "load", "increment", "index"} \cup InFlight]
    /\ record \in [Senders -> AcceptedRecord \cup {NoRecord}]
    /\ loaded \in [Senders -> [bank_id : 0 .. DISABLED_BANK_ID, allowed : 0 .. CAPACITY]]
    /\ at \in [Senders -> Nat]
    /\ rpc \in {"top", "work", "recv", "try", "reload", "account", "record", "check", "empty",
                "handle", "restart", "store", "unlock", "end", "leave", "panic", "done"}
    /\ message \in {NoBank, ResetMessage} \cup 0 .. MAX_BANK_ID
    /\ sender_active \in BOOLEAN /\ should_exit \in BOOLEAN
    /\ received \in AcceptedRecord \cup {NoRecord}
    /\ bank \in {NoBank} \cup 0 .. MAX_BANK_ID

\* Every record that has been accepted and not yet recorded is for the bank of
\* the last restart.  PohRecorder::record fails for another one, and the PoH
\* thread panics.
CurrentBank ==
    /\ \A s \in Senders : pc[s] = "send" => record[s].bank = bank
    /\ \A i \in DOMAIN channel : channel[i].bank = bank
    /\ received # NoRecord => received.bank = bank

\* When the receiver handles a message, restarts or has left, nothing is in the
\* channel and nobody is about to put something there: restart's assertion that
\* the channel is empty holds, and no record is lost or carried into another bank.
Drained ==
    rpc \in {"handle", "restart", "store", "panic", "done"} =>
        /\ is_shutdown /\ channel = <<>>
        /\ \A s \in Senders : pc[s] # "send"

\* A sender that has reserved finds room in the bounded channel: try_send asserts
\* that its only failure is a dropped receiver.
NeverFull == \A s \in Senders : pc[s] = "send" => Len(channel) < CAPACITY

\* While the channel is open every batch of the capacity is either allowed, or
\* accepted and not yet given back; none leaks when sends fail or records are
\* received.  After a shutdown what is given back never carries into the bank id.
Budget ==
    IF is_shutdown THEN word.allowed + Cardinality(Occupied) <= CAPACITY
    ELSE word.allowed + Cardinality(Occupied) = CAPACITY

\* The starting index returned for a record is the number of transactions sent
\* for the bank before it, in the order of the channel.
IndexMatches ==
    \A s \in Senders : Track /\ pc[s] = "index" => transaction_indexes = at[s]

\* The reservation, the counter and the channel together are one atomic queue.
Queue == INSTANCE RecordQueue WITH
    Banks <- 0 .. MAX_BANK_ID, Closed <- DISABLED_BANK_ID,
    open <- word.bank_id, queue <- channel,
    reserved <- [s \in Senders |-> IF pc[s] = "send" THEN record[s] ELSE NoRecord]

\* try_send, try_recv, shutdown and restart implement the operations of RecordQueue.
IsQueue == Queue!QSpec

\* A service message the receiver has taken is handled in the end, whatever the
\* senders do: after the shutdown they drain away.
MessageHandled == []<>(message = NoBank \/ rpc = "panic")
=============================================================================
