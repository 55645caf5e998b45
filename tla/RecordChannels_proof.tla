------------------------ MODULE RecordChannels_proof ------------------------
(***************************************************************************)
(* The safety of the record channel for any number of senders, any word    *)
(* layout and any records, and that it implements RecordQueue: first the   *)
(* inductive invariant and the steps of try_send, then the receiver.       *)
(***************************************************************************)
EXTENDS RecordChannels, FiniteSetTheorems, TLAPS

\* Most steps need no arithmetic: Zenon proves them unless SMT is named.
USE ZenonT(40)

Word == [bank_id : 0 .. DISABLED_BANK_ID, allowed : 0 .. CAPACITY]

\* Where a sender stands tells what it holds.
SenderInv ==
    \A s \in Senders :
        /\ pc[s] # "idle" => record[s] \in AcceptedRecord
        /\ pc[s] # "send" => record[s].slots = {}
        /\ pc[s] = "send" => Cardinality(record[s].slots) = record[s].batches
        /\ pc[s] \in {"increment", "reserve"} =>
               /\ loaded[s].bank_id = record[s].bank
               /\ loaded[s].allowed >= record[s].batches

\* active_senders counts the senders between the increment and a decrement.
Counted == active_senders = Cardinality({s \in Senders : pc[s] \in InFlight})

\* The mutex has one holder, who is where the code says.
LockInv ==
    /\ \A s \in Senders :
           Track /\ pc[s] \in {"load", "increment", "index"} \cup InFlight => index_lock = s
    /\ Track /\ rpc \in {"store", "unlock"} => index_lock = Receiver

\* Accepted batches have slots of their own.
SlotsInv ==
    /\ \A i \in DOMAIN channel : Cardinality(channel[i].slots) = channel[i].batches
    /\ \A i, j \in DOMAIN channel : i # j => channel[i].slots \cap channel[j].slots = {}
    /\ \A i \in DOMAIN channel : \A s \in Senders : channel[i].slots \cap record[s].slots = {}
    /\ \A i \in DOMAIN channel : channel[i].slots \cap received.slots = {}
    /\ \A s, t \in Senders : s # t => record[s].slots \cap record[t].slots = {}
    /\ \A s \in Senders : record[s].slots \cap received.slots = {}

\* What the receiver has in its hands, and what it has found out, where it stands.
ReceiverInv ==
    /\ rpc \in {"account", "record"} => received \in AcceptedRecord
    /\ rpc \notin {"account", "record"} => received = NoRecord
    /\ rpc = "account" => Cardinality(received.slots) = received.batches
    /\ rpc # "account" => received.slots = {}
    /\ rpc \in {"top", "end", "leave", "done"} => message = NoBank
    /\ rpc \in {"empty", "handle"} => message # NoBank
    /\ rpc \in {"restart", "store", "unlock"} => message \in 0 .. MAX_BANK_ID /\ ~should_exit
    /\ message # NoBank /\ rpc # "unlock" => is_shutdown
    /\ should_exit => is_shutdown
    /\ rpc \in {"leave", "done"} => should_exit
    /\ rpc \in {"empty", "leave"} => \A s \in Senders : pc[s] # "send"

\* An open channel is open for the bank of the last restart.
OpenForBank == ~is_shutdown => word.bank_id = bank

\* The index counter lags behind the channel by the record being indexed.
IndexInv ==
    Track =>
        /\ \A s \in Senders : pc[s] \in {"decrement", "index"} =>
               transaction_indexes = at[s] /\ enqueued = at[s] + record[s].txs
        /\ rpc = "store" => transaction_indexes = 0
        /\ rpc # "store" /\ (\A s \in Senders : pc[s] \notin {"decrement", "index"}) =>
               enqueued = transaction_indexes

IInv ==
    /\ TypeOK /\ SenderInv /\ Counted /\ LockInv /\ SlotsInv /\ ReceiverInv
    /\ Budget /\ CurrentBank /\ OpenForBank /\ Drained /\ IndexInv

-----------------------------------------------------------------------------
(* Constants, records and slots.                                           *)

\* The word's fields have room for a bank and for a batch.
LEMMA Fields ==
    /\ CAPACITY \in Nat \ {0} /\ INSERTIONS = CAPACITY + 1
    /\ DISABLED_BANK_ID \in Nat \ {0} /\ BANK_IDS = DISABLED_BANK_ID + 1
    /\ MAX_BANK_ID = DISABLED_BANK_ID - 1 /\ MAX_BANK_ID \in Nat
    /\ NoBank \notin 0 .. MAX_BANK_ID /\ ResetMessage \notin 0 .. MAX_BANK_ID
    /\ NoBank # ResetMessage /\ NoBank \in Int
    /\ SHUTDOWN \in Word /\ SHUTDOWN.bank_id = DISABLED_BANK_ID /\ SHUTDOWN.allowed = 0
  BY WordAssumption, SMTT(30) DEF CAPACITY, DISABLED_BANK_ID, MAX_BANK_ID, NoBank, ResetMessage,
                        SHUTDOWN, encoded_value, Word

\* A new record has no slots yet, and NoRecord is not a record.
LEMMA NewRecords ==
    /\ \A b \in 0 .. MAX_BANK_ID : \A r \in Records :
           NewRecord(b, r) \in AcceptedRecord /\ NewRecord(b, r).slots = {}
    /\ NoRecord \notin AcceptedRecord
    /\ NoRecord.slots = {} /\ NoRecord.batches = 0
    /\ \A r \in AcceptedRecord \cup {NoRecord} : r.slots \subseteq Slots
  BY Fields, RecordsAssumption, SMTT(30) DEF NewRecord, NoRecord, AcceptedRecord

\* The slots are as many as the capacity.
LEMMA SlotCount ==
    /\ IsFiniteSet(Slots) /\ Cardinality(Slots) = CAPACITY
    /\ \A T \in SUBSET Slots :
           IsFiniteSet(T) /\ Cardinality(T) \in Nat /\ Cardinality(T) <= CAPACITY
  <1>1. IsFiniteSet(Slots) /\ Cardinality(Slots) = CAPACITY
    <2>1. 1 \in Int /\ CAPACITY \in Int /\ ~(1 > CAPACITY) /\ CAPACITY - 1 + 1 = CAPACITY
      BY Fields, SMTT(30)
    <2>2. /\ IsFiniteSet(1 .. CAPACITY)
          /\ Cardinality(1 .. CAPACITY) = IF 1 > CAPACITY THEN 0 ELSE CAPACITY - 1 + 1
      BY ONLY <2>1, FS_Interval
    <2> QED BY <2>1, <2>2 DEF Slots
  <1>2. ASSUME NEW T \in SUBSET Slots
        PROVE  IsFiniteSet(T) /\ Cardinality(T) \in Nat /\ Cardinality(T) <= CAPACITY
    BY <1>1, FS_Subset, FS_CardinalityType
  <1> QED BY <1>1, <1>2

\* Pick finds as many slots as it is asked for.
LEMMA PickSome ==
    ASSUME NEW S \in SUBSET Slots, NEW n \in Nat, n <= Cardinality(S)
    PROVE  Pick(S, n) \in SUBSET S /\ Cardinality(Pick(S, n)) = n
  <1>1. IsFiniteSet(S) /\ Cardinality(S) \in Nat
    BY SlotCount
  <1>2. PICK f \in Bijection(1 .. Cardinality(S), S) : TRUE
    BY <1>1, FS_CardinalityType DEF ExistsBijection
  <1> DEFINE T == {f[i] : i \in 1 .. n}
             g == [i \in 1 .. n |-> f[i]]
  <1>3. T \in SUBSET S
    BY <1>1, <1>2, SMTT(30) DEF Bijection, Injection, Surjection
  <1>4. g \in Bijection(1 .. n, T)
    BY <1>1, <1>2, SMTT(30) DEF Bijection, Injection, Surjection, IsInjective
  <1>5. Cardinality(T) = n
    BY <1>4, FS_CountingElements DEF ExistsBijection
  <1> QED BY <1>3, <1>5 DEF Pick

\* Disjoint sets of slots add up, and a part of a set can be taken away.
LEMMA Adding ==
    ASSUME NEW S \in SUBSET Slots, NEW T \in SUBSET Slots
    PROVE  /\ S \cap T = {} => Cardinality(S \cup T) = Cardinality(S) + Cardinality(T)
           /\ T \subseteq S => Cardinality(S \ T) = Cardinality(S) - Cardinality(T)
           /\ Cardinality(Slots \ S) = CAPACITY - Cardinality(S)
  <1>1. IsFiniteSet(S) /\ IsFiniteSet(T) /\ Cardinality(S) \in Nat /\ Cardinality(T) \in Nat
    BY SlotCount
  <1>2. ASSUME NEW A \in SUBSET Slots, NEW B \in SUBSET Slots, A \cap B = {}
        PROVE  Cardinality(A \cup B) = Cardinality(A) + Cardinality(B)
    <2>1. IsFiniteSet(A) /\ IsFiniteSet(B) /\ Cardinality(A) \in Nat /\ Cardinality(B) \in Nat
      BY SlotCount
    <2>2. Cardinality(A \cup B) = Cardinality(A) + Cardinality(B) - Cardinality(A \cap B)
      BY <2>1, FS_Union
    <2> QED BY <1>2, <2>1, <2>2, FS_EmptySet, SMTT(30)
  <1>3. ASSUME T \subseteq S PROVE Cardinality(S \ T) = Cardinality(S) - Cardinality(T)
    <2>1. S = (S \ T) \cup T /\ (S \ T) \cap T = {} /\ S \ T \in SUBSET Slots
      BY <1>3
    <2>2. Cardinality(S \ T) \in Nat
      BY <2>1, SlotCount
    <2>3. Cardinality(S) = Cardinality(S \ T) + Cardinality(T)
      BY <1>2, <2>1
    <2> QED BY <1>1, <2>2, <2>3, SMTT(30)
  <1>4. Cardinality(Slots \ S) = CAPACITY - Cardinality(S)
    <2>1. Slots = (Slots \ S) \cup S /\ (Slots \ S) \cap S = {} /\ Slots \ S \in SUBSET Slots
      OBVIOUS
    <2>2. Cardinality(Slots \ S) \in Nat
      BY SlotCount
    <2>3. Cardinality(Slots) = Cardinality(Slots \ S) + Cardinality(S)
      BY <1>2, <2>1
    <2> QED BY <1>1, <2>2, <2>3, SlotCount, Fields, SMTT(30)
  <1> QED BY <1>2, <1>3, <1>4

\* What is occupied is within the capacity.
LEMMA OccupiedSlots == Occupied \in SUBSET Slots /\ Cardinality(Occupied) \in Nat
  <1>1. Occupied \in SUBSET Slots
    BY DEF Occupied
  <1> QED BY <1>1, SlotCount

-----------------------------------------------------------------------------
(* Steps that move no slots.                                               *)

\* A sender that neither reserves nor sends leaves the channel's side alone.
LEMMA SenderMove ==
    ASSUME IInv, NEW s \in Senders, NEW l, l # "send", pc[s] # "send",
           pc' = [pc EXCEPT ![s] = l],
           \A t \in Senders : t # s => record'[t] = record[t],
           record'[s].slots = {},
           UNCHANGED <<word, channel, receiver_vars>>
    PROVE  SlotsInv' /\ ReceiverInv' /\ Budget' /\ CurrentBank' /\ OpenForBank' /\ Drained'
  <1>1. \A t \in Senders : pc'[t] = "send" <=> pc[t] = "send"
    BY DEF IInv, TypeOK
  <1>2. \A t \in Senders : record'[t].slots = record[t].slots
    BY DEF IInv, SenderInv
  <1>3. SlotsInv'
    BY <1>2 DEF IInv, SlotsInv, receiver_vars
  <1>4. ReceiverInv'
    BY <1>1 DEF IInv, ReceiverInv, receiver_vars, is_shutdown
  <1>5. Budget'
    <2>1. Occupied' = Occupied
      BY <1>2 DEF Occupied, receiver_vars
    <2> QED BY <2>1 DEF IInv, Budget, is_shutdown
  <1>6. CurrentBank'
    <2>1. \A t \in Senders : pc'[t] = "send" => record'[t].bank = bank
      BY <1>1 DEF IInv, CurrentBank
    <2> QED BY <2>1 DEF IInv, CurrentBank, receiver_vars
  <1>7. OpenForBank' /\ Drained'
    BY <1>1 DEF IInv, OpenForBank, Drained, receiver_vars, is_shutdown
  <1> QED BY <1>3, <1>4, <1>5, <1>6, <1>7

\* The counter of active senders follows a sender's move.
LEMMA CountMove ==
    ASSUME TypeOK, Counted, NEW s \in Senders, NEW l, pc' = [pc EXCEPT ![s] = l],
           \/ pc[s] \in InFlight /\ l \in InFlight /\ active_senders' = active_senders
           \/ pc[s] \notin InFlight /\ l \notin InFlight /\ active_senders' = active_senders
           \/ pc[s] \notin InFlight /\ l \in InFlight /\ active_senders' = active_senders + 1
           \/ pc[s] \in InFlight /\ l \notin InFlight /\ active_senders' = active_senders - 1
    PROVE  Counted' /\ active_senders' \in Nat
  <1> DEFINE B == {t \in Senders : pc[t] \in InFlight}
             C == {t \in Senders : pc'[t] \in InFlight}
  <1>1. IsFiniteSet(B) /\ active_senders = Cardinality(B) /\ Cardinality(B) \in Nat
    BY SendersAssumption, FS_Subset, FS_CardinalityType DEF Counted
  <1>2. pc'[s] = l /\ \A t \in Senders : t # s => pc'[t] = pc[t]
    BY DEF TypeOK
  <1>3. IsFiniteSet(C) /\ Cardinality(C) \in Nat
    BY SendersAssumption, FS_Subset, FS_CardinalityType
  <1> SUFFICES Cardinality(C) = active_senders'
    BY <1>3 DEF Counted
  <1>4. CASE pc[s] \in InFlight <=> l \in InFlight
    <2>1. C = B
      BY <1>2, <1>4
    <2> QED BY <1>1, <1>4, <2>1
  <1>5. CASE pc[s] \notin InFlight /\ l \in InFlight
    <2>1. C = B \cup {s} /\ s \notin B
      BY <1>2, <1>5
    <2>2. Cardinality(B \cup {s}) = Cardinality(B) + 1
      BY <1>1, <2>1, FS_AddElement
    <2> QED BY <1>1, <1>5, <2>1, <2>2
  <1>6. CASE pc[s] \in InFlight /\ l \notin InFlight
    <2>1. C = B \ {s} /\ s \in B
      BY <1>2, <1>6
    <2>2. Cardinality(B \ {s}) = Cardinality(B) - 1
      BY <1>1, <2>1, FS_RemoveElement
    <2> QED BY <1>1, <1>6, <2>1, <2>2
  <1> QED BY <1>4, <1>5, <1>6

\* A receiver that takes nothing and opens nothing leaves the senders' side alone.
LEMMA ReceiverMove ==
    ASSUME IInv, word' \in {word, SHUTDOWN},
           UNCHANGED <<active_senders, channel, sender_vars, enqueued, bank>>,
           received'.slots = received.slots,
           received' = received \/ received' = NoRecord
    PROVE  SenderInv' /\ Counted' /\ SlotsInv' /\ Budget' /\ CurrentBank' /\ OpenForBank'
  <1>1. SenderInv' /\ Counted' /\ SlotsInv'
    BY DEF IInv, SenderInv, Counted, SlotsInv, sender_vars
  <1>2. Budget'
    <2>1. Occupied' = Occupied
      BY DEF Occupied, sender_vars
    <2>2. CASE word' = word
      BY <2>1, <2>2 DEF IInv, Budget, is_shutdown
    <2>3. CASE word' = SHUTDOWN
      BY <2>1, <2>3, Fields, OccupiedSlots, SlotCount, SMTT(30) DEF IInv, Budget, is_shutdown
    <2> QED BY <2>2, <2>3
  <1>3. CurrentBank'
    BY DEF IInv, CurrentBank, sender_vars
  <1>4. OpenForBank'
    BY Fields DEF IInv, OpenForBank, is_shutdown
  <1> QED BY <1>1, <1>2, <1>3, <1>4

-----------------------------------------------------------------------------
(* try_send, step by step.                                                 *)

\* A send begins with a record that has no slots.
LEMMA BeginInv ==
    ASSUME IInv, NEW s \in Senders, Begin(s)
    PROVE  IInv'
  <1>1. PICK b \in 0 .. MAX_BANK_ID, r \in Records :
            record' = [record EXCEPT ![s] = NewRecord(b, r)]
    BY DEF Begin
  <1>2. PICK l \in {"lock", "load"} :
            pc' = [pc EXCEPT ![s] = l] /\ (Track => l = "lock")
    BY DEF Begin, Goto
  <1>3. pc[s] = "idle" /\ pc'[s] = l /\ \A t \in Senders : t # s => pc'[t] = pc[t]
    BY <1>2 DEF IInv, TypeOK, Begin
  <1>4. /\ record'[s] \in AcceptedRecord /\ record'[s].slots = {}
        /\ \A t \in Senders : t # s => record'[t] = record[t]
    BY <1>1, NewRecords DEF IInv, TypeOK
  <1>5. UNCHANGED <<word, active_senders, channel, index_lock, transaction_indexes, loaded, at,
                    enqueued, receiver_vars>>
    BY DEF Begin, ReceiverIdle
  <1>6. TypeOK'
    <2>1. pc' \in [Senders -> {"idle", "lock", "load", "increment", "index"} \cup InFlight]
      BY <1>2 DEF IInv, TypeOK
    <2>2. record' \in [Senders -> AcceptedRecord \cup {NoRecord}]
      BY <1>1, <1>4, NewRecords DEF IInv, TypeOK
    <2> QED BY <1>5, <2>1, <2>2, SMTT(30) DEF IInv, TypeOK, receiver_vars
  <1>7. SenderInv'
    BY <1>3, <1>4, <1>5, SMTT(30) DEF IInv, SenderInv
  <1>8. Counted'
    BY <1>2, <1>3, <1>5, CountMove DEF IInv, InFlight
  <1>9. LockInv'
    BY <1>2, <1>3, <1>5 DEF IInv, LockInv, receiver_vars, InFlight
  <1>10. IndexInv'
    BY <1>2, <1>3, <1>4, <1>5 DEF IInv, IndexInv, receiver_vars
  <1>11. SlotsInv' /\ ReceiverInv' /\ Budget' /\ CurrentBank' /\ OpenForBank' /\ Drained'
    <2>1. l # "send" /\ pc[s] # "send"
      BY <1>3
    <2> QED BY <1>2, <1>4, <1>5, <2>1, SenderMove
  <1> QED BY <1>6, <1>7, <1>8, <1>9, <1>10, <1>11 DEF IInv

\* The mutex goes to one sender at a time.
LEMMA LockIndexesInv ==
    ASSUME IInv, NEW s \in Senders, LockIndexes(s)
    PROVE  IInv'
  <1>1. pc' = [pc EXCEPT ![s] = "load"] /\ pc[s] = "lock" /\ index_lock = None
          /\ index_lock' = s
    BY DEF LockIndexes, Goto
  <1>2. pc'[s] = "load" /\ \A t \in Senders : t # s => pc'[t] = pc[t]
    BY <1>1 DEF IInv, TypeOK
  <1>3. UNCHANGED <<word, active_senders, channel, transaction_indexes, record, loaded, at,
                    enqueued, receiver_vars>>
    BY DEF LockIndexes, ReceiverIdle
  <1>4. TypeOK'
    <2>1. pc' \in [Senders -> {"idle", "lock", "load", "increment", "index"} \cup InFlight]
      BY <1>1 DEF IInv, TypeOK
    <2> QED BY <1>1, <1>3, <2>1, SMTT(30) DEF IInv, TypeOK, receiver_vars
  <1>5. SenderInv'
    BY <1>1, <1>2, <1>3 DEF IInv, SenderInv
  <1>6. Counted'
    BY <1>1, <1>2, <1>3, CountMove DEF IInv, InFlight
  <1>7. LockInv'
    <2>1. None \notin Senders /\ None # Receiver
      BY SendersAssumption DEF None, Receiver
    <2> QED BY <1>1, <1>2, <1>3, <2>1 DEF IInv, LockInv, receiver_vars, InFlight
  <1>8. IndexInv'
    BY <1>1, <1>2, <1>3 DEF IInv, IndexInv, receiver_vars
  <1>9. SlotsInv' /\ ReceiverInv' /\ Budget' /\ CurrentBank' /\ OpenForBank' /\ Drained'
    <2>1. record'[s].slots = {}
      BY <1>1, <1>3 DEF IInv, SenderInv
    <2> QED BY <1>1, <1>3, <2>1, SenderMove
  <1> QED BY <1>4, <1>5, <1>6, <1>7, <1>8, <1>9 DEF IInv

\* A sender goes on only with a word that has room for it, for its bank.
LEMMA LoadInv ==
    ASSUME IInv, NEW s \in Senders, Load(s)
    PROVE  IInv'
  <1>1. pc[s] = "load" /\ (pc' = [pc EXCEPT ![s] = "idle"] \/ pc' = [pc EXCEPT ![s] = "increment"])
    BY DEF Load, Goto
  <1>2. UNCHANGED <<word, active_senders, channel, transaction_indexes, at, enqueued,
                    receiver_vars>>
    BY DEF Load, ReceiverIdle
  <1>3. \A t \in Senders : t # s => pc'[t] = pc[t]
    BY <1>1 DEF IInv, TypeOK
  <1>4. CASE Refused(s)
    <2>1. /\ pc' = [pc EXCEPT ![s] = "idle"] /\ pc'[s] = "idle"
          /\ record' = [record EXCEPT ![s] = NoRecord] /\ loaded' = loaded
          /\ record'[s] = NoRecord /\ \A t \in Senders : t # s => record'[t] = record[t]
      BY <1>4 DEF IInv, TypeOK, Load, Goto
    <2>2. index_lock' = IF Track THEN None ELSE index_lock
      BY <1>4 DEF Load, Unlock
    <2>3. TypeOK'
      <3>1. pc' \in [Senders -> {"idle", "lock", "load", "increment", "index"} \cup InFlight]
        BY <2>1 DEF IInv, TypeOK
      <3>2. record' \in [Senders -> AcceptedRecord \cup {NoRecord}]
        BY <2>1 DEF IInv, TypeOK
      <3>3. index_lock' \in Senders \cup {None, Receiver}
        BY <2>2 DEF IInv, TypeOK
      <3> QED BY <1>2, <2>1, <3>1, <3>2, <3>3, SMTT(30) DEF IInv, TypeOK, receiver_vars
    <2>4. SenderInv'
      BY <1>3, <2>1, NewRecords, SMTT(30) DEF IInv, SenderInv
    <2>5. LockInv'
      <3>1. Track => index_lock = s
        BY <1>1 DEF IInv, LockInv
      <3>2. s # Receiver
        BY SendersAssumption DEF Receiver
      <3> QED BY <1>1, <1>2, <1>3, <2>1, <3>1, <3>2 DEF IInv, LockInv, receiver_vars, InFlight
    <2>6. IndexInv'
      BY <1>1, <1>2, <1>3, <2>1 DEF IInv, IndexInv, receiver_vars
    <2>7. Counted'
      BY <1>1, <1>2, <2>1, CountMove DEF IInv, InFlight
    <2>8. SlotsInv' /\ ReceiverInv' /\ Budget' /\ CurrentBank' /\ OpenForBank' /\ Drained'
      BY <1>1, <1>2, <2>1, NewRecords, SenderMove
    <2> QED BY <2>3, <2>4, <2>5, <2>6, <2>7, <2>8 DEF IInv
  <1>5. CASE ~Refused(s)
    <2>1. /\ pc' = [pc EXCEPT ![s] = "increment"] /\ pc'[s] = "increment"
          /\ loaded' = [loaded EXCEPT ![s] = word] /\ loaded'[s] = word
          /\ \A t \in Senders : t # s => loaded'[t] = loaded[t]
          /\ UNCHANGED <<index_lock, record>>
      BY <1>5 DEF IInv, TypeOK, Load, Goto
    <2>2. word.bank_id = record[s].bank /\ word.allowed >= record[s].batches
      <3>1. record[s] \in AcceptedRecord /\ word \in Word
        BY <1>1 DEF IInv, SenderInv, TypeOK, Word
      <3> QED BY <1>5, <3>1, Fields, SMTT(30) DEF Refused, AcceptedRecord, Word
    <2>3. TypeOK'
      <3>1. pc' \in [Senders -> {"idle", "lock", "load", "increment", "index"} \cup InFlight]
        BY <2>1 DEF IInv, TypeOK
      <3>2. loaded' \in [Senders -> [bank_id : 0 .. DISABLED_BANK_ID, allowed : 0 .. CAPACITY]]
        BY <2>1 DEF IInv, TypeOK
      <3> QED BY <1>2, <2>1, <3>1, <3>2, SMTT(30) DEF IInv, TypeOK, receiver_vars
    <2>4. SenderInv'
      BY <1>1, <1>3, <2>1, <2>2, SMTT(30) DEF IInv, SenderInv
    <2>5. LockInv' /\ IndexInv'
      BY <1>1, <1>2, <1>3, <2>1 DEF IInv, LockInv, IndexInv, receiver_vars, InFlight
    <2>6. Counted'
      BY <1>1, <1>2, <2>1, CountMove DEF IInv, InFlight
    <2>7. SlotsInv' /\ ReceiverInv' /\ Budget' /\ CurrentBank' /\ OpenForBank' /\ Drained'
      <3>1. record'[s].slots = {}
        BY <1>1, <2>1 DEF IInv, SenderInv
      <3> QED BY <1>1, <1>2, <2>1, <3>1, SenderMove
    <2> QED BY <2>3, <2>4, <2>5, <2>6, <2>7 DEF IInv
  <1> QED BY <1>4, <1>5

\* The sender is counted before it reserves.
LEMMA IncrementInv ==
    ASSUME IInv, NEW s \in Senders, Increment(s)
    PROVE  IInv'
  <1>1. /\ pc' = [pc EXCEPT ![s] = "reserve"] /\ pc[s] = "increment"
        /\ active_senders' = active_senders + 1
    BY DEF Increment, Goto
  <1>2. pc'[s] = "reserve" /\ \A t \in Senders : t # s => pc'[t] = pc[t]
    BY <1>1 DEF IInv, TypeOK
  <1>3. UNCHANGED <<word, channel, index_lock, transaction_indexes, record, loaded, at,
                    enqueued, receiver_vars>>
    BY DEF Increment, ReceiverIdle
  <1>4. Counted' /\ active_senders' \in Nat
    BY <1>1, CountMove DEF IInv, InFlight
  <1>5. TypeOK'
    <2>1. pc' \in [Senders -> {"idle", "lock", "load", "increment", "index"} \cup InFlight]
      BY <1>1 DEF IInv, TypeOK, InFlight
    <2> QED BY <1>3, <1>4, <2>1, SMTT(30) DEF IInv, TypeOK, receiver_vars
  <1>6. SenderInv'
    BY <1>1, <1>2, <1>3 DEF IInv, SenderInv
  <1>7. LockInv' /\ IndexInv'
    BY <1>1, <1>2, <1>3 DEF IInv, LockInv, IndexInv, receiver_vars, InFlight
  <1>8. SlotsInv' /\ ReceiverInv' /\ Budget' /\ CurrentBank' /\ OpenForBank' /\ Drained'
    <2>1. record'[s].slots = {}
      BY <1>1, <1>3 DEF IInv, SenderInv
    <2> QED BY <1>1, <1>3, <2>1, SenderMove
  <1> QED BY <1>4, <1>5, <1>6, <1>7, <1>8 DEF IInv

\* What a reservation that succeeds does: the word still is the one that was
\* loaded, so it is open for the record's bank, and as many free slots as the
\* record has batches are taken.
LEMMA Reserved ==
    ASSUME IInv, NEW s \in Senders, Reserve(s), word = loaded[s]
    PROVE  /\ ~is_shutdown /\ word.bank_id = record[s].bank
           /\ record[s] \in AcceptedRecord /\ record[s].slots = {}
           /\ word.allowed >= record[s].batches
           /\ word' = encoded_value(word.bank_id, word.allowed - record[s].batches)
           /\ record'[s] = [record[s] EXCEPT !.slots = record'[s].slots]
           /\ record' = [record EXCEPT ![s] = record'[s]]
           /\ record'[s].slots \in SUBSET (Slots \ Occupied)
           /\ Cardinality(record'[s].slots) = record[s].batches
           /\ pc' = [pc EXCEPT ![s] = "send"]
  <1>1. pc[s] = "reserve"
    BY DEF Reserve
  <1>2. /\ record[s] \in AcceptedRecord /\ record[s].slots = {}
        /\ word.bank_id = record[s].bank /\ word.allowed >= record[s].batches
    BY <1>1 DEF IInv, SenderInv
  <1>3. ~is_shutdown
    BY <1>2, Fields, SMTT(30) DEF is_shutdown, AcceptedRecord
  <1> DEFINE T == Pick(Slots \ Occupied, record[s].batches)
  <1>4. /\ word' = encoded_value(word.bank_id, word.allowed - record[s].batches)
        /\ record' = [record EXCEPT ![s].slots = T]
        /\ pc' = [pc EXCEPT ![s] = "send"]
    BY DEF Reserve, Goto
  <1>5. T \in SUBSET (Slots \ Occupied) /\ Cardinality(T) = record[s].batches
    <2>1. record[s].batches \in Nat /\ word.allowed \in Nat
      BY <1>2, SMTT(30) DEF IInv, TypeOK, AcceptedRecord
    <2>2. record[s].batches <= Cardinality(Slots \ Occupied)
      <3>1. Cardinality(Slots \ Occupied) = CAPACITY - Cardinality(Occupied)
        BY OccupiedSlots, Adding
      <3>2. word.allowed + Cardinality(Occupied) = CAPACITY
        BY <1>3 DEF IInv, Budget
      <3> QED BY <1>2, <2>1, <3>1, <3>2, OccupiedSlots, Fields, SMTT(30)
    <2> QED BY <2>1, <2>2, PickSome
  <1> HIDE DEF T
  <1>6. record'[s] = [record[s] EXCEPT !.slots = T] /\ record'[s].slots = T
          /\ record' = [record EXCEPT ![s] = record'[s]]
    BY <1>2, <1>4 DEF IInv, TypeOK, AcceptedRecord
  <1> QED BY <1>2, <1>3, <1>4, <1>5, <1>6

\* A reservation either takes free slots for the open bank, or changes nothing.
LEMMA ReserveInv ==
    ASSUME IInv, NEW s \in Senders, Reserve(s)
    PROVE  IInv'
  <1>1. pc[s] = "reserve" /\ loaded' = [loaded EXCEPT ![s] = SHUTDOWN]
    BY DEF Reserve
  <1>2. UNCHANGED <<active_senders, channel, index_lock, transaction_indexes, at, enqueued,
                    receiver_vars>>
    BY DEF Reserve, ReceiverIdle
  <1>3. loaded' \in [Senders -> [bank_id : 0 .. DISABLED_BANK_ID, allowed : 0 .. CAPACITY]]
    BY <1>1, Fields DEF IInv, TypeOK, Word
  <1>4. \A t \in Senders : t # s => loaded'[t] = loaded[t]
    BY <1>1 DEF IInv, TypeOK
  <1>5. CASE word # loaded[s]
    <2>1. pc' = [pc EXCEPT ![s] = "again"] /\ word' = word /\ record' = record
      BY <1>5 DEF Reserve, Goto
    <2>2. pc'[s] = "again" /\ \A t \in Senders : t # s => pc'[t] = pc[t]
      BY <2>1 DEF IInv, TypeOK
    <2>3. TypeOK'
      <3>1. pc' \in [Senders -> {"idle", "lock", "load", "increment", "index"} \cup InFlight]
        BY <2>1 DEF IInv, TypeOK, InFlight
      <3> QED BY <1>2, <1>3, <2>1, <3>1, SMTT(60) DEF IInv, TypeOK, receiver_vars
    <2>4. SenderInv'
      BY <1>1, <1>4, <2>1, <2>2 DEF IInv, SenderInv
    <2>5. LockInv' /\ IndexInv'
      BY <1>1, <1>2, <2>1, <2>2 DEF IInv, LockInv, IndexInv, receiver_vars, InFlight
    <2>6. Counted'
      BY <1>1, <1>2, <2>1, CountMove DEF IInv, InFlight
    <2>7. SlotsInv' /\ ReceiverInv' /\ Budget' /\ CurrentBank' /\ OpenForBank' /\ Drained'
      <3>1. record'[s].slots = {}
        BY <1>1, <2>1 DEF IInv, SenderInv
      <3> QED BY <1>1, <1>2, <2>1, <3>1, SenderMove
    <2> QED BY <2>3, <2>4, <2>5, <2>6, <2>7 DEF IInv
  <1>6. CASE word = loaded[s]
    <2>1. PICK T \in SUBSET (Slots \ Occupied) :
            /\ Cardinality(T) = record[s].batches
            /\ record'[s] = [record[s] EXCEPT !.slots = T]
            /\ record' = [record EXCEPT ![s] = record'[s]]
      BY <1>6, Reserved
    <2>2. /\ ~is_shutdown /\ word.bank_id = record[s].bank
          /\ record[s] \in AcceptedRecord /\ record[s].slots = {}
          /\ word.allowed >= record[s].batches
          /\ word' = [bank_id |-> word.bank_id, allowed |-> word.allowed - record[s].batches]
          /\ pc' = [pc EXCEPT ![s] = "send"]
      BY <1>6, Reserved DEF encoded_value
    <2>3. pc'[s] = "send" /\ \A t \in Senders : t # s => pc'[t] = pc[t]
      BY <2>2 DEF IInv, TypeOK
    <2>4. /\ record'[s] \in AcceptedRecord /\ record'[s].slots = T
          /\ record'[s].batches = record[s].batches /\ record'[s].bank = record[s].bank
          /\ record'[s].txs = record[s].txs
          /\ \A t \in Senders : t # s => record'[t] = record[t]
      BY <2>1, <2>2 DEF IInv, TypeOK, AcceptedRecord
    <2>5. TypeOK'
      <3>1. pc' \in [Senders -> {"idle", "lock", "load", "increment", "index"} \cup InFlight]
        BY <2>2 DEF IInv, TypeOK, InFlight
      <3>2. record' \in [Senders -> AcceptedRecord \cup {NoRecord}]
        BY <2>1, <2>4 DEF IInv, TypeOK
      <3>3. word' \in [bank_id : 0 .. DISABLED_BANK_ID, allowed : 0 .. CAPACITY]
        BY <2>2, Fields, SMTT(30) DEF IInv, TypeOK, AcceptedRecord
      <3>4. /\ active_senders' \in Nat /\ channel' \in Seq(AcceptedRecord)
            /\ index_lock' \in Senders \cup {None, Receiver}
            /\ transaction_indexes' \in Nat /\ enqueued' \in Nat /\ at' \in [Senders -> Nat]
        BY <1>2 DEF IInv, TypeOK
      <3>5. UNCHANGED receiver_vars /\ TypeOK
        BY <1>2 DEF IInv
      <3> QED BY <1>3, <3>1, <3>2, <3>3, <3>4, <3>5 DEF TypeOK, receiver_vars
    <2>6. SenderInv'
      BY <1>4, <2>1, <2>3, <2>4 DEF IInv, SenderInv
    <2>7. LockInv'
      BY <1>1, <1>2, <2>3 DEF IInv, LockInv, receiver_vars, InFlight
    <2>8. IndexInv'
      BY <1>1, <1>2, <2>3, <2>4 DEF IInv, IndexInv, receiver_vars
    <2>9. Counted'
      BY <1>1, <1>2, <2>2, CountMove DEF IInv, InFlight
    <2>10. \A x \in T : /\ \A t \in Senders : x \notin record[t].slots
                        /\ \A i \in DOMAIN channel : x \notin channel[i].slots
                        /\ x \notin received.slots
      BY <2>1 DEF Occupied
    <2>11. SlotsInv'
      <3>1. channel' = channel /\ received' = received
        BY <1>2 DEF receiver_vars
      <3>2. \A t \in Senders : record'[t].slots = IF t = s THEN T ELSE record[t].slots
        BY <2>4
      <3>3. \A t \in Senders : t # s => T \cap record[t].slots = {}
        BY <2>10
      <3>4. (\A i \in DOMAIN channel : channel[i].slots \cap T = {}) /\ T \cap received.slots = {}
        BY <2>10
      <3>5. \A t, u \in Senders : t # u => record'[t].slots \cap record'[u].slots = {}
        BY <3>2, <3>3 DEF IInv, SlotsInv
      <3>6. \A t \in Senders : record'[t].slots \cap received'.slots = {}
        BY <3>1, <3>2, <3>4 DEF IInv, SlotsInv
      <3>7. \A i \in DOMAIN channel' : \A t \in Senders :
                channel'[i].slots \cap record'[t].slots = {}
        BY <3>1, <3>2, <3>4 DEF IInv, SlotsInv
      <3> QED BY <3>1, <3>5, <3>6, <3>7 DEF IInv, SlotsInv
    <2>12. is_shutdown' = is_shutdown
      BY <2>2 DEF is_shutdown
    <2>13. ReceiverInv' /\ Drained'
      BY <1>2, <2>2, <2>3, <2>12 DEF IInv, ReceiverInv, Drained, receiver_vars
    <2>14. Budget'
      <3>1. Occupied' = Occupied \cup T
        BY <1>2, <2>1, <2>2, <2>4 DEF Occupied, receiver_vars
      <3>2. Cardinality(Occupied \cup T) = Cardinality(Occupied) + Cardinality(T)
        BY <2>1, OccupiedSlots, Adding
      <3>3. word.allowed \in Nat /\ record[s].batches \in Nat
        BY <2>2, SMTT(30) DEF IInv, TypeOK, AcceptedRecord
      <3> QED BY <2>1, <2>2, <2>12, <3>1, <3>2, <3>3, OccupiedSlots, Fields, SMTT(30) DEF IInv, Budget
    <2>15. CurrentBank' /\ OpenForBank'
      BY <1>2, <2>2, <2>3, <2>4 DEF IInv, CurrentBank, OpenForBank, receiver_vars, is_shutdown
    <2> QED BY <2>5, <2>6, <2>7, <2>8, <2>9, <2>11, <2>13, <2>14, <2>15 DEF IInv
  <1> QED BY <1>5, <1>6

\* A sender that lost the race is not counted any more, and has no mutex.
LEMMA AgainInv ==
    ASSUME IInv, NEW s \in Senders, Again(s)
    PROVE  IInv'
  <1>1. PICK l \in {"lock", "load"} : pc' = [pc EXCEPT ![s] = l] /\ (Track => l = "lock")
    BY DEF Again, Goto
  <1>2. /\ pc[s] = "again" /\ active_senders' = active_senders - 1
        /\ index_lock' = IF Track THEN None ELSE index_lock
    BY DEF Again, Unlock
  <1>3. pc'[s] = l /\ \A t \in Senders : t # s => pc'[t] = pc[t]
    BY <1>1 DEF IInv, TypeOK
  <1>4. UNCHANGED <<word, channel, transaction_indexes, record, loaded, at, enqueued,
                    receiver_vars>>
    BY DEF Again, ReceiverIdle
  <1>5. Counted' /\ active_senders' \in Nat
    BY <1>1, <1>2, CountMove DEF IInv, InFlight
  <1>6. TypeOK'
    <2>1. pc' \in [Senders -> {"idle", "lock", "load", "increment", "index"} \cup InFlight]
      BY <1>1 DEF IInv, TypeOK
    <2>2. index_lock' \in Senders \cup {None, Receiver}
      BY <1>2 DEF IInv, TypeOK
    <2> QED BY <1>4, <1>5, <2>1, <2>2 DEF IInv, TypeOK, receiver_vars
  <1>7. SenderInv'
    BY <1>2, <1>3, <1>4 DEF IInv, SenderInv
  <1>8. LockInv'
    <2>1. Track => index_lock = s
      BY <1>2 DEF IInv, LockInv, InFlight
    <2>2. s # Receiver
      BY SendersAssumption DEF Receiver
    <2> QED BY <1>1, <1>2, <1>3, <1>4, <2>1, <2>2 DEF IInv, LockInv, receiver_vars, InFlight
  <1>9. IndexInv'
    BY <1>2, <1>3, <1>4 DEF IInv, IndexInv, receiver_vars
  <1>10. SlotsInv' /\ ReceiverInv' /\ Budget' /\ CurrentBank' /\ OpenForBank' /\ Drained'
    <2>1. record'[s].slots = {} /\ l # "send"
      BY <1>2, <1>4 DEF IInv, SenderInv
    <2> QED BY <1>1, <1>2, <1>4, <2>1, SenderMove
  <1> QED BY <1>5, <1>6, <1>7, <1>8, <1>9, <1>10 DEF IInv

\* The record moves from its sender to the end of the channel, and its slots with it.
LEMMA SendInv ==
    ASSUME IInv, NEW s \in Senders, Send(s)
    PROVE  IInv'
  <1>1. /\ pc[s] = "send" /\ pc' = [pc EXCEPT ![s] = "decrement"]
        /\ channel' = Append(channel, record[s])
        /\ record' = [record EXCEPT ![s].slots = {}]
        /\ at' = [at EXCEPT ![s] = enqueued] /\ enqueued' = enqueued + record[s].txs
    BY DEF Send, Goto
  <1>2. UNCHANGED <<word, active_senders, index_lock, transaction_indexes, loaded, receiver_vars>>
    BY DEF Send, ReceiverIdle
  <1>3. pc'[s] = "decrement" /\ \A t \in Senders : t # s => pc'[t] = pc[t]
    BY <1>1 DEF IInv, TypeOK
  <1>4. record[s] \in AcceptedRecord /\ Cardinality(record[s].slots) = record[s].batches
          /\ record[s].txs \in Nat /\ record[s].bank = bank
    BY <1>1 DEF IInv, SenderInv, CurrentBank, AcceptedRecord
  <1>5. /\ record'[s] = [record[s] EXCEPT !.slots = {}]
        /\ record'[s] \in AcceptedRecord /\ record'[s].slots = {}
        /\ record'[s].txs = record[s].txs
        /\ \A t \in Senders : t # s => record'[t] = record[t]
    BY <1>1, <1>4 DEF IInv, TypeOK, AcceptedRecord
  <1>6. at'[s] = enqueued /\ \A t \in Senders : t # s => at'[t] = at[t]
    BY <1>1 DEF IInv, TypeOK
  <1>7. PICK n \in Nat : n = Len(channel) /\ DOMAIN channel = 1 .. n
    BY SMTT(30) DEF IInv, TypeOK
  <1>8. /\ channel' \in Seq(AcceptedRecord) /\ DOMAIN channel' = 1 .. n + 1
        /\ channel'[n + 1] = record[s] /\ \A i \in 1 .. n : channel'[i] = channel[i]
    BY <1>1, <1>4, <1>7, SMTT(30) DEF IInv, TypeOK
  <1>9. \A i \in 1 .. n + 1 : i \in 1 .. n \/ i = n + 1
    BY <1>7, SMTT(30)
  <1>10. TypeOK'
    <2>1. pc' \in [Senders -> {"idle", "lock", "load", "increment", "index"} \cup InFlight]
      BY <1>1 DEF IInv, TypeOK, InFlight
    <2>2. record' \in [Senders -> AcceptedRecord \cup {NoRecord}]
      BY <1>1, <1>5 DEF IInv, TypeOK
    <2>3. at' \in [Senders -> Nat] /\ enqueued' \in Nat
      <3>1. at \in [Senders -> Nat] /\ enqueued \in Nat
        BY DEF IInv, TypeOK
      <3>2. at' = [at EXCEPT ![s] = enqueued] /\ enqueued' = enqueued + record[s].txs
        BY <1>1
      <3>3. record[s].txs \in Nat
        BY <1>4
      <3> QED BY ONLY <3>1, <3>2, <3>3, SMTT(30)
    <2> QED BY <1>2, <1>8, <2>1, <2>2, <2>3, SMTT(60) DEF IInv, TypeOK, receiver_vars
  <1>11. SenderInv'
    BY <1>2, <1>3, <1>5 DEF IInv, SenderInv
  <1>12. Counted'
    BY <1>1, <1>2, CountMove DEF IInv, InFlight
  <1>13. LockInv'
    BY <1>1, <1>2, <1>3 DEF IInv, LockInv, receiver_vars, InFlight
  <1>14. SlotsInv'
    <2>1. \A i \in DOMAIN channel' : Cardinality(channel'[i].slots) = channel'[i].batches
      BY <1>4, <1>7, <1>8, <1>9 DEF IInv, SlotsInv
    <2>2. \A i, j \in DOMAIN channel' : i # j => channel'[i].slots \cap channel'[j].slots = {}
      BY <1>7, <1>8, <1>9, SMTT(30) DEF IInv, SlotsInv
    <2>3. \A i \in DOMAIN channel' : \A t \in Senders :
              channel'[i].slots \cap record'[t].slots = {}
      <3> SUFFICES ASSUME NEW i \in DOMAIN channel', NEW t \in Senders, t # s
                   PROVE  channel'[i].slots \cap record'[t].slots = {}
        BY <1>5
      <3>1. CASE i \in 1 .. n
        BY <1>5, <1>7, <1>8, <3>1 DEF IInv, SlotsInv
      <3>2. CASE i = n + 1
        BY <1>5, <1>8, <3>2 DEF IInv, SlotsInv
      <3> QED BY <1>8, <1>9, <3>1, <3>2
    <2>4. \A i \in DOMAIN channel' : channel'[i].slots \cap received'.slots = {}
      BY <1>2, <1>7, <1>8, <1>9 DEF IInv, SlotsInv, receiver_vars
    <2>5. /\ \A t, u \in Senders : t # u => record'[t].slots \cap record'[u].slots = {}
          /\ \A t \in Senders : record'[t].slots \cap received'.slots = {}
      BY <1>2, <1>5 DEF IInv, SlotsInv, receiver_vars
    <2> QED BY <2>1, <2>2, <2>3, <2>4, <2>5 DEF SlotsInv
  <1>15. Budget'
    <2>1. \A x \in Slots : (\E i \in DOMAIN channel' : x \in channel'[i].slots)
                             <=> x \in record[s].slots \/ \E i \in DOMAIN channel : x \in channel[i].slots
      <3>1. n + 1 \in DOMAIN channel'
        BY <1>7, <1>8, SMTT(30)
      <3>2. \A i \in 1 .. n : i \in 1 .. n + 1
        BY <1>7, SMTT(30)
      <3> QED BY <1>7, <1>8, <1>9, <3>1, <3>2
    <2>2. \A x \in Slots : (\E t \in Senders : x \in record[t].slots)
                             <=> x \in record[s].slots \/ \E t \in Senders : x \in record'[t].slots
      BY <1>5
    <2>3. Occupied' = Occupied
      BY <1>2, <2>1, <2>2 DEF Occupied, receiver_vars
    <2> QED BY <1>2, <2>3 DEF IInv, Budget, is_shutdown
  <1>16. CurrentBank'
    BY <1>2, <1>3, <1>4, <1>5, <1>7, <1>8, <1>9, SMTT(30) DEF IInv, CurrentBank, receiver_vars
  <1>17. ReceiverInv' /\ OpenForBank' /\ Drained'
    BY <1>1, <1>2, <1>3 DEF IInv, ReceiverInv, OpenForBank, Drained, receiver_vars, is_shutdown
  <1>18. IndexInv'
    <2> SUFFICES ASSUME Track PROVE IndexInv'
      BY DEF IndexInv
    <2>1. index_lock = s /\ s # Receiver
      BY <1>1, SendersAssumption DEF IInv, LockInv, InFlight, Receiver
    <2>2. rpc # "store" /\ \A t \in Senders : t # s => pc[t] \notin {"decrement", "index"}
      BY <2>1 DEF IInv, LockInv, InFlight
    <2>3. enqueued = transaction_indexes
      BY <1>1, <2>2 DEF IInv, IndexInv
    <2> QED BY <1>1, <1>2, <1>3, <1>5, <1>6, <2>2, <2>3 DEF IndexInv, receiver_vars
  <1> QED BY <1>10, <1>11, <1>12, <1>13, <1>14, <1>15, <1>16, <1>17, <1>18 DEF IInv

\* The sender is not counted any more; its record is in the channel.
LEMMA DecrementInv ==
    ASSUME IInv, NEW s \in Senders, Decrement(s)
    PROVE  IInv'
  <1>1. /\ pc' = [pc EXCEPT ![s] = "index"] /\ pc[s] = "decrement"
        /\ active_senders' = active_senders - 1
    BY DEF Decrement, Goto
  <1>2. pc'[s] = "index" /\ \A t \in Senders : t # s => pc'[t] = pc[t]
    BY <1>1 DEF IInv, TypeOK
  <1>3. UNCHANGED <<word, channel, index_lock, transaction_indexes, record, loaded, at,
                    enqueued, receiver_vars>>
    BY DEF Decrement, ReceiverIdle
  <1>4. Counted' /\ active_senders' \in Nat
    BY <1>1, CountMove DEF IInv, InFlight
  <1>5. TypeOK'
    <2>1. pc' \in [Senders -> {"idle", "lock", "load", "increment", "index"} \cup InFlight]
      BY <1>1 DEF IInv, TypeOK
    <2> QED BY <1>3, <1>4, <2>1, SMTT(30) DEF IInv, TypeOK, receiver_vars
  <1>6. SenderInv'
    BY <1>1, <1>2, <1>3 DEF IInv, SenderInv
  <1>7. LockInv' /\ IndexInv'
    BY <1>1, <1>2, <1>3 DEF IInv, LockInv, IndexInv, receiver_vars, InFlight
  <1>8. SlotsInv' /\ ReceiverInv' /\ Budget' /\ CurrentBank' /\ OpenForBank' /\ Drained'
    <2>1. record'[s].slots = {}
      BY <1>1, <1>3 DEF IInv, SenderInv
    <2> QED BY <1>1, <1>3, <2>1, SenderMove
  <1> QED BY <1>4, <1>5, <1>6, <1>7, <1>8 DEF IInv

\* The counter catches up with the channel before the mutex is released.
LEMMA IndexStepInv ==
    ASSUME IInv, NEW s \in Senders, Index(s)
    PROVE  IInv'
  <1>1. /\ pc' = [pc EXCEPT ![s] = "idle"] /\ pc[s] = "index"
        /\ record' = [record EXCEPT ![s] = NoRecord] /\ at' = [at EXCEPT ![s] = 0]
        /\ index_lock' = IF Track THEN None ELSE index_lock
        /\ transaction_indexes' = IF Track THEN transaction_indexes + record[s].txs
                                  ELSE transaction_indexes
    BY DEF Index, Goto, Unlock
  <1>2. UNCHANGED <<word, active_senders, channel, loaded, enqueued, receiver_vars>>
    BY DEF Index, ReceiverIdle
  <1>3. pc'[s] = "idle" /\ \A t \in Senders : t # s => pc'[t] = pc[t]
    BY <1>1 DEF IInv, TypeOK
  <1>4. record'[s] = NoRecord /\ \A t \in Senders : t # s => record'[t] = record[t] /\ at'[t] = at[t]
    BY <1>1 DEF IInv, TypeOK
  <1>5. record[s].txs \in Nat
    BY <1>1 DEF IInv, SenderInv, AcceptedRecord
  <1>6. TypeOK'
    <2>1. pc' \in [Senders -> {"idle", "lock", "load", "increment", "index"} \cup InFlight]
      BY <1>1 DEF IInv, TypeOK
    <2>2. record' \in [Senders -> AcceptedRecord \cup {NoRecord}] /\ at' \in [Senders -> Nat]
      BY <1>1 DEF IInv, TypeOK
    <2>3. index_lock' \in Senders \cup {None, Receiver} /\ transaction_indexes' \in Nat
      <3>1. /\ index_lock \in Senders \cup {None, Receiver} /\ transaction_indexes \in Nat
            /\ index_lock' \in {None, index_lock}
            /\ transaction_indexes' \in {transaction_indexes, transaction_indexes + record[s].txs}
        BY <1>1 DEF IInv, TypeOK
      <3> QED BY ONLY <1>5, <3>1, SMTT(30)
    <2>4. UNCHANGED receiver_vars /\ TypeOK
      BY <1>2 DEF IInv
    <2> QED BY <1>2, <2>1, <2>2, <2>3, <2>4 DEF TypeOK, receiver_vars
  <1>7. SenderInv'
    <2> SUFFICES ASSUME NEW t \in Senders
                 PROVE  /\ pc'[t] # "idle" => record'[t] \in AcceptedRecord
                        /\ pc'[t] # "send" => record'[t].slots = {}
                        /\ pc'[t] = "send" => Cardinality(record'[t].slots) = record'[t].batches
                        /\ pc'[t] \in {"increment", "reserve"} =>
                               /\ loaded[t].bank_id = record'[t].bank
                               /\ loaded[t].allowed >= record'[t].batches
      BY <1>2 DEF SenderInv
    <2>1. CASE t = s
      BY <1>3, <1>4, <2>1, NewRecords
    <2>2. CASE t # s
      <3>1. pc'[t] = pc[t] /\ record'[t] = record[t]
        BY <1>3, <1>4, <2>2
      <3> QED BY <3>1 DEF IInv, SenderInv
    <2> QED BY <2>1, <2>2
  <1>8. Counted'
    BY <1>1, <1>2, CountMove DEF IInv, InFlight
  <1>9. Track => index_lock = s /\ s # Receiver
    BY <1>1, SendersAssumption DEF IInv, LockInv, Receiver
  <1>10. LockInv'
    BY <1>1, <1>2, <1>3, <1>9 DEF IInv, LockInv, receiver_vars, InFlight
  <1>11. IndexInv'
    <2> SUFFICES ASSUME Track PROVE IndexInv'
      BY DEF IndexInv
    <2>1. rpc # "store" /\ \A t \in Senders : t # s => pc[t] \notin {"decrement", "index"}
      BY <1>9 DEF IInv, LockInv, InFlight
    <2>2. enqueued = transaction_indexes + record[s].txs
      BY <1>1 DEF IInv, IndexInv
    <2> QED BY <1>1, <1>2, <1>3, <2>1, <2>2 DEF IndexInv, receiver_vars
  <1>12. SlotsInv' /\ ReceiverInv' /\ Budget' /\ CurrentBank' /\ OpenForBank' /\ Drained'
    BY <1>1, <1>2, <1>4, NewRecords, SenderMove
  <1> QED BY <1>6, <1>7, <1>8, <1>10, <1>11, <1>12 DEF IInv


-----------------------------------------------------------------------------
(* The receiver, step by step.                                             *)

\* At the top of the loop nothing is in the receiver's hands; a message or the
\* exit flag shuts the channel.
LEMMA TopInv ==
    ASSUME IInv, Top
    PROVE  IInv'
  <1>1. /\ rpc = "top" /\ rpc' = "work" /\ word' \in {word, SHUTDOWN}
        /\ should_exit' \in {should_exit, TRUE}
        /\ message' \in {NoBank, ResetMessage} \cup (bank + 1 .. MAX_BANK_ID)
        /\ should_exit' \/ message' # NoBank => word' = SHUTDOWN
    BY DEF Top, shutdown
  <1>2. /\ UNCHANGED <<active_senders, channel, index_lock, transaction_indexes, sender_vars,
                       enqueued>>
        /\ UNCHANGED <<sender_active, received, bank>>
    BY DEF Top, SendersIdle
  <1>3. TypeOK'
    <2>1. message' \in {NoBank, ResetMessage} \cup 0 .. MAX_BANK_ID
      BY <1>1, Fields, SMTT(30) DEF IInv, TypeOK, NoBank
    <2>2. word' \in [bank_id : 0 .. DISABLED_BANK_ID, allowed : 0 .. CAPACITY]
      BY <1>1, Fields DEF IInv, TypeOK, Word
    <2>3. should_exit' \in BOOLEAN
      BY <1>1 DEF IInv, TypeOK
    <2> QED BY <1>1, <1>2, <2>1, <2>2, <2>3 DEF IInv, TypeOK, sender_vars
  <1>4. SenderInv' /\ Counted' /\ SlotsInv' /\ Budget' /\ CurrentBank' /\ OpenForBank'
    BY <1>1, <1>2, ReceiverMove
  <1>5. LockInv' /\ IndexInv' /\ Drained'
    BY <1>1, <1>2 DEF IInv, LockInv, IndexInv, Drained, sender_vars
  <1>6. ReceiverInv'
    BY <1>1, <1>2, Fields DEF IInv, TypeOK, ReceiverInv, is_shutdown
  <1> QED BY <1>3, <1>4, <1>5, <1>6 DEF IInv

\* Steps of the receiver that only decide where it goes on, or shut the channel.
LEMMA QuietInv ==
    ASSUME IInv, NEW l,
           rpc' = l, l \in {"work", "recv", "try", "reload", "check", "end", "top"},
           rpc \notin {"account", "restart", "store", "unlock", "panic", "done"},
           word' \in {word, SHUTDOWN},
           received' = NoRecord,
           l \in {"end", "top"} => message' = NoBank,
           message' = message \/ message' = NoBank,
           sender_active' \in BOOLEAN,
           UNCHANGED <<active_senders, channel, index_lock, transaction_indexes, sender_vars,
                       enqueued, should_exit, bank>>
    PROVE  IInv'
  <1>1. TypeOK'
    <2>1. word' \in [bank_id : 0 .. DISABLED_BANK_ID, allowed : 0 .. CAPACITY]
      BY Fields DEF IInv, TypeOK, Word
    <2>2. message' \in {NoBank, ResetMessage} \cup 0 .. MAX_BANK_ID
      BY DEF IInv, TypeOK
    <2> QED BY <2>1, <2>2 DEF IInv, TypeOK, sender_vars
  <1>2. SenderInv' /\ Counted' /\ SlotsInv' /\ Budget' /\ CurrentBank' /\ OpenForBank'
    <2>1. received'.slots = received.slots
      BY NewRecords DEF IInv, ReceiverInv
    <2> QED BY <2>1, ReceiverMove
  <1>3. LockInv' /\ IndexInv' /\ Drained'
    BY DEF IInv, LockInv, IndexInv, Drained, sender_vars
  <1>4. ReceiverInv'
    BY Fields, NewRecords DEF IInv, ReceiverInv, is_shutdown, sender_vars
  <1> QED BY <1>1, <1>2, <1>3, <1>4 DEF IInv

\* Hashing, and the loads of try_recv.
LEMMA HashInv ==
    ASSUME IInv, Hash("recv") \/ Hash("check") \/ LoadActive
    PROVE  IInv'
  <1>1. CASE Hash("recv") \/ Hash("check")
    <2>1. received = NoRecord /\ sender_active \in BOOLEAN
      BY <1>1 DEF Hash, IInv, ReceiverInv, TypeOK
    <2>2. /\ rpc = "work" /\ rpc' \in {"recv", "check"} /\ word' \in {word, SHUTDOWN}
          /\ UNCHANGED <<active_senders, channel, index_lock, transaction_indexes, sender_vars,
                         enqueued, should_exit, bank>>
          /\ UNCHANGED <<message, received, sender_active>>
      BY <1>1 DEF Hash, shutdown, SendersIdle
    <2> QED BY <2>1, <2>2, QuietInv
  <1>2. CASE LoadActive
    <2>1. received = NoRecord
      BY <1>2 DEF LoadActive, IInv, ReceiverInv
    <2>2. /\ rpc \in {"recv", "reload"} /\ rpc' = "try" /\ sender_active' \in BOOLEAN
          /\ UNCHANGED <<active_senders, channel, index_lock, transaction_indexes, sender_vars,
                         enqueued, should_exit, bank>>
          /\ UNCHANGED <<message, received, word>>
      BY <1>2, SMTT(30) DEF LoadActive, SendersIdle
    <2> QED BY <2>1, <2>2, QuietInv, SMTT(30)
  <1> QED BY <1>1, <1>2

\* The record goes to the recorder; its slots are free already.
LEMMA RecordInv ==
    ASSUME IInv, Record
    PROVE  IInv'
  <1>1. /\ rpc = "record" /\ rpc' = "recv" /\ word' \in {word, SHUTDOWN} /\ received' = NoRecord
        /\ UNCHANGED <<active_senders, channel, index_lock, transaction_indexes, sender_vars,
                       enqueued, should_exit, bank>>
        /\ UNCHANGED <<message, sender_active>>
    BY DEF Record, shutdown, SendersIdle
  <1>2. sender_active' \in BOOLEAN
    BY <1>1 DEF IInv, TypeOK
  <1> QED BY <1>1, <1>2, QuietInv, SMTT(30)

\* A record that is taken out keeps its slots until it is accounted for.
LEMMA TryRecvInv ==
    ASSUME IInv, TryRecv
    PROVE  IInv'
  <1>1. CASE channel = <<>>
    <2>1. /\ rpc = "try" /\ rpc' \in {"reload", "check"}
          /\ UNCHANGED <<active_senders, channel, index_lock, transaction_indexes, sender_vars,
                         enqueued, should_exit, bank>>
          /\ UNCHANGED <<message, received, word, sender_active>>
      BY <1>1 DEF TryRecv, SendersIdle
    <2>2. received = NoRecord /\ sender_active \in BOOLEAN
      BY <2>1 DEF IInv, ReceiverInv, TypeOK
    <2> QED BY <2>1, <2>2, QuietInv
  <1>2. CASE channel # <<>>
    <2>1. /\ rpc = "try" /\ rpc' = "account" /\ received' = Head(channel)
          /\ channel' = Tail(channel) /\ sender_active' = FALSE
          /\ UNCHANGED <<active_senders, index_lock, transaction_indexes, sender_vars, enqueued>>
          /\ UNCHANGED <<word, message, should_exit, bank>>
      BY <1>2 DEF TryRecv, SendersIdle
    <2>2. PICK n \in Nat : n = Len(channel) /\ DOMAIN channel = 1 .. n /\ n > 0
      BY <1>2, SMTT(30) DEF IInv, TypeOK
    <2>3. /\ channel' \in Seq(AcceptedRecord) /\ DOMAIN channel' = 1 .. n - 1
          /\ \A i \in 1 .. n - 1 : channel'[i] = channel[i + 1]
      BY <1>2, <2>1, <2>2, SMTT(30) DEF IInv, TypeOK
    <2>4. received' = channel[1] /\ channel[1] \in AcceptedRecord
      BY <1>2, <2>1, <2>2, SMTT(30) DEF IInv, TypeOK
    <2>5. 1 \in 1 .. n /\ \A i \in 1 .. n - 1 : i + 1 \in 1 .. n /\ i + 1 # 1
      BY <2>2, SMTT(30)
    <2>6. received = NoRecord /\ received.slots = {}
      BY <2>1, NewRecords DEF IInv, ReceiverInv
    <2>7. TypeOK'
      BY <2>1, <2>3, <2>4 DEF IInv, TypeOK, sender_vars
    <2>8. SenderInv' /\ Counted' /\ LockInv' /\ IndexInv'
      BY <2>1 DEF IInv, SenderInv, Counted, LockInv, IndexInv, sender_vars
    <2>9. SlotsInv'
      <3>1. \A i \in DOMAIN channel' : Cardinality(channel'[i].slots) = channel'[i].batches
        BY <2>2, <2>3, <2>5 DEF IInv, SlotsInv
      <3>2. \A i, j \in DOMAIN channel' : i # j => channel'[i].slots \cap channel'[j].slots = {}
        <4> SUFFICES ASSUME NEW i \in 1 .. n - 1, NEW j \in 1 .. n - 1, i # j
                     PROVE  channel'[i].slots \cap channel'[j].slots = {}
          BY <2>3
        <4>1. i + 1 \in 1 .. n /\ j + 1 \in 1 .. n /\ i + 1 # j + 1
          BY <2>2, SMTT(30)
        <4> QED BY <2>2, <2>3, <4>1 DEF IInv, SlotsInv
      <3>3. \A i \in DOMAIN channel' : \A t \in Senders :
                channel'[i].slots \cap record'[t].slots = {}
        BY <2>1, <2>2, <2>3, <2>5, SMTT(30) DEF IInv, SlotsInv, sender_vars
      <3>4. \A i \in DOMAIN channel' : channel'[i].slots \cap received'.slots = {}
        <4> SUFFICES ASSUME NEW i \in 1 .. n - 1
                     PROVE  channel'[i].slots \cap received'.slots = {}
          BY <2>3
        <4>1. i + 1 \in 1 .. n /\ 1 \in 1 .. n /\ i + 1 # 1
          BY <2>5
        <4>2. channel[i + 1].slots \cap channel[1].slots = {}
          BY <2>2, <4>1 DEF IInv, SlotsInv
        <4> QED BY <2>3, <2>4, <4>2
      <3>5. /\ \A t, u \in Senders : t # u => record'[t].slots \cap record'[u].slots = {}
            /\ \A t \in Senders : record'[t].slots \cap received'.slots = {}
        BY <2>1, <2>2, <2>4, <2>5 DEF IInv, SlotsInv, sender_vars
      <3> QED BY <3>1, <3>2, <3>3, <3>4, <3>5 DEF SlotsInv
    <2>10. Budget'
      <3>1. \A x \in Slots : (\E i \in DOMAIN channel : x \in channel[i].slots)
                <=> x \in channel[1].slots \/ \E i \in DOMAIN channel' : x \in channel'[i].slots
        <4>1. \A i \in 1 .. n : i = 1 \/ (i - 1 \in 1 .. n - 1 /\ (i - 1) + 1 = i)
          BY <2>2, SMTT(30)
        <4>2. \A i \in 1 .. n : i = 1 \/ channel'[i - 1] = channel[i]
          BY <2>3, <4>1
        <4> QED BY <2>2, <2>3, <2>5, <4>1, <4>2
      <3>2. Occupied' = Occupied
        BY <2>1, <2>4, <2>6, <3>1 DEF Occupied, sender_vars
      <3> QED BY <2>1, <3>2 DEF IInv, Budget, is_shutdown
    <2>11. CurrentBank'
      BY <2>1, <2>2, <2>3, <2>4, <2>5, SMTT(30) DEF IInv, CurrentBank, sender_vars
    <2>12. OpenForBank' /\ Drained'
      BY <2>1 DEF IInv, OpenForBank, Drained, is_shutdown
    <2>13. ReceiverInv'
      <3>1. Cardinality(received'.slots) = received'.batches
        BY <2>2, <2>4, <2>5 DEF IInv, SlotsInv
      <3> QED BY <2>1, <2>4, <3>1 DEF IInv, ReceiverInv, is_shutdown
    <2> QED BY <2>7, <2>8, <2>9, <2>10, <2>11, <2>12, <2>13 DEF IInv
  <1> QED BY <1>1, <1>2

\* What is given back fits into the word's lower field.
LEMMA NoCarry ==
    ASSUME IInv, on_received_record
    PROVE  /\ received \in AcceptedRecord /\ received.slots \subseteq Occupied
           /\ Cardinality(received.slots) = received.batches
           /\ word' = [bank_id |-> word.bank_id, allowed |-> word.allowed + received.batches]
           /\ word.allowed + received.batches \in 0 .. CAPACITY
  <1>1. rpc = "account" /\ word' = fetch_add(word, received.batches)
    BY DEF on_received_record
  <1>2. /\ received \in AcceptedRecord /\ Cardinality(received.slots) = received.batches
        /\ received.batches \in Nat
    BY <1>1 DEF IInv, ReceiverInv, AcceptedRecord
  <1>3. received.slots \subseteq Occupied
    BY <1>2 DEF Occupied, AcceptedRecord
  <1>4. received.batches <= Cardinality(Occupied)
    BY <1>2, <1>3, OccupiedSlots, SlotCount, FS_Subset
  <1>5. word.allowed \in Nat /\ word.bank_id \in 0 .. DISABLED_BANK_ID
    BY SMTT(30) DEF IInv, TypeOK
  <1>6. word.allowed + Cardinality(Occupied) <= CAPACITY
    BY <1>5, OccupiedSlots, Fields, SMTT(30) DEF IInv, Budget
  <1>7. word.allowed + received.batches \in 0 .. CAPACITY
    BY <1>2, <1>4, <1>5, <1>6, OccupiedSlots, Fields, SMTT(30)
  <1>8. ASSUME NEW x \in Nat, NEW m \in Nat, x < m
        PROVE  x \div m = 0 /\ x % m = x
    BY <1>8, SMTT(30)
  <1>9. /\ (word.allowed + received.batches) \div INSERTIONS = 0
        /\ (word.allowed + received.batches) % INSERTIONS = word.allowed + received.batches
    BY <1>7, <1>8, Fields, SMTT(30)
  <1>10. (word.bank_id + 0) % BANK_IDS = word.bank_id
    BY <1>5, <1>8, Fields, SMTT(30)
  <1> QED BY <1>1, <1>2, <1>3, <1>7, <1>9, <1>10 DEF fetch_add, encoded_value

\* The slots of the record become free, and the allowance grows by as many.
LEMMA AccountInv ==
    ASSUME IInv, on_received_record
    PROVE  IInv'
  <1>1. /\ rpc = "account" /\ rpc' = "record" /\ received' = [received EXCEPT !.slots = {}]
        /\ UNCHANGED <<active_senders, channel, index_lock, transaction_indexes, sender_vars,
                       enqueued>>
        /\ UNCHANGED <<message, sender_active, should_exit, bank>>
    BY DEF on_received_record, SendersIdle
  <1>2. /\ received' \in AcceptedRecord /\ received'.slots = {} /\ received'.bank = received.bank
        /\ received # NoRecord
    BY <1>1, NoCarry, NewRecords DEF AcceptedRecord
  <1>3. TypeOK'
    <2>1. word' \in [bank_id : 0 .. DISABLED_BANK_ID, allowed : 0 .. CAPACITY]
      BY NoCarry, SMTT(30) DEF IInv, TypeOK
    <2> QED BY <1>1, <1>2, <2>1 DEF IInv, TypeOK, sender_vars
  <1>4. SenderInv' /\ Counted' /\ LockInv' /\ IndexInv'
    BY <1>1 DEF IInv, SenderInv, Counted, LockInv, IndexInv, sender_vars
  <1>5. SlotsInv'
    BY <1>1, <1>2 DEF IInv, SlotsInv, sender_vars
  <1>6. is_shutdown' = is_shutdown /\ word'.bank_id = word.bank_id
    BY NoCarry, SMTT(30) DEF is_shutdown
  <1>7. ReceiverInv'
    BY <1>1, <1>2, <1>6 DEF IInv, ReceiverInv, sender_vars
  <1>8. Budget'
    <2>1. Occupied' = Occupied \ received.slots
      BY <1>1, <1>2 DEF IInv, SlotsInv, Occupied, sender_vars
    <2>2. Cardinality(Occupied') = Cardinality(Occupied) - received.batches
      <3>1. received.slots \in SUBSET Slots
        BY NoCarry, OccupiedSlots
      <3> QED BY <2>1, <3>1, NoCarry, OccupiedSlots, Adding
    <2>3. word'.allowed = word.allowed + received.batches /\ word.allowed \in Nat
            /\ received.batches \in Nat
      BY NoCarry, SMTT(30) DEF IInv, TypeOK, AcceptedRecord
    <2> QED BY <1>6, <2>2, <2>3, OccupiedSlots, Fields, SMTT(30) DEF IInv, Budget
  <1>9. CurrentBank' /\ OpenForBank' /\ Drained'
    BY <1>1, <1>2, <1>6 DEF IInv, CurrentBank, OpenForBank, Drained, sender_vars
  <1> QED BY <1>3, <1>4, <1>5, <1>7, <1>8, <1>9 DEF IInv

\* A counter of zero means that no sender has a reservation.
LEMMA NobodyActive ==
    ASSUME TypeOK, Counted, active_senders = 0
    PROVE  \A s \in Senders : pc[s] # "send"
  <1> DEFINE B == {s \in Senders : pc[s] \in InFlight}
  <1>1. IsFiniteSet(B) /\ Cardinality(B) = 0
    BY SendersAssumption, FS_Subset DEF Counted
  <1>2. B = {}
    BY <1>1, FS_EmptySet
  <1> QED BY <1>2 DEF InFlight

\* Steps of the receiver that conclude from what it has read that it is safe.
LEMMA SafeInv ==
    ASSUME IInv, NEW l, rpc' = l, l \in {"empty", "handle", "leave", "done", "panic"},
           rpc \in {"check", "empty", "handle", "end", "leave"},
           l \in {"empty", "handle", "panic"} => message # NoBank,
           l \in {"leave", "done"} => message = NoBank /\ should_exit,
           \A s \in Senders : pc[s] # "send",
           l \in {"handle", "panic", "done"} => channel = <<>>,
           UNCHANGED <<active_senders, channel, index_lock, transaction_indexes, sender_vars,
                       enqueued, should_exit, bank>>,
           UNCHANGED <<word, message, sender_active, received>>
    PROVE  IInv'
  <1>1. TypeOK'
    BY SMTT(30) DEF IInv, TypeOK, sender_vars
  <1>2. SenderInv' /\ Counted' /\ SlotsInv' /\ Budget' /\ CurrentBank' /\ OpenForBank'
    BY ReceiverMove
  <1>3. LockInv' /\ IndexInv'
    BY DEF IInv, LockInv, IndexInv, sender_vars
  <1>4. ReceiverInv'
    BY DEF IInv, ReceiverInv, is_shutdown, sender_vars
  <1>5. Drained'
    BY DEF IInv, ReceiverInv, Drained, is_shutdown, sender_vars
  <1> QED BY <1>1, <1>2, <1>3, <1>4, <1>5 DEF IInv

\* The frame of the two reads of is_safe_to_restart.
LEMMA ReadFrame ==
    ASSUME NEW from, NEW yes, NEW no,
           ActiveIsZero(from, yes, no) \/ ChannelIsEmpty(from, yes, no)
    PROVE  /\ rpc = from
           /\ UNCHANGED <<active_senders, channel, index_lock, transaction_indexes, sender_vars,
                          enqueued, should_exit, bank>>
           /\ UNCHANGED <<word, message, sender_active, received>>
  BY DEF ActiveIsZero, ChannelIsEmpty, SendersIdle

\* A message is handled only after nobody was active and then nothing queued.
LEMMA CanProcessInv ==
    ASSUME IInv, can_process_service_message
    PROVE  IInv'
  <1>1. sender_active \in BOOLEAN
    BY DEF IInv, TypeOK
  <1>2. CASE message = NoBank /\ ActiveIsZero("check", "end", "end")
    <2>1. rpc = "check" /\ rpc' = "end" /\ received = NoRecord
      BY <1>2 DEF ActiveIsZero, IInv, ReceiverInv
    <2> QED BY <1>1, <1>2, <2>1, ReadFrame, QuietInv
  <1>3. CASE message # NoBank /\ ActiveIsZero("check", "empty", "work")
    <2>1. rpc = "check" /\ received = NoRecord
      BY <1>3 DEF ActiveIsZero, IInv, ReceiverInv
    <2>2. CASE active_senders = 0
      <3>1. rpc' = "empty" /\ \A s \in Senders : pc[s] # "send"
        BY <1>3, <2>2, NobodyActive DEF ActiveIsZero, IInv
      <3> QED BY <1>3, <2>1, <3>1, ReadFrame, SafeInv, SMTT(30)
    <2>3. CASE active_senders # 0
      <3>1. rpc' = "work"
        BY <1>3, <2>3 DEF ActiveIsZero
      <3> QED BY <1>1, <1>3, <2>1, <3>1, ReadFrame, QuietInv, SMTT(30)
    <2> QED BY <2>2, <2>3
  <1>4. CASE ChannelIsEmpty("empty", "handle", "work")
    <2>1. rpc = "empty" /\ received = NoRecord /\ message # NoBank
            /\ \A s \in Senders : pc[s] # "send"
      BY <1>4 DEF ChannelIsEmpty, IInv, ReceiverInv
    <2>2. CASE channel = <<>>
      <3>1. rpc' = "handle"
        BY <1>4, <2>2 DEF ChannelIsEmpty
      <3> QED BY <1>4, <2>1, <2>2, <3>1, ReadFrame, SafeInv, SMTT(30)
    <2>3. CASE channel # <<>>
      <3>1. rpc' = "work"
        BY <1>4, <2>3 DEF ChannelIsEmpty
      <3> QED BY <1>1, <1>4, <2>1, <3>1, ReadFrame, QuietInv, SMTT(30)
    <2> QED BY <2>2, <2>3
  <1> QED BY <1>2, <1>3, <1>4 DEF can_process_service_message

\* The receiver leaves only when the channel is shut and drained.
LEMMA EndInv ==
    ASSUME IInv, End
    PROVE  IInv'
  <1>1. sender_active \in BOOLEAN
    BY DEF IInv, TypeOK
  <1>2. CASE ~should_exit /\ ActiveIsZero("end", "top", "top")
    <2>1. rpc = "end" /\ rpc' = "top" /\ received = NoRecord /\ message = NoBank
      BY <1>2 DEF ActiveIsZero, IInv, ReceiverInv
    <2> QED BY <1>1, <1>2, <2>1, ReadFrame, QuietInv
  <1>3. CASE should_exit /\ ActiveIsZero("end", "leave", "top")
    <2>1. rpc = "end" /\ received = NoRecord /\ message = NoBank
      BY <1>3 DEF ActiveIsZero, IInv, ReceiverInv
    <2>2. CASE active_senders = 0
      <3>1. rpc' = "leave" /\ \A s \in Senders : pc[s] # "send"
        BY <1>3, <2>2, NobodyActive DEF ActiveIsZero, IInv
      <3>2. /\ UNCHANGED <<active_senders, channel, index_lock, transaction_indexes, sender_vars,
                           enqueued, should_exit, bank>>
            /\ UNCHANGED <<word, message, sender_active, received>>
        BY <1>3, ReadFrame
      <3>3. should_exit
        BY <1>3
      <3> QED BY <2>1, <3>1, <3>2, <3>3, SafeInv, SMTT(30)
    <2>3. CASE active_senders # 0
      <3>1. rpc' = "top"
        BY <1>3, <2>3 DEF ActiveIsZero
      <3> QED BY <1>1, <1>3, <2>1, <3>1, ReadFrame, QuietInv
    <2> QED BY <2>2, <2>3
  <1>4. CASE ChannelIsEmpty("leave", "done", "top")
    <2>1. rpc = "leave" /\ received = NoRecord /\ message = NoBank /\ should_exit
            /\ \A s \in Senders : pc[s] # "send"
      BY <1>4 DEF ChannelIsEmpty, IInv, ReceiverInv
    <2>2. CASE channel = <<>>
      <3>1. rpc' = "done"
        BY <1>4, <2>2 DEF ChannelIsEmpty
      <3> QED BY <1>4, <2>1, <2>2, <3>1, ReadFrame, SafeInv
    <2>3. CASE channel # <<>>
      <3>1. rpc' = "top"
        BY <1>4, <2>3 DEF ChannelIsEmpty
      <3> QED BY <1>1, <1>4, <2>1, <3>1, ReadFrame, QuietInv
    <2> QED BY <2>2, <2>3
  <1> QED BY <1>2, <1>3, <1>4 DEF End

\* A message is dropped, done with, or goes on to a restart of the drained channel.
LEMMA HandleInv ==
    ASSUME IInv, handle_service_message
    PROVE  IInv'
  <1>1. /\ rpc = "handle" /\ received = NoRecord /\ sender_active \in BOOLEAN
        /\ message # NoBank /\ is_shutdown /\ channel = <<>>
        /\ \A s \in Senders : pc[s] # "send"
    BY DEF handle_service_message, IInv, ReceiverInv, TypeOK, Drained
  <1>2. /\ UNCHANGED <<active_senders, channel, index_lock, transaction_indexes, sender_vars,
                       enqueued, should_exit, bank>>
        /\ UNCHANGED <<word, sender_active, received>>
    BY DEF handle_service_message, SendersIdle
  <1>3. CASE should_exit /\ rpc' = "panic" /\ message' = message
    BY <1>1, <1>2, <1>3, SafeInv, SMTT(30)
  <1>4. CASE ~should_exit /\ message # ResetMessage /\ rpc' = "restart" /\ message' = message
    <2>1. TypeOK'
      BY <1>2, <1>4 DEF IInv, TypeOK, sender_vars
    <2>2. SenderInv' /\ Counted' /\ SlotsInv' /\ Budget' /\ CurrentBank' /\ OpenForBank'
      BY <1>2, ReceiverMove
    <2>3. LockInv' /\ IndexInv'
      BY <1>1, <1>2, <1>4 DEF IInv, LockInv, IndexInv, sender_vars
    <2>4. ReceiverInv' /\ Drained'
      BY <1>1, <1>2, <1>4, NewRecords DEF IInv, TypeOK, ReceiverInv, Drained, is_shutdown, sender_vars
    <2> QED BY <2>1, <2>2, <2>3, <2>4 DEF IInv
  <1>5. CASE ~should_exit /\ rpc' = "end" /\ message' = NoBank
    BY <1>1, <1>2, <1>5, QuietInv
  <1> QED BY <1>3, <1>4, <1>5 DEF handle_service_message

\* restart takes the mutex only when no sender is between its send and its index.
LEMMA RestartLockInv ==
    ASSUME IInv, RestartLock
    PROVE  IInv'
  <1>1. /\ rpc = "restart" /\ rpc' = "store" /\ (Track => index_lock = None)
        /\ index_lock' = (IF Track THEN Receiver ELSE index_lock) /\ transaction_indexes' = 0
        /\ UNCHANGED <<active_senders, channel, sender_vars, enqueued, bank>>
        /\ UNCHANGED <<word, message, sender_active, received, should_exit>>
    BY DEF RestartLock, SendersIdle
  <1>2. TypeOK'
    <2>1. index_lock' \in Senders \cup {None, Receiver}
      BY <1>1 DEF IInv, TypeOK
    <2> QED BY <1>1, <2>1 DEF IInv, TypeOK, sender_vars
  <1>3. SenderInv' /\ Counted' /\ SlotsInv' /\ Budget' /\ CurrentBank' /\ OpenForBank'
    BY <1>1, ReceiverMove
  <1>4. \A s \in Senders : Track => pc[s] \notin {"load", "increment", "index"} \cup InFlight
    <2>1. None \notin Senders
      BY SendersAssumption DEF None
    <2> QED BY <1>1, <2>1 DEF IInv, LockInv
  <1>5. LockInv' /\ IndexInv'
    BY <1>1, <1>4 DEF LockInv, IndexInv, sender_vars, InFlight
  <1>6. ReceiverInv' /\ Drained'
    BY <1>1 DEF IInv, ReceiverInv, Drained, is_shutdown, sender_vars
  <1> QED BY <1>2, <1>3, <1>5, <1>6 DEF IInv

\* The channel opens for the new bank with nothing of an older one left.
LEMMA RestartStoreInv ==
    ASSUME IInv, RestartStore
    PROVE  IInv'
  <1>1. /\ rpc = "store" /\ rpc' = "unlock" /\ bank' = message /\ enqueued' = 0
        /\ word' = [bank_id |-> message, allowed |-> CAPACITY]
        /\ UNCHANGED <<active_senders, channel, index_lock, transaction_indexes, sender_vars>>
        /\ UNCHANGED <<message, sender_active, received, should_exit>>
    BY DEF RestartStore, encoded_value
  <1>2. /\ channel = <<>> /\ message \in 0 .. MAX_BANK_ID /\ ~should_exit
        /\ received = NoRecord /\ \A s \in Senders : pc[s] # "send" /\ record[s].slots = {}
    BY <1>1 DEF IInv, ReceiverInv, Drained, SenderInv
  <1>3. TypeOK'
    <2>1. word' \in [bank_id : 0 .. DISABLED_BANK_ID, allowed : 0 .. CAPACITY]
      BY <1>1, <1>2, Fields, SMTT(30)
    <2> QED BY <1>1, <1>2, <2>1 DEF IInv, TypeOK, sender_vars
  <1>4. SenderInv' /\ Counted' /\ LockInv' /\ SlotsInv'
    BY <1>1 DEF IInv, SenderInv, Counted, LockInv, SlotsInv, sender_vars
  <1>5. word'.bank_id = message /\ word'.bank_id # DISABLED_BANK_ID /\ word'.allowed = CAPACITY
    BY <1>1, <1>2, Fields, SMTT(30)
  <1>6. ReceiverInv' /\ Drained' /\ OpenForBank'
    BY <1>1, <1>2, <1>5 DEF IInv, ReceiverInv, Drained, OpenForBank, is_shutdown, sender_vars
  <1>7. Budget'
    <2>1. Occupied' = {}
      BY <1>1, <1>2, NewRecords, SMTT(30) DEF Occupied, sender_vars
    <2> QED BY <1>5, <2>1, FS_EmptySet, Fields, SMTT(30) DEF Budget, is_shutdown
  <1>8. CurrentBank'
    BY <1>1, <1>2, SMTT(30) DEF CurrentBank, sender_vars
  <1>9. IndexInv'
    <2> SUFFICES ASSUME Track PROVE IndexInv'
      BY DEF IndexInv
    <2>1. \A s \in Senders : pc[s] \notin {"decrement", "index"}
      BY <1>1, SendersAssumption DEF IInv, LockInv, InFlight, Receiver
    <2> QED BY <1>1, <2>1 DEF IInv, IndexInv, sender_vars
  <1> QED BY <1>3, <1>4, <1>6, <1>7, <1>8, <1>9 DEF IInv

\* The mutex is given back.
LEMMA RestartUnlockInv ==
    ASSUME IInv, RestartUnlock
    PROVE  IInv'
  <1>1. /\ rpc = "unlock" /\ rpc' = "end" /\ message' = NoBank
        /\ index_lock' = IF Track THEN None ELSE index_lock
        /\ UNCHANGED <<active_senders, channel, sender_vars, enqueued, bank>>
        /\ UNCHANGED <<word, transaction_indexes, sender_active, received, should_exit>>
    BY DEF RestartUnlock, SendersIdle
  <1>2. TypeOK'
    <2>1. index_lock' \in Senders \cup {None, Receiver}
      BY <1>1 DEF IInv, TypeOK
    <2> QED BY <1>1, <2>1 DEF IInv, TypeOK, sender_vars
  <1>3. SenderInv' /\ Counted' /\ SlotsInv' /\ Budget' /\ CurrentBank' /\ OpenForBank'
    BY <1>1, ReceiverMove
  <1>4. \A s \in Senders : Track => pc[s] \notin {"load", "increment", "index"} \cup InFlight
    BY <1>1, SendersAssumption DEF IInv, LockInv, Receiver
  <1>5. LockInv' /\ IndexInv'
    BY <1>1, <1>4 DEF IInv, LockInv, IndexInv, sender_vars
  <1>6. ReceiverInv' /\ Drained'
    BY <1>1 DEF IInv, ReceiverInv, Drained, is_shutdown, sender_vars
  <1> QED BY <1>2, <1>3, <1>5, <1>6 DEF IInv

-----------------------------------------------------------------------------
(* The invariant and what follows from it.                                 *)

\* The channel is made shut and empty.
LEMMA InitInv == Init => IInv
  <1> SUFFICES ASSUME Init PROVE IInv
    OBVIOUS
  <1> USE DEF Init
  <1>1. TypeOK
    <2>1. word \in [bank_id : 0 .. DISABLED_BANK_ID, allowed : 0 .. CAPACITY]
      BY Fields DEF Word
    <2>2. loaded \in [Senders -> [bank_id : 0 .. DISABLED_BANK_ID, allowed : 0 .. CAPACITY]]
      BY Fields DEF Word
    <2>3. pc \in [Senders -> {"idle", "lock", "load", "increment", "index"} \cup InFlight]
      OBVIOUS
    <2>4. record \in [Senders -> AcceptedRecord \cup {NoRecord}] /\ at \in [Senders -> Nat]
      OBVIOUS
    <2>5. channel \in Seq(AcceptedRecord)
      BY SMTT(30)
    <2>6. /\ active_senders \in Nat /\ transaction_indexes \in Nat /\ enqueued \in Nat
          /\ index_lock \in Senders \cup {None, Receiver}
          /\ sender_active \in BOOLEAN /\ should_exit \in BOOLEAN
          /\ received \in AcceptedRecord \cup {NoRecord}
          /\ message \in {NoBank, ResetMessage} \cup 0 .. MAX_BANK_ID
          /\ bank \in {NoBank} \cup 0 .. MAX_BANK_ID
      OBVIOUS
    <2> QED BY <2>1, <2>2, <2>3, <2>4, <2>5, <2>6 DEF TypeOK
  <1>2. SenderInv /\ LockInv /\ SlotsInv
    <2>1. SenderInv
      BY NewRecords DEF SenderInv, InFlight
    <2>2. LockInv
      BY DEF LockInv, InFlight
    <2>3. SlotsInv
      BY NewRecords, SMTT(30) DEF SlotsInv, InFlight
    <2> QED BY <2>1, <2>2, <2>3
  <1>3. Counted
    <2>1. {s \in Senders : pc[s] \in InFlight} = {}
      BY DEF InFlight
    <2> QED BY <2>1, FS_EmptySet DEF Counted
  <1>4. is_shutdown /\ word.allowed = 0
    BY Fields DEF is_shutdown
  <1>5. ReceiverInv /\ CurrentBank /\ OpenForBank /\ Drained /\ IndexInv
    <2>1. ReceiverInv
      BY <1>4, NewRecords DEF ReceiverInv
    <2>2. CurrentBank /\ OpenForBank
      BY <1>4, NewRecords, SMTT(30) DEF CurrentBank, OpenForBank
    <2>3. Drained /\ IndexInv
      BY <1>4, NewRecords DEF Drained, IndexInv
    <2> QED BY <2>1, <2>2, <2>3
  <1>6. Budget
    BY <1>4, OccupiedSlots, SlotCount, Fields, SMTT(30) DEF Budget
  <1> QED BY <1>1, <1>2, <1>3, <1>5, <1>6 DEF IInv

\* A step that changes nothing keeps the invariant.
LEMMA StutterInv ==
    ASSUME IInv, UNCHANGED vars
    PROVE  IInv'
  <1> USE DEF vars, sender_vars, receiver_vars
  <1>1. TypeOK'
    BY SMTT(30) DEF IInv, TypeOK
  <1>2. SenderInv' /\ Counted'
    BY DEF IInv, SenderInv, Counted
  <1>3. LockInv' /\ SlotsInv'
    BY DEF IInv, LockInv, SlotsInv
  <1>4. ReceiverInv' /\ OpenForBank' /\ Drained' /\ IndexInv' /\ CurrentBank'
    BY DEF IInv, ReceiverInv, OpenForBank, Drained, IndexInv, CurrentBank, is_shutdown
  <1>5. Budget'
    <2>1. Occupied' = Occupied
      BY DEF Occupied
    <2> QED BY <2>1 DEF IInv, Budget, is_shutdown
  <1> QED BY <1>1, <1>2, <1>3, <1>4, <1>5 DEF IInv

\* Every step of a sender or of the receiver keeps the invariant.
LEMMA NextInv ==
    ASSUME IInv, [Next]_vars
    PROVE  IInv'
  <1>1. CASE UNCHANGED vars
    BY <1>1, StutterInv
  <1>2. ASSUME NEW s \in Senders, Begin(s) \/ SenderStep(s) PROVE IInv'
    BY <1>2, BeginInv, LockIndexesInv, LoadInv, IncrementInv, ReserveInv, AgainInv, SendInv,
       DecrementInv, IndexStepInv DEF SenderStep
  <1>3. CASE Top \/ ReceiverStep
    BY <1>3, TopInv, HashInv, TryRecvInv, AccountInv, RecordInv, CanProcessInv, HandleInv,
       RestartLockInv, RestartStoreInv, RestartUnlockInv, EndInv DEF ReceiverStep
  <1> QED BY <1>1, <1>2, <1>3 DEF Next

\* IInv is an invariant of the channel.
THEOREM Inductive == Spec => []IInv
  BY InitInv, NextInv, PTL DEF Spec

\* The word's fields stay within their bits, and every counter within its type.
THEOREM TypeCorrect == Spec => []TypeOK
  <1>1. IInv => TypeOK
    BY DEF IInv
  <1> QED BY <1>1, Inductive, PTL

\* The PoH service only ever receives records for the bank it was last given.
THEOREM RecordsAreCurrent == Spec => []CurrentBank
  <1>1. IInv => CurrentBank
    BY DEF IInv
  <1> QED BY <1>1, Inductive, PTL

\* Whenever the service handles a message, restarts the channel or leaves,
\* every accepted record has been received.
THEOREM RestartsDrained == Spec => []Drained
  <1>1. IInv => Drained
    BY DEF IInv
  <1> QED BY <1>1, Inductive, PTL

\* No insertion leaks, and none is given back twice.
THEOREM BudgetKept == Spec => []Budget
  <1>1. IInv => Budget
    BY DEF IInv
  <1> QED BY <1>1, Inductive, PTL

\* The indexes handed out number a bank's transactions in channel order.
THEOREM IndexesMatch == Spec => []IndexMatches
  <1>1. IInv => IndexMatches
    BY DEF IInv, IndexInv, IndexMatches
  <1> QED BY <1>1, Inductive, PTL

\* A sender with a reservation has a slot that no record of the channel has, so
\* there is a place left.
LEMMA PlaceLeft ==
    ASSUME IInv, NEW s \in Senders, pc[s] = "send"
    PROVE  Len(channel) < CAPACITY
  <1>1. PICK n \in Nat : n = Len(channel) /\ DOMAIN channel = 1 .. n
    BY SMTT(30) DEF IInv, TypeOK
  <1>2. \A i \in 1 .. n : channel[i] \in AcceptedRecord
    BY <1>1, SMTT(30) DEF IInv, TypeOK
  <1>3. ASSUME NEW i \in 1 .. n PROVE \E x \in Slots : x \in channel[i].slots
    <2>1. Cardinality(channel[i].slots) # 0 /\ channel[i].slots \subseteq Slots
      BY <1>1, <1>2 DEF IInv, SlotsInv, AcceptedRecord
    <2>2. channel[i].slots # {}
      BY <2>1, FS_EmptySet
    <2> QED BY <2>1, <2>2
  <1> DEFINE f == [i \in 1 .. n |-> CHOOSE x \in Slots : x \in channel[i].slots]
             R == Slots \ record[s].slots
  <1>4. \A i \in 1 .. n : f[i] \in Slots /\ f[i] \in channel[i].slots
    BY <1>3
  <1> HIDE DEF f
  <1>5. \A i \in 1 .. n : f[i] \in R
    BY <1>1, <1>4 DEF IInv, SlotsInv
  <1>6. \A i, j \in 1 .. n : f[i] = f[j] => i = j
    BY <1>1, <1>4 DEF IInv, SlotsInv
  <1>7. f \in Injection(1 .. n, R)
    BY <1>5, <1>6 DEF f, Injection, IsInjective
  <1>8. IsFiniteSet(R) /\ Cardinality(R) = CAPACITY - Cardinality(record[s].slots)
    <2>1. record[s].slots \in SUBSET Slots
      BY NewRecords DEF IInv, TypeOK
    <2> QED BY <2>1, SlotCount, Adding
  <1>9. Cardinality(1 .. n) <= Cardinality(R)
    BY <1>7, <1>8, FS_Injection
  <1>10. Cardinality(1 .. n) = n
    <2>1. 1 \in Int /\ n \in Int /\ (IF 1 > n THEN 0 ELSE n - 1 + 1) = n
      BY <1>1, SMTT(30)
    <2>2. Cardinality(1 .. n) = IF 1 > n THEN 0 ELSE n - 1 + 1
      BY ONLY <2>1, FS_Interval
    <2> QED BY <2>1, <2>2, SMTT(30)
  <1>11. Cardinality(record[s].slots) \in Nat \ {0}
    BY DEF IInv, SenderInv, AcceptedRecord
  <1> QED BY <1>1, <1>8, <1>9, <1>10, <1>11, Fields, SMTT(30)

\* try_send never finds the bounded channel full after it has reserved.
THEOREM RoomForReserved == Spec => []NeverFull
  <1>1. IInv => NeverFull
    BY PlaceLeft DEF NeverFull
  <1> QED BY <1>1, Inductive, PTL

-----------------------------------------------------------------------------
(* The channel implements RecordQueue.                                     *)

\* A step that moves no record between a sender and the channel is a stuttering
\* step of the queue, or closes it.
LEMMA QuietStep ==
    ASSUME \A t \in Senders : /\ pc'[t] = "send" <=> pc[t] = "send"
                              /\ pc[t] = "send" => record'[t] = record[t],
           channel' = channel,
           word'.bank_id = word.bank_id \/ word'.bank_id = DISABLED_BANK_ID
    PROVE  [Queue!QNext]_(Queue!qvars)
  <1>1. [t \in Senders |-> IF pc'[t] = "send" THEN record'[t] ELSE NoRecord]
            = [t \in Senders |-> IF pc[t] = "send" THEN record[t] ELSE NoRecord]
    OBVIOUS
  <1>2. CASE word'.bank_id = word.bank_id
    BY <1>1, <1>2 DEF Queue!qvars
  <1>3. CASE word'.bank_id = DISABLED_BANK_ID
    <2>1. Queue!Close
      BY <1>1, <1>3 DEF Queue!Close
    <2> QED BY <2>1 DEF Queue!QNext
  <1> QED BY <1>2, <1>3

\* A successful compare-exchange is the queue's Accept.
LEMMA ReserveStep ==
    ASSUME IInv, NEW s \in Senders, Reserve(s), word = loaded[s]
    PROVE  Queue!Accept(s)
  <1>1. /\ ~is_shutdown /\ word.bank_id = record[s].bank /\ record[s] \in AcceptedRecord
        /\ word'.bank_id = word.bank_id
        /\ record'[s] = [record[s] EXCEPT !.slots = record'[s].slots]
        /\ record' = [record EXCEPT ![s] = record'[s]]
        /\ record'[s].slots \in SUBSET (Slots \ Occupied)
        /\ pc' = [pc EXCEPT ![s] = "send"]
    BY Reserved, SMTT(30) DEF encoded_value
  <1>2. pc[s] = "reserve" /\ channel' = channel
    BY DEF Reserve
  <1>3. /\ pc'[s] = "send" /\ \A t \in Senders : t # s => pc'[t] = pc[t] /\ record'[t] = record[t]
        /\ record'[s].bank = record[s].bank
    BY <1>1 DEF IInv, TypeOK, AcceptedRecord
  <1> DEFINE Q == [t \in Senders |-> IF pc[t] = "send" THEN record[t] ELSE NoRecord]
             Qn == [t \in Senders |-> IF pc'[t] = "send" THEN record'[t] ELSE NoRecord]
  <1>4. Q[s] = NoRecord
    BY <1>2
  <1>5. Qn = [Q EXCEPT ![s] = Qn[s]] /\ Qn[s] = record'[s]
    BY <1>3
  <1>6. record'[s].slots \subseteq Slots \ Queue!Occupied
    <2>1. Queue!Occupied \subseteq Occupied
      <3> SUFFICES ASSUME NEW x \in Queue!Occupied PROVE x \in Occupied
        OBVIOUS
      <3>1. x \in Slots
        BY DEF Queue!Occupied
      <3>2. CASE \E t \in Senders : x \in Q[t].slots
        <4>1. PICK t \in Senders : x \in Q[t].slots
          BY <3>2
        <4>2. pc[t] = "send"
          BY <4>1, NewRecords
        <4> QED BY <3>1, <4>1, <4>2 DEF Occupied
      <3>3. CASE \E i \in DOMAIN channel : x \in channel[i].slots
        BY <3>1, <3>3 DEF Occupied
      <3> QED BY <3>2, <3>3 DEF Queue!Occupied
    <2> QED BY <1>1, <2>1
  <1>7. word.bank_id # DISABLED_BANK_ID /\ record'[s].bank = word.bank_id
    BY <1>1, <1>3 DEF is_shutdown
  <1> QED BY <1>1, <1>2, <1>3, <1>4, <1>5, <1>6, <1>7 DEF Queue!Accept

\* The bounded channel's send is the queue's Enqueue.
LEMMA SendStep ==
    ASSUME IInv, NEW s \in Senders, Send(s)
    PROVE  Queue!Enqueue(s)
  <1>1. /\ pc[s] = "send" /\ pc' = [pc EXCEPT ![s] = "decrement"]
        /\ channel' = Append(channel, record[s]) /\ word' = word
        /\ record' = [record EXCEPT ![s].slots = {}]
    BY DEF Send, Goto
  <1>2. pc'[s] = "decrement" /\ \A t \in Senders : t # s => pc'[t] = pc[t] /\ record'[t] = record[t]
    BY <1>1 DEF IInv, TypeOK
  <1> DEFINE Q == [t \in Senders |-> IF pc[t] = "send" THEN record[t] ELSE NoRecord]
             Qn == [t \in Senders |-> IF pc'[t] = "send" THEN record'[t] ELSE NoRecord]
  <1>3. Q[s] = record[s] /\ Q[s] # NoRecord
    BY <1>1, NewRecords DEF IInv, SenderInv
  <1>4. Qn = [Q EXCEPT ![s] = NoRecord]
    BY <1>2
  <1> QED BY <1>1, <1>3, <1>4 DEF Queue!Enqueue

\* The queue opens when the word is stored, drained.
LEMMA RestartStep ==
    ASSUME IInv, RestartStore
    PROVE  message \in 0 .. MAX_BANK_ID /\ Queue!Open(message)
  <1>1. /\ rpc = "store" /\ word'.bank_id = message
        /\ UNCHANGED <<pc, record, channel>>
    BY DEF RestartStore, encoded_value, sender_vars
  <1>2. /\ channel = <<>> /\ is_shutdown /\ message \in 0 .. MAX_BANK_ID
        /\ \A s \in Senders : pc[s] # "send"
    BY <1>1 DEF IInv, ReceiverInv, Drained
  <1> QED BY <1>1, <1>2 DEF Queue!Open, is_shutdown

\* Every step of the channel is a step of the queue or leaves it as it is.
LEMMA SenderRefines ==
    ASSUME IInv, NEW s \in Senders, Begin(s) \/ SenderStep(s)
    PROVE  [Queue!QNext]_(Queue!qvars)
  <1>1. CASE Reserve(s) /\ word = loaded[s]
    BY <1>1, ReserveStep DEF Queue!QNext
  <1>2. CASE Send(s)
    BY <1>2, SendStep DEF Queue!QNext
  <1>3. CASE ~(Reserve(s) /\ word = loaded[s]) /\ ~Send(s)
    <2>1. word' = word /\ channel' = channel
      BY <1>3 DEF Begin, SenderStep, LockIndexes, Load, Increment, Reserve, Again, Decrement, Index
    <2>2. /\ \E l : l # "send" /\ pc' = [pc EXCEPT ![s] = l]
          /\ pc[s] # "send"
      BY <1>3 DEF Begin, SenderStep, LockIndexes, Load, Increment, Reserve, Again, Decrement,
                            Index, Goto
    <2>3. \A t \in Senders : t # s => pc'[t] = pc[t] /\ record'[t] = record[t]
      BY <1>3, <2>2 DEF Begin, SenderStep, LockIndexes, Load, Increment, Reserve, Again,
                                  Decrement, Index, IInv, TypeOK
    <2>4. pc'[s] # "send"
      BY <2>2 DEF IInv, TypeOK
    <2> QED BY <2>1, <2>2, <2>3, <2>4, QuietStep
  <1> QED BY <1>1, <1>2, <1>3

\* The receiver takes from the queue, closes it and opens it.
LEMMA ReceiverRefines ==
    ASSUME IInv, Top \/ ReceiverStep
    PROVE  [Queue!QNext]_(Queue!qvars)
  <1>1. CASE RestartStore
    BY <1>1, RestartStep DEF Queue!QNext
  <1>2. CASE TryRecv /\ channel # <<>>
    <2>1. channel' = Tail(channel) /\ UNCHANGED <<word, pc, record>>
      BY <1>2 DEF TryRecv, SendersIdle, sender_vars
    <2>2. Queue!Receive
      BY <1>2, <2>1 DEF Queue!Receive
    <2> QED BY <2>2 DEF Queue!QNext
  <1>3. CASE on_received_record
    <2>1. word'.bank_id = word.bank_id /\ UNCHANGED <<channel, pc, record>>
      BY <1>3, NoCarry, SMTT(30) DEF on_received_record, SendersIdle, sender_vars
    <2> QED BY <2>1, QuietStep
  <1>4. CASE TryRecv /\ channel = <<>>
    <2>1. UNCHANGED <<word, channel, pc, record>>
      BY <1>4 DEF TryRecv, SendersIdle, sender_vars
    <2> QED BY <2>1, QuietStep
  <1>5. CASE Top \/ Hash("recv") \/ Hash("check") \/ LoadActive \/ Record \/ handle_service_message
               \/ RestartLock \/ RestartUnlock
    <2>1. word' \in {word, SHUTDOWN} /\ UNCHANGED <<channel, pc, record>>
      BY <1>5 DEF Top, Hash, LoadActive, Record, handle_service_message, RestartLock,
                              RestartUnlock, shutdown, SendersIdle, sender_vars
    <2> QED BY <2>1, Fields, QuietStep
  <1>6. CASE can_process_service_message \/ End
    <2>1. UNCHANGED <<word, channel, pc, record>>
      BY <1>6 DEF can_process_service_message, End, ActiveIsZero, ChannelIsEmpty, SendersIdle,
                  sender_vars
    <2> QED BY <2>1, QuietStep
  <1> QED BY <1>1, <1>2, <1>3, <1>4, <1>5, <1>6 DEF ReceiverStep

\* The word, the counter, the channel and the code around them behave as one
\* queue with room for CAPACITY batches that is open for one bank at a time and
\* reopened only when it is drained.
THEOREM Implements == Spec => IsQueue
  <1>1. Init => Queue!QInit
    BY Fields DEF Init, Queue!QInit
  <1>2. IInv /\ [Next]_vars => [Queue!QNext]_(Queue!qvars)
    <2> SUFFICES ASSUME IInv, [Next]_vars PROVE [Queue!QNext]_(Queue!qvars)
      OBVIOUS
    <2>1. CASE UNCHANGED vars
      BY <2>1, QuietStep DEF vars, sender_vars
    <2>2. CASE Next
      BY <2>2, SenderRefines, ReceiverRefines DEF Next
    <2> QED BY <2>1, <2>2
  <1> QED BY <1>1, <1>2, Inductive, PTL DEF Spec, IsQueue, Queue!QSpec
=============================================================================
