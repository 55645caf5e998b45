---------------------------- MODULE RecordQueue ----------------------------
(***************************************************************************)
(* What the record channel promises its users, with every operation one    *)
(* step: a queue with room for Slots batches, open for at most one bank at *)
(* a time.  A record accepted for a bank is queued and received before the *)
(* queue is opened for another bank.                                       *)
(***************************************************************************)
EXTENDS Sequences

CONSTANTS Senders, Slots, Banks, Closed, NoRecord

VARIABLES
    open,       \* the bank records are accepted for, or Closed
    reserved,   \* the record a sender has room for and has not queued yet
    queue

qvars == <<open, reserved, queue>>

Occupied ==
    {x \in Slots : \/ \E s \in Senders : x \in reserved[s].slots
                   \/ \E i \in DOMAIN queue : x \in queue[i].slots}

Open(b) ==
    /\ open = Closed /\ queue = <<>> /\ \A s \in Senders : reserved[s] = NoRecord
    /\ open' = b
    /\ UNCHANGED <<reserved, queue>>

Close ==
    /\ open' = Closed
    /\ UNCHANGED <<reserved, queue>>

\* A sender finds room for all the batches of a record, or for none.
Accept(s) ==
    /\ reserved[s] = NoRecord /\ open # Closed
    /\ reserved' = [reserved EXCEPT ![s] = reserved'[s]]
    /\ reserved'[s].bank = open
    /\ reserved'[s].slots \subseteq Slots \ Occupied
    /\ UNCHANGED <<open, queue>>

Enqueue(s) ==
    /\ reserved[s] # NoRecord
    /\ queue' = Append(queue, reserved[s])
    /\ reserved' = [reserved EXCEPT ![s] = NoRecord]
    /\ UNCHANGED open

Receive ==
    /\ queue # <<>>
    /\ queue' = Tail(queue)
    /\ UNCHANGED <<open, reserved>>

QInit ==
    /\ open = Closed /\ queue = <<>>
    /\ reserved = [s \in Senders |-> NoRecord]

QNext ==
    \/ \E b \in Banks : Open(b)
    \/ Close
    \/ \E s \in Senders : Accept(s) \/ Enqueue(s)
    \/ Receive

QSpec == QInit /\ [][QNext]_qvars
=============================================================================
