----------------------- MODULE SchedulingStateMachine -----------------------
(***************************************************************************)
(* The account locking of the unified scheduler,                           *)
(* unified-scheduler-logic/src/lib.rs: one usage queue per address, tasks  *)
(* that are blocked on some of their addresses, and the queue of tasks     *)
(* that became unblocked.  The scheduler thread is the only one to touch   *)
(* it, so that every method is one step.                                   *)
(*                                                                         *)
(* A usage queue is its current usage, kept here as the set of tasks that  *)
(* hold it (the code keeps their number, or the tasks themselves for       *)
(* Capability::PriorityQueueing), and the tasks blocked on it.  The        *)
(* blocked tasks leave a FIFO queue in the order of their arrival and a    *)
(* priority queue in the order of their ids: a set ordered by rank.        *)
(***************************************************************************)
EXTENDS Naturals, FiniteSets, Sequences, Functions

CONSTANTS Task,        \* task ids; a smaller id is a higher priority
          Addr,        \* the addresses tasks lock
          Usages,      \* Usages[t]: the lock contexts task t may have
          MaxRunning   \* max_running_task_count

Usage == {"Unused", "Readonly", "Writable"}

ASSUME TaskAssumption == Task \subseteq Nat /\ IsFiniteSet(Task)
ASSUME AddrAssumption == IsFiniteSet(Addr) /\ Usages \in [Task -> SUBSET [Addr -> Usage]]
ASSUME MaxRunningAssumption == MaxRunning \in Nat \ {0}

VARIABLES capability,  \* of the usage queues
          usage,       \* usage[t]: the lock contexts of task t
          state,       \* state[t]: where task t is
          rank,        \* rank[t]: the place of t among the tasks of a queue
          current,     \* current[a]: the tasks that hold the current usage of a
          blocked,     \* blocked[a]: blocked_usages_from_tasks
          count,       \* count[t]: blocked_usage_count
          unblocked    \* unblocked_task_queue

machine == <<capability, usage, state, rank, current, blocked, count, unblocked>>

Capabilities == {"FifoQueueing", "PriorityQueueing"}
States == {"new", "blocked", "unblocked", "running", "done"}

Active  == {t \in Task : state[t] \in {"blocked", "unblocked", "running"}}
Running == {t \in Task : state[t] = "running"}
\* Tasks that hold all their usages.
Runnable == {t \in Task : state[t] \in {"unblocked", "running"}}

has_no_active_task  == Active = {}
has_unblocked_task  == unblocked # <<>>
is_task_runnable    == Cardinality(Running) < MaxRunning
has_runnable_task   == has_unblocked_task /\ is_task_runnable

-----------------------------------------------------------------------------
(* Usage queues *)

Locked(t) == {a \in Addr : usage[t][a] # "Unused"}

\* Both tasks only read the address.
Shared(t, u, a) == usage[t][a] = "Readonly" /\ usage[u][a] = "Readonly"

Conflict(t, u) == \E a \in Locked(t) \cap Locked(u) : ~Shared(t, u, a)

\* try_reblock fails for a task that is not blocked any more: it may be
\* running already.
CanReblock(u) == count[u] # 0

\* Mutant: a task that may be running is reblocked.
Reblocked_Running(t, a) ==
    IF capability = "FifoQueueing" \/ a \notin Locked(t) THEN {}
    ELSE {u \in current[a] : ~Shared(t, u, a) /\ t < u}

\* Mutant: only the current writer is reblocked.
Reblocked_WriterOnly(t, a) ==
    IF capability = "FifoQueueing" \/ a \notin Locked(t) THEN {}
    ELSE {u \in current[a] : usage[u][a] = "Writable" /\ t < u /\ CanReblock(u)}

\* The holders of a that the new task t takes it from (prepare_lock).
Reblocked(t, a) ==
    IF capability = "FifoQueueing" \/ a \notin Locked(t) THEN {}
    ELSE {u \in current[a] : ~Shared(t, u, a) /\ t < u /\ CanReblock(u)}

\* Mutant: a reader joins the current readers past a blocked writer.
Locks_PastWriter(t, a) ==
    \A u \in current[a] \ Reblocked(t, a) : Shared(t, u, a)

\* Whether prepare_lock and then try_lock succeed.
Locks(t, a) ==
    LET left == current[a] \ Reblocked(t, a) IN
    /\ \A u \in left : Shared(t, u, a)
    /\ IF capability = "FifoQueueing" THEN blocked[a] = {}
       ELSE left # {} => \A u \in blocked[a] : t < u

\* The blocked tasks that get a when t, its last holder, gives it up: the
\* first one, and if that one reads, the readers up to the next writer
\* (unlock, pop, pop_lockable_readonly).
Popped(t, a) ==
    IF a \notin Locked(t) \/ current[a] # {t} THEN {}
    ELSE {u \in blocked[a] : \A w \in blocked[a] :
             rank[w] < rank[u] => Shared(w, u, a)}

-----------------------------------------------------------------------------
(* Scheduling *)

Init ==
    /\ capability \in Capabilities
    /\ usage \in [Task -> [Addr -> Usage]] /\ \A t \in Task : usage[t] \in Usages[t]
    /\ state = [t \in Task |-> "new"]
    /\ rank = [t \in Task |-> 0]
    /\ current = [a \in Addr |-> {}]
    /\ blocked = [a \in Addr |-> {}]
    /\ count = [t \in Task |-> 0]
    /\ unblocked = <<>>

\* The rank of a task that arrives: behind all that arrived before, or its id.
NewRank(t) ==
    IF capability = "FifoQueueing"
    THEN Cardinality({u \in Task : state[u] # "new"}) + 1 ELSE t

\* The addresses at which the new task t is blocked.
BlockedAt(t) == {a \in Locked(t) : ~Locks(t, a)}

try_lock_usage_queues(t) ==
    /\ rank' = [rank EXCEPT ![t] = NewRank(t)]
    /\ current' = [a \in Addr |-> (current[a] \ Reblocked(t, a))
                                    \cup {u \in {t} : a \in Locked(t) \ BlockedAt(t)}]
    /\ blocked' = [a \in Addr |-> blocked[a] \cup Reblocked(t, a)
                                    \cup {u \in {t} : a \in BlockedAt(t)}]
    /\ count' = [u \in Task |->
                    IF u = t THEN Cardinality(BlockedAt(t))
                    ELSE count[u] + Cardinality({a \in Addr : u \in Reblocked(t, a)})]

schedule_or_buffer_task(t, force_buffering) ==
    /\ state[t] = "new"
    /\ try_lock_usage_queues(t)
    /\ \/ /\ BlockedAt(t) # {}
          /\ state' = [state EXCEPT ![t] = "blocked"]
          /\ UNCHANGED unblocked
       \/ /\ BlockedAt(t) = {}
          /\ ~is_task_runnable \/ force_buffering
          /\ state' = [state EXCEPT ![t] = "unblocked"]
          /\ unblocked' = Append(unblocked, t)
       \/ /\ BlockedAt(t) = {}
          /\ is_task_runnable /\ ~force_buffering
          /\ state' = [state EXCEPT ![t] = "running"]
          /\ UNCHANGED unblocked
    /\ UNCHANGED <<capability, usage>>

schedule_next_unblocked_task ==
    /\ has_runnable_task
    /\ state' = [state EXCEPT ![Head(unblocked)] = "running"]
    /\ unblocked' = Tail(unblocked)
    /\ UNCHANGED <<capability, usage, rank, current, blocked, count>>

\* The addresses u gets when t gives its usages up.
PoppedAt(t, u) == {a \in Addr : u \in Popped(t, a)}

\* The tasks whose last blocked usages t gives up.
Unblocks(t) == {u \in Task : PoppedAt(t, u) # {} /\ count[u] = Cardinality(PoppedAt(t, u))}

\* The tasks that are unblocked are queued in the order of the account keys
\* of t, which the model leaves open.
unlock_usage_queues(t) ==
    /\ current' = [a \in Addr |-> (current[a] \ {t}) \cup Popped(t, a)]
    /\ blocked' = [a \in Addr |-> blocked[a] \ Popped(t, a)]
    /\ count' = [u \in Task |-> count[u] - Cardinality(PoppedAt(t, u))]
    /\ \E s \in Injection(1..Cardinality(Unblocks(t)), Unblocks(t)) : unblocked' = unblocked \o s

deschedule_task(t) ==
    /\ state[t] = "running"
    /\ unlock_usage_queues(t)
    /\ state' = [u \in Task |-> IF u = t THEN "done"
                                ELSE IF u \in Unblocks(t) THEN "unblocked" ELSE state[u]]
    /\ UNCHANGED <<capability, usage, rank>>

Next ==
    \/ \E t \in Task, force_buffering \in BOOLEAN : schedule_or_buffer_task(t, force_buffering)
    \/ schedule_next_unblocked_task
    \/ \E t \in Task : deschedule_task(t)

Spec == Init /\ [][Next]_machine

-----------------------------------------------------------------------------
(* Properties *)

TypeOK ==
    /\ capability \in Capabilities
    /\ usage \in [Task -> [Addr -> Usage]]
    /\ state \in [Task -> States]
    /\ rank \in [Task -> Nat]
    /\ current \in [Addr -> SUBSET Task]
    /\ blocked \in [Addr -> SUBSET Task]
    /\ count \in [Task -> Nat]
    /\ unblocked \in Seq(Task)

\* The tasks that are running, or will be without further locking, do not
\* conflict: the handlers' unreachable!() on AccountInUse rests on it.
RunnableExclusive ==
    \A t, u \in Runnable : t # u => ~Conflict(t, u)

\* With FIFO queues conflicting tasks run in the order of their arrival, the
\* order of the ledger for block verification, whatever order they finish in.
ArrivalOrder ==
    capability = "FifoQueueing" =>
        \A t, u \in Task :
            /\ Conflict(t, u) /\ rank[t] < rank[u]
            /\ state[t] # "new" /\ state[u] \in {"unblocked", "running", "done"}
            => state[t] = "done"

\* What prepare_lock, push_blocked and reinitialize assert: a queue nobody
\* holds has no blocked task, the first task blocked behind readers writes,
\* and nothing is left in any queue once no task is active.
QueueAsserts ==
    /\ \A a \in Addr :
          /\ current[a] = {} => blocked[a] = {}
          /\ \A u \in blocked[a] : \A v \in current[a] :
                Shared(u, v, a) => \E w \in blocked[a] : rank[w] < rank[u] /\ ~Shared(w, v, a)
    /\ has_no_active_task =>
          unblocked = <<>> /\ \A a \in Addr : current[a] = {} /\ blocked[a] = {}

\* Blocked tasks never wait for each other only: as long as a task is active,
\* one of them runs or can be run.
NoDeadlock == Active # {} => Runnable # {}
=============================================================================
