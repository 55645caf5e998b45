-------------------------- MODULE UnifiedScheduler --------------------------
(***************************************************************************)
(* A pooled unified scheduler of block verification and the banks it is    *)
(* installed into: unified-scheduler-pool/src/lib.rs (the scheduler        *)
(* thread, the handler threads, ThreadManager and the pool) and            *)
(* runtime/src/installed_scheduler_pool.rs (BankWithScheduler).            *)
(*                                                                         *)
(* The replay thread takes a scheduler for each bank, sends it the         *)
(* transactions of the block, and waits for it at the last tick and again  *)
(* to freeze the bank.  The pool's cleaner thread takes the scheduler away *)
(* from a bank that is not frozen in time, and drops idle schedulers.  The *)
(* scheduler thread owns the SchedulingStateMachine; handlers execute what *)
(* it makes runnable.  The first transaction error aborts the scheduler.   *)
(*                                                                         *)
(* One scheduler is followed through its sessions and, after it is         *)
(* dropped or aborted, through the next one that is spawned.  A bank that  *)
(* is inserted while it is taken gets another one, which shares nothing    *)
(* with it.  A panic is not modelled: the validator's hook ends the        *)
(* process.                                                                *)
(***************************************************************************)
EXTENDS SchedulingStateMachine

CONSTANTS Bank,        \* banks, in any order of replay
          BankOf,      \* BankOf[t]: the block of task t; blocks are in the order of ids
          Handler,     \* handler threads
          MaxTimeouts  \* MaxTimeouts[b], bound: how often a listener of b expires

ASSUME BankAssumption == BankOf \in [Task -> Bank]
ASSUME HandlerAssumption == IsFiniteSet(Handler) /\ Handler # {}
\* max_running_task_count does not limit block verification.
ASSUME RunningAssumption == MaxRunning > Cardinality(Task)

VARIABLES new_task_channel,  \* messages from the owner to the scheduler thread
          thread,            \* where the scheduler thread is
          session_ending,
          result,            \* result_with_timings of the scheduler thread
          session_results,   \* the session_result channel
          runnable,          \* the chained channels, oldest first
          finished,          \* the two channels from the handlers
          handler,           \* handler[h]
          inner,             \* where the PooledSchedulerInner is
          session_result,    \* session_result_with_timings of the ThreadManager
          joined,            \* are_threads_joined
          status,            \* status[b]: SchedulerStatus of bank b
          stale_result,      \* stale_result[b]: the result kept by Stale
          listener,          \* the banks with a registered timeout listener
          timeouts,          \* timeouts[b]: how many listeners of b expired
          life,              \* life[b]: how far the replay of b is
          outcome,           \* outcome[b]: what replay learned of the block
          sent,              \* the tasks the replay thread has scheduled
          actor,             \* actor[p]: the call thread p is in
          executed           \* executed[t]: the executions of task t

threads == <<new_task_channel, thread, session_ending, result, session_results,
             runnable, finished, handler>>
manager == <<inner, session_result, joined>>
banks   == <<status, stale_result, listener, timeouts, life, outcome, sent>>
vars    == <<machine, threads, manager, banks, actor, executed>>

Results == {"Ok", "Err"}

Payload(t)  == [kind |-> "Payload", task |-> t]
Open(b, r)  == [kind |-> "OpenSubchannel", bank |-> b, result |-> r]
Close       == [kind |-> "CloseSubchannel"]
Disconnect  == [kind |-> "Disconnect"]

\* Messages of a chained channel: tasks, and the ContextAndChannels that
\* leads a handler to the next channel and its context.
Chain == [kind |-> "ContextAndChannels"]

Process == {"replay", "cleaner"}
Idle == [at |-> "idle"]

\* The new_task_receiver is dropped by an aborted scheduler thread.
Disconnected == thread \in {"dropped", "exited"}

\* The calls that hold the write lock of the status of bank b.
WriteLocked(b) ==
    \E p \in Process : actor[p].at \in {"end", "recv", "join_receive", "join", "finish"}
                         /\ actor[p].bank = b

BlockOf(b) == {t \in Task : BankOf[t] = b}

-----------------------------------------------------------------------------
(* The scheduler thread *)

\* Mutant: can_finish_session by the rule for block production.
MaybeFinish_NoRunning(ending) ==
    \/ /\ ending /\ Running' = {}
       /\ session_results' = Append(session_results, result)
       /\ session_ending' = FALSE
       /\ thread' = "gap"
    \/ /\ ~(ending /\ Running' = {})
       /\ session_ending' = ending
       /\ UNCHANGED <<session_results, thread>>

\* can_finish_session, and the session's end when it is: the result is sent, the
\* state machine reinitialized.
MaybeFinish(ending) ==
    \/ /\ ending /\ Active' = {}
       /\ session_results' = Append(session_results, result)
       /\ session_ending' = FALSE
       /\ thread' = "gap"
    \/ /\ ~(ending /\ Active' = {})
       /\ session_ending' = ending
       /\ UNCHANGED <<session_results, thread>>

\* Sends a message on a channel of the current session.
SendRunnable(c, m) ==
    runnable' = [runnable EXCEPT ![Len(runnable)][c] = Append(@, m)]

\* recv(finished_blocked_task_receiver) and recv(finished_idle_task_receiver)
finished_task(c) ==
    /\ thread = "main" /\ finished[c] # <<>>
    /\ c = "idle" => /\ finished.blocked = <<>> /\ ~has_unblocked_task
                     /\ new_task_channel = <<>>
    /\ finished' = [finished EXCEPT ![c] = Tail(@)]
    /\ LET t == Head(finished[c]).task IN
       /\ deschedule_task(t)
       /\ \/ /\ Head(finished[c]).result = "Ok"
             /\ MaybeFinish(session_ending)
             /\ UNCHANGED result
          \/ /\ Head(finished[c]).result = "Err"
             /\ result' = "Err"
             /\ thread' = "abort"
             /\ UNCHANGED <<session_ending, session_results>>
    /\ UNCHANGED <<new_task_channel, runnable, handler, manager, banks, actor, executed>>

\* recv(dummy_unblocked_task_receiver)
unblocked_task ==
    /\ thread = "main" /\ finished.blocked = <<>>
    /\ schedule_next_unblocked_task
    /\ SendRunnable("main", Payload(Head(unblocked)))
    /\ UNCHANGED <<new_task_channel, thread, session_ending, result, session_results,
                   finished, handler, manager, banks, actor, executed>>

\* recv(new_task_receiver) within a session
new_task ==
    /\ thread = "main" /\ finished.blocked = <<>> /\ ~has_unblocked_task
    /\ new_task_channel # <<>>
    /\ new_task_channel' = Tail(new_task_channel)
    /\ \/ /\ Head(new_task_channel).kind = "Payload"
          /\ LET t == Head(new_task_channel).task IN
             /\ schedule_or_buffer_task(t, session_ending)
             /\ IF state'[t] = "running" THEN SendRunnable("aux", t) ELSE UNCHANGED runnable
          /\ MaybeFinish(session_ending)
       \/ /\ Head(new_task_channel).kind = "CloseSubchannel"
          /\ UNCHANGED <<machine, runnable>>
          /\ MaybeFinish(TRUE)
    /\ UNCHANGED <<result, finished, handler, manager, banks, actor, executed>>

\* OpenSubchannel between two sessions; send_chained_channel
open_subchannel ==
    /\ thread = "gap" /\ new_task_channel # <<>>
    /\ Head(new_task_channel).kind = "OpenSubchannel"
    /\ new_task_channel' = Tail(new_task_channel)
    /\ result' = Head(new_task_channel).result
    /\ runnable' = Append([runnable EXCEPT ![Len(runnable)].main =
                               @ \o [h \in 1..Cardinality(Handler) |-> Chain]],
                          [bank |-> Head(new_task_channel).bank, main |-> <<>>, aux |-> <<>>])
    /\ thread' = "main"
    /\ UNCHANGED <<machine, session_ending, session_results, finished, handler,
                   manager, banks, actor, executed>>

\* Disconnect between two sessions, from ThreadManager::drop
disconnected ==
    /\ thread = "gap" /\ new_task_channel # <<>>
    /\ Head(new_task_channel).kind = "Disconnect"
    /\ new_task_channel' = Tail(new_task_channel)
    /\ result' = "Ok"
    /\ thread' = "abort"
    /\ UNCHANGED <<machine, session_ending, session_results, runnable, finished, handler,
                   manager, banks, actor, executed>>

\* Nothing is left of the state machine when its thread has ended.
DropMachine ==
    /\ state' = [t \in Task |-> IF state[t] = "new" THEN "new" ELSE "done"]
    /\ current' = [a \in Addr |-> {}] /\ blocked' = [a \in Addr |-> {}]
    /\ count' = [t \in Task |-> 0] /\ unblocked' = <<>>
    /\ UNCHANGED <<capability, usage, rank>>

\* The thread's end after 'nonaborted_main_loop: the last result, the
\* new_task_receiver, and with the closure the state machine and all the
\* other channel ends.
abort ==
    /\ \/ /\ thread = "abort" /\ thread' = "sent"
          /\ session_results' = Append(session_results, result)
          /\ UNCHANGED <<machine, new_task_channel, finished>>
       \/ /\ thread = "sent" /\ thread' = "dropped"
          /\ new_task_channel' = <<>>
          /\ UNCHANGED <<machine, session_results, finished>>
       \/ /\ thread = "dropped" /\ thread' = "exited"
          /\ finished' = [blocked |-> <<>>, idle |-> <<>>]
          /\ DropMachine
          /\ UNCHANGED <<new_task_channel, session_results>>
    /\ UNCHANGED <<session_ending, result, runnable, handler,
                   manager, banks, actor, executed>>

-----------------------------------------------------------------------------
(* The handler threads *)

\* The sending end of the n-th chained channel is gone.
ChannelClosed(n) == n < Len(runnable) \/ thread = "exited"

\* One iteration up to the task: the main channel goes first, and its
\* disconnection ends the thread.
handler_receive(h) ==
    LET n == handler[h].channel
        c == runnable[n]
    IN
    /\ handler[h].at = "wait"
    /\ \/ /\ c.main # <<>> /\ Head(c.main).kind = "ContextAndChannels"
          /\ handler' = [handler EXCEPT ![h].channel = n + 1]
          /\ runnable' = [runnable EXCEPT ![n].main = Tail(@)]
       \/ /\ c.main # <<>> /\ Head(c.main).kind = "Payload"
          /\ handler' = [handler EXCEPT ![h].at = "blocked", ![h].task = Head(c.main).task]
          /\ runnable' = [runnable EXCEPT ![n].main = Tail(@)]
       \/ /\ c.main = <<>> /\ ~ChannelClosed(n) /\ c.aux # <<>>
          /\ handler' = [handler EXCEPT ![h].at = "idle", ![h].task = Head(c.aux)]
          /\ runnable' = [runnable EXCEPT ![n].aux = Tail(@)]
       \/ /\ c.main = <<>> /\ ChannelClosed(n)
          /\ handler' = [handler EXCEPT ![h].at = "exited"]
          /\ UNCHANGED runnable
    /\ UNCHANGED <<machine, new_task_channel, thread, session_ending, result, session_results,
                   finished, manager, banks, actor, executed>>

\* execute_task_with_handler in the context of the handler's channel, and the
\* answer to the channel that stands for where the task came from.
handler_execute(h) ==
    LET t == handler[h].task
        c == handler[h].at
    IN
    /\ c \in {"blocked", "idle"}
    /\ \E r \in Results :
          /\ executed' = [executed EXCEPT ![t] =
                            Append(@, [bank |-> runnable[handler[h].channel].bank, result |-> r])]
          /\ \/ /\ thread # "exited"
                /\ finished' = [finished EXCEPT ![c] = Append(@, [task |-> t, result |-> r])]
                /\ handler' = [handler EXCEPT ![h].at = "wait", ![h].task = 0]
             \/ /\ thread = "exited"
                /\ handler' = [handler EXCEPT ![h].at = "exited", ![h].task = 0]
                /\ UNCHANGED finished
    /\ UNCHANGED <<machine, new_task_channel, thread, session_ending, result, session_results,
                   runnable, manager, banks, actor>>

-----------------------------------------------------------------------------
(* The pool *)

Fresh(b) == <<[bank |-> b, main |-> <<>>, aux |-> <<>>]>>
Handlers(where) == [h \in Handler |-> [at |-> where, channel |-> 1, task |-> 0]]

\* start_threads of a newly spawned scheduler
spawn(b, r) ==
    /\ inner = "none"
    /\ thread' = "main" /\ session_ending' = FALSE /\ result' = r
    /\ new_task_channel' = <<>> /\ session_results' = <<>>
    /\ runnable' = Fresh(b) /\ handler' = Handlers("wait")
    /\ finished' = [blocked |-> <<>>, idle |-> <<>>]
    /\ joined' = FALSE /\ session_result' = "None"
    /\ UNCHANGED machine

start_session(b, r) ==
    /\ inner = "pooled"
    /\ new_task_channel' = Append(new_task_channel, Open(b, r))
    /\ UNCHANGED <<machine, thread, session_ending, result, session_results, runnable,
                   finished, handler, session_result, joined>>

\* A scheduler can be taken: from the pool, or by spawning one.
Takeable == inner \in {"pooled", "none"}

do_take_resumed_scheduler(b, r) ==
    /\ inner' = "taken"
    /\ spawn(b, r) \/ start_session(b, r)

\* Mutant: an aborted scheduler is pooled like any other.
return_scheduler_Always == inner' = "pooled"

\* An aborted scheduler is trashed; its threads are gone already.  One that
\* is trashed for too many usage queues is one that nobody takes from the
\* pool before the cleaner drops it.
return_scheduler == inner' = IF joined THEN "none" ELSE "pooled"

\* The cleaner drops a trashed or a long idle scheduler: ThreadManager::drop
drop_inner ==
    /\ actor["cleaner"].at = "idle"
    /\ inner = "pooled"
    /\ inner' = "dropping"
    /\ new_task_channel' = Append(new_task_channel, Disconnect)
    /\ actor' = [actor EXCEPT !["cleaner"] = [at |-> "join_receive", bank |-> "None", goal |-> "drop"]]
    /\ UNCHANGED <<machine, thread, session_ending, result, session_results, runnable,
                   finished, handler, session_result, joined, banks, executed>>

-----------------------------------------------------------------------------
(* ThreadManager: the calls of the scheduler's owner *)

Goes(p, where) == actor' = [actor EXCEPT ![p].at = where]

\* do_end_session up to its first blocking operation.
do_end_session(p) ==
    /\ actor[p].at = "end"
    /\ \/ /\ joined \/ session_result # "None"
          /\ Goes(p, "finish") /\ UNCHANGED new_task_channel
       \/ /\ ~joined /\ session_result = "None" /\ ~Disconnected
          /\ new_task_channel' = Append(new_task_channel, Close)
          /\ Goes(p, "recv")
       \/ /\ ~joined /\ session_result = "None" /\ Disconnected
          /\ Goes(p, "join_receive") /\ UNCHANGED new_task_channel
    /\ UNCHANGED <<machine, thread, session_ending, result, session_results, runnable,
                   finished, handler, manager, banks, executed>>

\* Mutant: the threads of an aborted scheduler are not joined.
recv_result_NoJoin(p) ==
    /\ actor[p].at = "recv" /\ session_results # <<>>
    /\ session_result' = Head(session_results)
    /\ session_results' = Tail(session_results)
    /\ Goes(p, "finish")
    /\ UNCHANGED <<machine, new_task_channel, thread, session_ending, result, runnable, finished,
                   handler, inner, joined, banks, executed>>

\* The rest of do_end_session when the session had to be ended.
recv_result(p) ==
    /\ actor[p].at = "recv" /\ session_results # <<>>
    /\ session_result' = Head(session_results)
    /\ session_results' = Tail(session_results)
    /\ Goes(p, IF Head(session_results) = "Err" THEN "join" ELSE "finish")
    /\ UNCHANGED <<machine, new_task_channel, thread, session_ending, result, runnable, finished,
                   handler, inner, joined, banks, executed>>

ensure_join_threads(p) ==
    /\ actor[p].at \in {"join", "join_receive"}
    /\ thread = "exited" /\ \A h \in Handler : handler[h].at = "exited"
    /\ joined' = TRUE /\ runnable' = <<>> /\ handler' = Handlers("exited")
    /\ \/ /\ actor[p].at = "join"
          /\ UNCHANGED <<session_result, session_results>>
       \/ /\ actor[p].at = "join_receive" /\ session_results # <<>>
          /\ session_result' = Head(session_results)
          /\ session_results' = Tail(session_results)
    /\ Goes(p, "finish")
    /\ UNCHANGED <<machine, new_task_channel, thread, session_ending, result, finished,
                   inner, banks, executed>>

-----------------------------------------------------------------------------
(* BankWithScheduler: what becomes of the result *)

\* wait_for_termination and return_to_pool are the end of these calls.
Uninstalled ==
    /\ return_scheduler
    /\ session_result' = "None"
    /\ UNCHANGED joined

finish(p) ==
    /\ actor[p].at = "finish"
    /\ LET b == actor[p].bank IN
       \/ /\ actor[p].goal = "pause"
          /\ life' = [life EXCEPT ![b] = "paused"]
          /\ UNCHANGED <<manager, status, stale_result, outcome>>
       \/ /\ actor[p].goal = "freeze"
          /\ outcome' = [outcome EXCEPT ![b] = session_result]
          /\ life' = [life EXCEPT ![b] = "done"]
          /\ status' = [status EXCEPT ![b] = "Unavailable"]
          /\ Uninstalled
          /\ UNCHANGED stale_result
       \/ /\ actor[p].goal = "discard"
          /\ life' = [life EXCEPT ![b] = "done"]
          /\ status' = [status EXCEPT ![b] = "Unavailable"]
          /\ Uninstalled
          /\ UNCHANGED <<stale_result, outcome>>
       \/ /\ actor[p].goal = "stale"
          /\ stale_result' = [stale_result EXCEPT ![b] = session_result]
          /\ status' = [status EXCEPT ![b] = "Stale"]
          /\ Uninstalled
          /\ UNCHANGED <<life, outcome>>
       \/ /\ actor[p].goal = "recover"
          /\ outcome' = [outcome EXCEPT ![b] = session_result]
          /\ life' = [life EXCEPT ![b] = "dead"]
          /\ UNCHANGED <<manager, status, stale_result>>
       \/ /\ actor[p].goal = "drop"
          /\ inner' = "none" /\ session_result' = "None"
          /\ UNCHANGED <<joined, status, stale_result, life, outcome>>
    /\ actor' = [actor EXCEPT ![p] = Idle]
    /\ UNCHANGED <<machine, threads, listener, timeouts, sent, executed>>

\* The timeout listener: it waits for the write lock.
timeout(b) ==
    /\ actor["cleaner"].at = "idle" /\ timeouts[b] < MaxTimeouts[b]
    /\ b \in listener /\ ~WriteLocked(b)
    /\ listener' = listener \ {b}
    /\ timeouts' = [timeouts EXCEPT ![b] = @ + 1]
    /\ actor' = IF status[b] = "Active"
                THEN [actor EXCEPT !["cleaner"] = [at |-> "end", bank |-> b, goal |-> "stale"]]
                ELSE actor
    /\ UNCHANGED <<machine, threads, manager, status, stale_result, life, outcome, sent, executed>>

\* BankForks::insert: install_scheduler_into_bank
insert(b) ==
    /\ actor["replay"].at = "idle" /\ life[b] = "absent" /\ Takeable
    /\ do_take_resumed_scheduler(b, "Ok")
    /\ status' = [status EXCEPT ![b] = "Active"]
    /\ listener' = listener \cup {b}
    /\ life' = [life EXCEPT ![b] = "replaying"]
    /\ UNCHANGED <<stale_result, timeouts, outcome, sent, actor, executed>>

\* The next transaction of b to be scheduled.
NextOf(b) == CHOOSE t \in BlockOf(b) \ sent : \A u \in BlockOf(b) \ sent : t <= u

\* schedule_execution: the send fails once the scheduler thread is gone, and
\* the call goes on to retrieve the error.
send_task(b) ==
    \/ /\ ~Disconnected
       /\ new_task_channel' = Append(new_task_channel, Payload(NextOf(b)))
       /\ sent' = sent \cup {NextOf(b)}
       /\ actor' = [actor EXCEPT !["replay"] = Idle]
    \/ /\ Disconnected
       /\ actor' = [actor EXCEPT !["replay"] = [at |-> "recover", bank |-> b]]
       /\ UNCHANGED <<new_task_channel, sent>>

\* schedule_transaction_executions of one transaction, up to the end of its
\* first read lock (with_active_scheduler).
schedule_transaction_executions(b) ==
    /\ actor["replay"].at = "idle" /\ life[b] = "replaying" /\ ~(BlockOf(b) \subseteq sent)
    /\ ~WriteLocked(b)
    /\ \/ /\ status[b] = "Active"
          /\ send_task(b)
       \/ /\ status[b] = "Stale" /\ stale_result[b] = "Err"
          /\ actor' = [actor EXCEPT !["replay"] = [at |-> "recover", bank |-> b]]
          /\ UNCHANGED <<new_task_channel, sent>>
       \/ /\ status[b] = "Stale" /\ stale_result[b] = "Ok" /\ Takeable
          /\ actor' = [actor EXCEPT !["replay"] = [at |-> "resume", bank |-> b]]
          /\ UNCHANGED <<new_task_channel, sent>>
    /\ UNCHANGED <<machine, thread, session_ending, result, session_results, runnable,
                   finished, handler, manager, status, stale_result, listener, timeouts,
                   life, outcome, executed>>

\* Mutant: the new listener is registered before the read lock is taken.
transition_from_stale_to_active_Registers ==
    /\ actor["replay"].at = "resume"
    /\ LET b == actor["replay"].bank IN
       /\ ~WriteLocked(b)
       /\ do_take_resumed_scheduler(b, stale_result[b])
       /\ status' = [status EXCEPT ![b] = "Active"]
       /\ stale_result' = [stale_result EXCEPT ![b] = "None"]
       /\ listener' = listener \cup {b}
    /\ Goes("replay", "resend")
    /\ UNCHANGED <<timeouts, life, outcome, sent, executed>>

\* with_active_scheduler: a stale bank takes a scheduler again, under the
\* write lock, ...
transition_from_stale_to_active ==
    /\ actor["replay"].at = "resume"
    /\ LET b == actor["replay"].bank IN
       /\ ~WriteLocked(b)
       /\ do_take_resumed_scheduler(b, stale_result[b])
       /\ status' = [status EXCEPT ![b] = "Active"]
       /\ stale_result' = [stale_result EXCEPT ![b] = "None"]
    /\ Goes("replay", "resend")
    /\ UNCHANGED <<listener, timeouts, life, outcome, sent, executed>>

\* ... and then schedules under a read lock, with a new timeout listener.
with_resumed_scheduler ==
    /\ actor["replay"].at = "resend"
    /\ LET b == actor["replay"].bank IN
       /\ ~WriteLocked(b) /\ status[b] = "Active"
       /\ listener' = listener \cup {b}
       /\ send_task(b)
    /\ UNCHANGED <<machine, thread, session_ending, result, session_results, runnable,
                   finished, handler, manager, status, stale_result, timeouts,
                   life, outcome, executed>>

\* Replay marks the bank dead with the error.
retrieve_error_after_schedule_failure ==
    /\ actor["replay"].at = "recover"
    /\ LET b == actor["replay"].bank IN
       /\ ~WriteLocked(b)
       /\ \/ /\ status[b] = "Active"
             /\ actor' = [actor EXCEPT !["replay"] =
                             [at |-> IF joined THEN "finish" ELSE "join_receive",
                              bank |-> b, goal |-> "recover"]]
             /\ UNCHANGED <<life, outcome>>
          \/ /\ status[b] = "Stale" /\ stale_result[b] = "Err"
             /\ outcome' = [outcome EXCEPT ![b] = "Err"]
             /\ life' = [life EXCEPT ![b] = "dead"]
             /\ actor' = [actor EXCEPT !["replay"] = Idle]
    /\ UNCHANGED <<machine, threads, manager, status, stale_result, listener, timeouts,
                   sent, executed>>

\* When the replay thread waits: at the last tick of the complete block, to
\* freeze the bank, and when the bank is pruned or dead.
MayWait(b, reason) ==
    \/ reason = "pause" /\ life[b] = "replaying" /\ BlockOf(b) \subseteq sent
    \/ reason = "freeze" /\ life[b] = "paused"
    \/ reason = "discard" /\ life[b] \in {"replaying", "paused", "dead"}

wait_for_scheduler_termination(b, reason) ==
    /\ actor["replay"].at = "idle" /\ MayWait(b, reason) /\ ~WriteLocked(b)
    /\ \/ /\ status[b] = "Active"
          /\ actor' = [actor EXCEPT !["replay"] = [at |-> "end", bank |-> b, goal |-> reason]]
          /\ UNCHANGED <<status, life, outcome>>
       \/ /\ status[b] = "Stale" /\ reason = "pause"
          /\ life' = [life EXCEPT ![b] = "paused"]
          /\ UNCHANGED <<actor, status, outcome>>
       \/ /\ status[b] = "Stale" /\ reason # "pause"
          /\ status' = [status EXCEPT ![b] = "Unavailable"]
          /\ life' = [life EXCEPT ![b] = "done"]
          /\ outcome' = IF reason = "freeze" THEN [outcome EXCEPT ![b] = stale_result[b]]
                        ELSE outcome
          /\ UNCHANGED actor
    /\ UNCHANGED <<machine, threads, manager, stale_result, listener, timeouts, sent, executed>>

-----------------------------------------------------------------------------
PoolInit ==
    /\ Init /\ capability = "FifoQueueing"
    /\ new_task_channel = <<>> /\ thread = "exited" /\ session_ending = FALSE
    /\ result = "Ok" /\ session_results = <<>> /\ runnable = <<>>
    /\ finished = [blocked |-> <<>>, idle |-> <<>>]
    /\ handler = Handlers("exited")
    /\ inner = "none" /\ session_result = "None" /\ joined = TRUE
    /\ status = [b \in Bank |-> "Unavailable"]
    /\ stale_result = [b \in Bank |-> "None"]
    /\ listener = {} /\ timeouts = [b \in Bank |-> 0]
    /\ life = [b \in Bank |-> "absent"]
    /\ outcome = [b \in Bank |-> "None"]
    /\ sent = {} /\ actor = [p \in Process |-> Idle]
    /\ executed = [t \in Task |-> <<>>]

SchedulerThread ==
    \/ \E c \in {"blocked", "idle"} : finished_task(c)
    \/ unblocked_task \/ new_task \/ open_subchannel \/ disconnected \/ abort

HandlerThread(h) == handler_receive(h) \/ handler_execute(h)

\* The blocking steps of a call that a thread is in.
Call(p) == do_end_session(p) \/ recv_result(p) \/ ensure_join_threads(p) \/ finish(p)

ReplayCall ==
    \/ transition_from_stale_to_active \/ with_resumed_scheduler
    \/ retrieve_error_after_schedule_failure

ReplayThread ==
    \E b \in Bank :
        \/ insert(b)
        \/ schedule_transaction_executions(b)
        \/ \E reason \in {"pause", "freeze", "discard"} : wait_for_scheduler_termination(b, reason)

PoolNext ==
    \/ SchedulerThread
    \/ \E h \in Handler : HandlerThread(h)
    \/ \E p \in Process : Call(p)
    \/ ReplayCall
    \/ ReplayThread
    \/ drop_inner
    \/ \E b \in Bank : timeout(b)

PoolSpec == PoolInit /\ [][PoolNext]_vars

\* Threads that can run do.  Nothing makes the replay thread start a call,
\* or a listener expire.
PoolFairSpec ==
    /\ PoolSpec
    /\ WF_vars(SchedulerThread)
    /\ \A h \in Handler : WF_vars(HandlerThread(h))
    /\ \A p \in Process : WF_vars(Call(p))
    /\ WF_vars(ReplayCall)

-----------------------------------------------------------------------------
(* Properties *)

\* A transaction is executed in the bank of its block, and only while that
\* bank has a scheduler: handlers learn of a new session on their own, by the
\* chained channels, and may still be executing when another one has failed.
OnlyInItsBank ==
    /\ \A t \in Task : \A i \in DOMAIN executed[t] : executed[t][i].bank = BankOf[t]
    /\ \A h \in Handler :
          handler[h].at \in {"blocked", "idle"} =>
              LET b == BankOf[handler[h].task] IN
              life[b] # "done" /\ status[b] = "Active"

\* "Any transaction errors are always handled without loss of information":
\* a block is good only if each transaction succeeded, once, and bad only if
\* one of its own failed, through pauses, timeouts, resumed sessions and aborts.
ResultExact ==
    \A b \in Bank :
        /\ outcome[b] = "Ok" =>
              \A t \in BlockOf(b) : executed[t] = <<[bank |-> b, result |-> "Ok"]>>
        /\ outcome[b] = "Err" =>
              \E t \in BlockOf(b) : executed[t] # <<>> /\ executed[t][1].result = "Err"

\* A pooled scheduler can take its next session: its thread is between
\* sessions, and nothing is left of the last one.
PooledIsReusable ==
    inner = "pooled" =>
        /\ thread = "gap" /\ ~joined
        /\ new_task_channel = <<>> /\ session_results = <<>> /\ session_result = "None"
        /\ Active = {} /\ finished.blocked = <<>> /\ finished.idle = <<>>

\* None of the assertions and unreachable!()s of the threads can fail.
NoPanic ==
    \* start_session: "no new session after aborted", reinitialize
    /\ PooledIsReusable
    \* A message within a session is a task or, once, its end.
    /\ thread = "main" /\ new_task_channel # <<>> =>
          ~session_ending /\ Head(new_task_channel).kind \in {"Payload", "CloseSubchannel"}
    /\ thread = "gap" /\ new_task_channel # <<>> =>
          Head(new_task_channel).kind \in {"OpenSubchannel", "Disconnect"}
    \* send_payload().unwrap(), expect("alive handler")
    /\ thread \in {"main", "gap"} => \A h \in Handler : handler[h].at # "exited"
    \* put_session_result_with_timings, ThreadManager::drop
    /\ \A p \in Process :
          /\ actor[p].at \in {"recv", "join_receive"} => session_result = "None"
          /\ actor[p].at = "finish" => session_result # "None"
          /\ actor[p].at = "finish" /\ actor[p].goal = "recover" => session_result = "Err"
          /\ actor[p].at = "finish" /\ actor[p].goal = "drop" => session_result = "Ok"
    \* transition_from_stale_to_active, active_scheduler,
    \* retrieve_error_after_schedule_failure
    /\ actor["replay"].at = "resume" =>
          status[actor["replay"].bank] = "Stale" /\ stale_result[actor["replay"].bank] = "Ok"
    /\ actor["replay"].at = "resend" => status[actor["replay"].bank] = "Active"
    /\ actor["replay"].at = "recover" =>
          \/ status[actor["replay"].bank] = "Active"
          \/ status[actor["replay"].bank] = "Stale" /\ stale_result[actor["replay"].bank] = "Err"
    /\ \A b \in Bank : life[b] \in {"replaying", "paused"} => status[b] # "Unavailable"

\* The replay thread and the cleaner are not held up forever, by each other,
\* by the scheduler or by handlers.
CallReturns == \A p \in Process : []<>(actor[p].at = "idle")
=============================================================================
