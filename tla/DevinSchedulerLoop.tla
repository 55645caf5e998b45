------------------------- MODULE DevinSchedulerLoop -------------------------
(***************************************************************************)
(* pop() and finish() of DevinScheduler as the loops the code runs, one    *)
(* transaction per iteration.  DevinScheduler states their results in      *)
(* closed form, over the set of transactions a call schedules; TLC checks  *)
(* here that both agree in every reachable state.                          *)
(***************************************************************************)
EXTENDS MCDevinScheduler, SequencesExt

lock_one(i, locks) ==
    [a \in Accounts |->
        CASE a \in transactions[i].write -> LockMax
          [] a \in transactions[i].read -> SaturatingAdd(locks[a], 1)
          [] OTHER -> locks[a]]

unlock_one(i, locks) ==
    [a \in Accounts |->
        CASE a \in transactions[i].write -> 0
          [] a \in transactions[i].read -> SaturatingSub(locks[a], 1)
          [] OTHER -> locks[a]]

\* The loop's local variables and the fields it changes, before an iteration.
Entry == [value |-> <<>>, cost |-> 0, running |-> running_locks,
          skipped |-> skipped_locks, next |-> next]

RECURSIVE PopLoop(_, _)
PopLoop(seen, st) ==
    IF seen = <<>> THEN st
    ELSE LET i == Head(seen)
             took == [st EXCEPT !.value = Append(@, i),
                                !.cost = @ + transactions[i].cost,
                                !.running = lock_one(i, @)]
         IN  CASE st.value # <<>> /\ i # Last(st.value) + 1 -> st
               [] is_blocked(i, st.running) \/ is_blocked(i, st.skipped) ->
                      [st EXCEPT !.next = @ + 1, !.skipped = lock_one(i, @)]
               [] took.cost > MAX_COST -> took
               [] OTHER -> PopLoop(Tail(seen), took)

\* indices.iter().skip(next).take(MAX_RANGE)
Window == SubSeq(indices, next + 1, Min({next + MAX_RANGE, Len(indices)}))

\* indices after drain(start..start + len), start being the first position of
\* the range's first transaction.
Drained(value) ==
    IF value = <<>> THEN indices
    ELSE LET start == SelectInSeq(indices, LAMBDA i : i = Head(value))
         IN  SubSeq(indices, 1, start - 1)
                \o SubSeq(indices, start + Len(value), Len(indices))

(***************************************************************************)
(* The closed form of pop() is what the loop computes: the same range, the *)
(* same lock maps, the same `next` and the same remaining indices; and the *)
(* loop always determines one result.                                      *)
(***************************************************************************)
PopIsTheLoop ==
    LET res == PopLoop(Window, Entry)
    IN  \A k \in 0..(Len(indices) - next) :
            /\ Schedules(k) <=> k = Len(res.value)
            /\ Schedules(k) =>
                 /\ Scanned(k) = ToSet(res.value)
                 /\ lock_accounts(Scanned(k), running_locks) = res.running
                 /\ Reaches(k) <=> res.next = next + 1
                 /\ Reaches(k) =>
                       lock_accounts({Candidate(k + 1)}, skipped_locks) = res.skipped
                 /\ ~Reaches(k) =>
                       res.next = next /\ res.skipped = skipped_locks
                 /\ Drain(indices, next, k) = Drained(res.value)

(***************************************************************************)
(* finish() unlocks its transactions one by one, in order; the closed form *)
(* over the whole range gives the same lock map.                           *)
(***************************************************************************)
FinishIsTheLoop ==
    \A range \in running :
        unlock_accounts(range, running_locks)
            = FoldLeft(LAMBDA locks, i : unlock_one(i, locks), running_locks,
                       SetToSortSeq(range, <))

(***************************************************************************)
(* The closed forms of pop() and finish() that the model steps with are    *)
(* what the loops of the code compute, in every state that is reached.     *)
(***************************************************************************)
ClosedForms == PopIsTheLoop /\ FinishIsTheLoop
=============================================================================
