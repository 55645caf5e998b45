-------------------------- MODULE SchedulerSync_proof --------------------------
(***************************************************************************)
(* For any slots, any vanilla threads and any number of workers, the       *)
(* protocol of SchedulerSync keeps the block stage apart from every other  *)
(* thread, and lets a block only into a slot nobody but the vote worker    *)
(* has used.                                                               *)
(***************************************************************************)
EXTENDS SchedulerSync, TLAPS

\* Most steps need no arithmetic: Zenon proves them unless SMT is named.
USE ZenonT(40)

-----------------------------------------------------------------------------
(* The inductive invariant.                                                *)

\* The pcs at which the block stage has claimed its slot and not yet released it.
Claiming == {"wait", "prepare", "lock", "record", "execute", "finished", "failed"}

Owned(s) == status[s] \in {"created", "set", "open", "shut", "ended"}

\* Vanilla has been given slot s, or a later slot has been claimed.
Settled(s) ==
    /\ state # SENTINEL
    /\ get_slot(state) >= s
    /\ state # block_claim(s)

\* A thread holds a bank of ours, and work is for a bank of ours.
BanksOwned ==
    /\ \A s \in Slots : status[s] = "foreign" => s \notin Mine
    /\ \A p \in Processes : slot[p] \in Slots => Owned(slot[p])
    /\ slot["block"] \in Slots => slot["block"] \in Mine
    /\ \A w \in Workers : \A s \in work[w] : Owned(s)

\* The block stage works on the highest bank: once we own a higher one, its
\* own has ended.
BlockIsHighest ==
    slot["block"] \in Slots =>
        \A s \in Slots : s > slot["block"] /\ Owned(s) => status[slot["block"]] = "ended"

\* The claim a block made stays in the state word until it is released, or
\* until the bank has ended and a later slot is claimed.
ClaimHeld ==
    pc["block"] \in Claiming =>
        \/ state = block_claim(slot["block"])
        \/ /\ state # SENTINEL
           /\ get_slot(state) > slot["block"]
           /\ status[slot["block"]] = "ended"

\* Only the block stage puts a block claim into the state word.
ClaimOwned ==
    is_block_claim(state) => pc["block"] \in Claiming /\ state = block_claim(slot["block"])

\* The flag is up from the moment it is raised until the batch is over.
FlagUp ==
    pc["vote"] \in {"check", "defer", "execute", "commit", "end"} => vote_processing

\* The vote worker's half of BlockExclusive.
VotesOut ==
    pc["block"] \in {"prepare", "lock", "record", "execute"}
        /\ slot["vote"] = slot["block"] =>
            /\ pc["vote"] # "commit"
            /\ pc["vote"] = "execute" => status[slot["vote"]] = "ended"

\* A vanilla thread that was granted a slot finds it settled, for good.
GrantsSettled ==
    /\ \A p \in Vanilla \cup Workers :
           pc[p] \in {"granted", "execute", "commit"} => Settled(slot[p])
    /\ \A w \in Workers : \A s \in work[w] : Settled(s)

\* While a block has the slot, vanilla is not granted it anywhere.
VanillaOut ==
    pc["block"] \in Claiming =>
        /\ \A p \in Vanilla \cup Workers :
               slot[p] = slot["block"] => pc[p] \notin {"granted", "execute", "commit"}
        /\ \A w \in Workers : slot["block"] \notin work[w]

\* A slot with records is settled, except while the block that was recorded
\* still holds it.
RecordsSettled ==
    \A s \in Slots :
        recorded[s] # {} =>
            \/ Settled(s)
            \/ pc["block"] \in {"execute", "finished"} /\ slot["block"] = s

\* A vanilla scheduler that does not run stays idle.
IdleUnlessRun ==
    /\ "bundles" \notin Vanilla => pc["bundles"] = "idle"
    /\ "scheduler" \notin Vanilla => pc["scheduler"] = "idle"

IInv ==
    /\ TypeOK /\ BanksOwned /\ BlockIsHighest /\ ClaimHeld /\ ClaimOwned /\ FlagUp
    /\ VotesOut /\ GrantsSettled /\ VanillaOut /\ RecordsSettled /\ BlockFirst
    /\ IdleUnlessRun
-----------------------------------------------------------------------------
(* The packed word, for slots far below the sentinel.                      *)

\* For a slot below the sentinel, packing and unpacking the state word agree.
LEMMA Encoding ==
    ASSUME NEW s \in Slots
    PROVE  /\ s \in Nat /\ s > 0
           /\ get_slot(s) = s
           /\ vanilla_claim(s) = s /\ block_claim(s) = s + BLOCK_CLAIMED_BIT
           /\ vanilla_claim(wrapping_pred(s)) = s - 1
           /\ block_claim(s) < SENTINEL /\ block_claim(s) >= BLOCK_CLAIMED_BIT
           /\ s < BLOCK_CLAIMED_BIT /\ SENTINEL = 2 * BLOCK_CLAIMED_BIT - 1
           /\ SENTINEL \in Nat /\ BLOCK_CLAIMED_BIT \in Nat
  BY SlotsAssumption, SMTT(30) DEF get_slot, vanilla_claim, block_claim, wrapping_pred, SENTINEL

\* Types of the threads and of the places they can be in.
LEMMA Names ==
    /\ "block" \in Processes /\ "vote" \in Processes
    /\ "scheduler" \in Processes /\ "bundles" \in Processes
    /\ Vanilla \subseteq Processes /\ Workers \subseteq Processes
    /\ Executors \subseteq Processes
    /\ "block" \notin Vanilla /\ "vote" \notin Vanilla
    /\ "block" \notin Workers /\ "vote" \notin Workers
    /\ "scheduler" \notin Workers /\ "bundles" \notin Workers
    /\ NoSlot \notin Slots
  BY ThreadsAssumption, SlotsAssumption, SMTT(30) DEF Processes, Executors, Threads, NoSlot

\* Settled(s) is never undone.
LEMMA SettledStable ==
    ASSUME TypeOK, NEW s \in Slots, Settled(s), NEW t \in Slots,
           \/ state' = state
           \/ Claimable(t) /\ state' = vanilla_claim(t)
           \/ Claimable(t) /\ state' = block_claim(t)
           \/ is_block_executing(t) /\ state' = vanilla_claim(t)
           \/ is_block_executing(t) /\ state' = vanilla_claim(wrapping_pred(t))
    PROVE  Settled(s)'
  BY Encoding, SMTT(30) DEF TypeOK, Settled, Claimable, is_block_executing, ClaimedFor,
                  is_block_claim, get_slot, block_claim

\* The invariant holds when the process starts.
LEMMA InitInv == Init => IInv
  <1> SUFFICES ASSUME Init PROVE IInv
    OBVIOUS
  <1> USE Names DEF Init
  <1>1. TypeOK
    <2>1. state \in 0 .. SENTINEL
      BY SlotsAssumption, SMTT(30) DEF SENTINEL
    <2>2. vote_processing \in BOOLEAN /\ status \in [Slots -> Statuses]
            /\ fallback \subseteq Slots
      BY DEF Statuses
    <2>3. /\ pc \in [Processes -> PCs] /\ slot \in [Processes -> Slots \cup {NoSlot}]
          /\ \A p \in Processes : slot[p] = NoSlot <=> pc[p] = "idle"
      BY DEF PCs
    <2>4. work \in [Workers -> SUBSET Slots] /\ recorded \in [Slots -> SUBSET Sources]
      OBVIOUS
    <2> QED
      BY <2>1, <2>2, <2>3, <2>4 DEF TypeOK
  <1>2. BanksOwned /\ BlockIsHighest /\ ClaimHeld /\ ClaimOwned /\ FlagUp
    BY DEF BanksOwned, BlockIsHighest, ClaimHeld, ClaimOwned, FlagUp, Claiming,
           is_block_claim
  <1>3. VotesOut /\ GrantsSettled /\ VanillaOut /\ RecordsSettled /\ BlockFirst
    BY DEF VotesOut, GrantsSettled, VanillaOut, RecordsSettled, BlockFirst, Claiming
  <1>4. IdleUnlessRun
    BY DEF IdleUnlessRun
  <1> QED
    BY <1>1, <1>2, <1>3, <1>4 DEF IInv

-----------------------------------------------------------------------------
(* The environment: only status and fallback change.                       *)

\* The replay stage and the PoH service keep the invariant.
LEMMA EnvironmentInv == IInv /\ Environment => IInv'
  <1> SUFFICES ASSUME IInv, Environment PROVE IInv'
    OBVIOUS
  <1>1. PICK s \in Slots :
            \/ NewTpuBank(s) \/ ForeignBank(s) \/ SetBank(s) \/ RestartChannel(s)
            \/ TickPastDelegation(s) \/ ShutdownChannel(s) \/ LastTick(s) \/ Reset(s)
    BY DEF Environment
  <1>2. EnvironmentOnly
    BY <1>1 DEF NewTpuBank, ForeignBank, SetBank, RestartChannel, TickPastDelegation,
                ShutdownChannel, LastTick, Reset
  <1>3. TypeOK'
    BY <1>1, <1>2 DEF IInv, TypeOK, Statuses, EnvironmentOnly, NewTpuBank, ForeignBank,
        SetBank, RestartChannel, TickPastDelegation, ShutdownChannel, LastTick, Reset
  <1>4. /\ \A t \in Slots : Owned(t) => Owned(t)'
        /\ \A t \in Slots : status[t] = "ended" => status'[t] = "ended"
    BY <1>1 DEF IInv, TypeOK, Statuses, Owned, NewTpuBank, ForeignBank,
        SetBank, RestartChannel, TickPastDelegation, ShutdownChannel, LastTick, Reset, Leads
  <1>5. BanksOwned'
    <2>1. \A t \in Slots : status'[t] = "foreign" => t \notin Mine
      BY <1>1 DEF IInv, TypeOK, BanksOwned, NewTpuBank, ForeignBank,
        SetBank, RestartChannel, TickPastDelegation, ShutdownChannel, LastTick, Reset
    <2> QED
      BY <1>2, <1>4, <2>1 DEF IInv, TypeOK, BanksOwned, EnvironmentOnly
  <1>6. BlockIsHighest'
    <2> SUFFICES ASSUME slot["block"] \in Slots, NEW t \in Slots,
                        t > slot["block"], Owned(t)'
                 PROVE  status'[slot["block"]] = "ended"
      BY <1>2 DEF BlockIsHighest, EnvironmentOnly
    <2>1. CASE Owned(t)
      BY <2>1, <1>4 DEF IInv, BlockIsHighest
    <2>2. CASE ~Owned(t)
      <3>1. NewTpuBank(s) /\ s = t
        BY <1>1, <2>2 DEF IInv, TypeOK, Owned, NewTpuBank, ForeignBank,
          SetBank, RestartChannel, TickPastDelegation, ShutdownChannel, LastTick, Reset
      <3>2. Owned(slot["block"]) /\ status[slot["block"]] = "ended"
        BY <3>1, Names DEF IInv, BanksOwned, Owned, NewTpuBank
      <3> QED
        BY <3>2, <1>4
    <2> QED
      BY <2>1, <2>2
  <1>7. ClaimHeld'
    BY <1>2, <1>4, Names DEF IInv, TypeOK, ClaimHeld, EnvironmentOnly, Claiming
  <1>8. VotesOut'
    BY <1>2, <1>4, Names DEF IInv, TypeOK, VotesOut, EnvironmentOnly
  <1>9. ClaimOwned' /\ FlagUp' /\ BlockFirst' /\ IdleUnlessRun' /\ VanillaOut'
    BY <1>2 DEF IInv, ClaimOwned, FlagUp, BlockFirst, IdleUnlessRun, VanillaOut,
                EnvironmentOnly
  <1>10. GrantsSettled' /\ RecordsSettled'
    BY <1>2 DEF IInv, GrantsSettled, RecordsSettled, Settled, EnvironmentOnly
  <1> QED
    BY <1>3, <1>5, <1>6, <1>7, <1>8, <1>9, <1>10 DEF IInv

-----------------------------------------------------------------------------
(* Moves of a thread other than the block stage that change nothing shared. *)

\* A move keeps the invariant when the place it leads to is justified: the
\* flag for a vote batch, an ended bank or no block for its execution, and a
\* settled slot the block does not hold for a grant.
LEMMA ThreadMove ==
    ASSUME IInv, NEW p \in Processes \ {"block"}, NEW l \in PCs,
           pc[p] # "idle", OnlyGoto(p, l),
           p = "vote" => /\ l \in {"check", "defer", "execute", "end"} => vote_processing
                         /\ l # "commit"
                         /\ l = "execute" /\ pc["block"] \in Claiming
                                /\ slot["vote"] = slot["block"]
                              => status[slot["vote"]] = "ended",
           p \in Vanilla \cup Workers /\ l \in {"granted", "execute", "commit"}
               => /\ Settled(slot[p])
                  /\ pc["block"] \in Claiming => slot[p] # slot["block"]
    PROVE  IInv'
  <1> USE Names
  <1>1. TypeOK'
    BY DEF IInv, TypeOK, OnlyGoto, Goto
  <1>2. /\ pc'["block"] = pc["block"] /\ slot'["block"] = slot["block"]
        /\ \A q \in Processes \ {p} : pc'[q] = pc[q] /\ slot'[q] = slot[q]
        /\ pc'[p] = l
        /\ slot'[p] = slot[p] \/ (l = "idle" /\ slot'[p] = NoSlot)
        /\ UNCHANGED <<state, vote_processing, status, fallback, work, recorded>>
    <2>1. /\ pc \in [Processes -> PCs] /\ p \in Processes /\ "block" \in Processes \ {p}
          /\ slot \in [Processes -> Slots \cup {NoSlot}]
      BY DEF IInv, TypeOK
    <2>2. pc'[p] = l /\ \A q \in Processes \ {p} : pc'[q] = pc[q]
      BY <2>1 DEF OnlyGoto, Goto
    <2>3. \A q \in Processes \ {p} : slot'[q] = slot[q]
      BY <2>1 DEF OnlyGoto, Goto
    <2>4. slot'[p] = slot[p] \/ (l = "idle" /\ slot'[p] = NoSlot)
      BY <2>1 DEF OnlyGoto, Goto
    <2>5. UNCHANGED <<state, vote_processing, status, fallback, work, recorded>>
      BY DEF OnlyGoto
    <2> QED
      BY <2>1, <2>2, <2>3, <2>4, <2>5
  <1>3. BanksOwned'
    BY <1>2, SMTT(30) DEF IInv, BanksOwned, Owned
  <1>4. BlockIsHighest' /\ ClaimHeld' /\ ClaimOwned' /\ RecordsSettled' /\ BlockFirst'
    BY <1>2, SMTT(30) DEF IInv, BlockIsHighest, Owned, ClaimHeld, ClaimOwned, RecordsSettled,
                BlockFirst, Settled
  <1>5. FlagUp'
    BY <1>2 DEF IInv, FlagUp
  <1>6. VotesOut'
    BY <1>2 DEF IInv, VotesOut, Claiming
  <1>7. GrantsSettled'
    BY <1>2 DEF IInv, GrantsSettled, Settled
  <1>8. VanillaOut'
    BY <1>2 DEF IInv, VanillaOut
  <1>9. IdleUnlessRun'
    BY <1>2 DEF IInv, IdleUnlessRun
  <1> QED
    BY <1>1, <1>3, <1>4, <1>5, <1>6, <1>7, <1>8, <1>9 DEF IInv

\* Taking hold of a bank of ours, at a place where nothing is granted yet.
LEMMA DecideInv ==
    ASSUME IInv, NEW p \in {"vote"} \cup Vanilla, NEW s \in Slots,
           NEW l \in {"begin", "tick"}, Decide(p, s, l)
    PROVE  IInv'
  <1> USE Names DEF Decide, TakeBank
  <1>1. TypeOK'
    <2>1. p \in Processes /\ l \in PCs /\ l # "idle" /\ s # NoSlot
      BY DEF PCs
    <2>2. /\ pc' \in [Processes -> PCs]
          /\ slot' \in [Processes -> Slots \cup {NoSlot}]
          /\ \A q \in Processes : slot'[q] = NoSlot <=> pc'[q] = "idle"
      BY <2>1 DEF IInv, TypeOK
    <2> QED
      BY <2>2 DEF IInv, TypeOK
  <1>2. /\ pc'["block"] = pc["block"] /\ slot'["block"] = slot["block"]
        /\ \A q \in Processes \ {p} : pc'[q] = pc[q] /\ slot'[q] = slot[q]
        /\ pc'[p] = l /\ slot'[p] = s /\ l \notin {"granted", "execute", "commit"}
        /\ Owned(s)
    BY SMTT(30) DEF IInv, TypeOK, Owned, Leads
  <1>3. BanksOwned'
    BY <1>2 DEF IInv, BanksOwned, Owned
  <1>4. BlockIsHighest' /\ ClaimHeld' /\ ClaimOwned' /\ RecordsSettled' /\ BlockFirst'
    BY <1>2, SMTT(30) DEF IInv, BlockIsHighest, Owned, ClaimHeld, ClaimOwned, RecordsSettled,
                BlockFirst, Settled
  <1>5. FlagUp' /\ VotesOut'
    BY <1>2 DEF IInv, FlagUp, VotesOut
  <1>6. GrantsSettled'
    BY <1>2 DEF IInv, GrantsSettled, Settled
  <1>7. VanillaOut'
    BY <1>2 DEF IInv, VanillaOut
  <1>8. IdleUnlessRun'
    BY <1>2 DEF IInv, IdleUnlessRun
  <1> QED
    BY <1>1, <1>3, <1>4, <1>5, <1>6, <1>7, <1>8 DEF IInv

-----------------------------------------------------------------------------
(* The vote worker.                                                        *)

\* Raising or lowering VOTE_PROCESSING keeps the invariant.
LEMMA FlagMove ==
    ASSUME IInv, NEW b \in BOOLEAN, NEW l \in {"check", "idle", "begin"},
           pc["vote"] # "idle", OnlyFlag("vote", b, l), l = "check" => b
    PROVE  IInv'
  <1> USE Names
  <1>1. /\ pc \in [Processes -> PCs] /\ "vote" \in Processes /\ l \in PCs
        /\ slot \in [Processes -> Slots \cup {NoSlot}]
    BY DEF IInv, TypeOK, PCs
  <1>2. /\ pc'["vote"] = l /\ \A q \in Processes \ {"vote"} : pc'[q] = pc[q]
        /\ slot'["vote"] = slot["vote"] \/ (l = "idle" /\ slot'["vote"] = NoSlot)
        /\ \A q \in Processes \ {"vote"} : slot'[q] = slot[q]
        /\ UNCHANGED <<state, status, fallback, work, recorded>>
    BY <1>1 DEF OnlyFlag, Goto
  <1>3. TypeOK'
    BY <1>1 DEF IInv, TypeOK, OnlyFlag, Goto
  <1>4. BanksOwned'
    BY <1>2, SMTT(30) DEF IInv, BanksOwned, Owned
  <1>5. BlockIsHighest' /\ ClaimHeld' /\ ClaimOwned' /\ RecordsSettled' /\ BlockFirst'
    BY <1>2, SMTT(30) DEF IInv, BlockIsHighest, Owned, ClaimHeld, ClaimOwned, RecordsSettled,
                BlockFirst, Settled
  <1>6. FlagUp' /\ VotesOut'
    BY <1>2 DEF IInv, FlagUp, VotesOut, OnlyFlag
  <1>7. GrantsSettled'
    BY <1>2 DEF IInv, GrantsSettled, Settled
  <1>8. VanillaOut' /\ IdleUnlessRun'
    BY <1>2 DEF IInv, VanillaOut, IdleUnlessRun
  <1> QED
    BY <1>3, <1>4, <1>5, <1>6, <1>7, <1>8 DEF IInv

\* Recording a batch: a vote batch only while no block has the slot, and a
\* vanilla batch only into a settled slot.
LEMMA ExecutorInv == ASSUME IInv, NEW p \in Executors, ExecutorStep(p) PROVE IInv'
  <1> USE Names
  <1>1. p \in Processes \ {"block"} /\ "commit" \in PCs /\ Done(p) \in PCs
    BY DEF Executors, PCs, Done
  <1>2. Done(p) \notin {"check", "defer", "execute", "granted", "commit"}
    BY DEF Done
  <1>3. pc[p] \in {"execute", "commit"}
    BY DEF ExecutorStep, Record, Commit
  <1>4. CASE OnlyGoto(p, Done(p))
    <2>1. p = "vote" => vote_processing
      BY <1>3 DEF IInv, FlagUp
    <2> QED
      BY <1>1, <1>2, <1>3, <1>4, <2>1, ThreadMove
  <1>5. CASE /\ pc[p] = "execute" /\ status[slot[p]] = "open"
             /\ recorded' = IF p = "vote" THEN recorded
                            ELSE [recorded EXCEPT ![slot[p]] = @ \cup {"vanilla"}]
             /\ Goto(p, "commit")
             /\ UNCHANGED <<state, vote_processing, status, fallback, work>>
    <2>1. /\ pc \in [Processes -> PCs] /\ slot' = slot
          /\ pc'[p] = "commit" /\ \A q \in Processes \ {p} : pc'[q] = pc[q]
          /\ pc'["block"] = pc["block"] /\ slot[p] \in Slots
      BY <1>1, <1>5 DEF IInv, TypeOK, Goto
    <2>2. TypeOK'
      <3>1. pc' \in [Processes -> PCs] /\ \A q \in Processes : slot'[q] = NoSlot <=> pc'[q] = "idle"
        BY <1>1, <1>5, <2>1 DEF IInv, TypeOK, Goto
      <3>2. recorded' \in [Slots -> SUBSET Sources]
        BY <1>5, <2>1 DEF IInv, TypeOK, Sources
      <3> QED
        BY <1>5, <2>1, <3>1, <3>2 DEF IInv, TypeOK
    <2>3. p # "vote" => p \in Vanilla \cup Workers
      BY <1>5 DEF IInv, IdleUnlessRun, Executors
    <2>4. BanksOwned' /\ BlockIsHighest' /\ ClaimHeld' /\ ClaimOwned'
      BY <1>5, <2>1 DEF IInv, BanksOwned, Owned, BlockIsHighest, ClaimHeld, ClaimOwned
    <2>5. FlagUp' /\ IdleUnlessRun'
      BY <1>5, <2>1 DEF IInv, FlagUp, IdleUnlessRun
    <2>6. VotesOut'
      BY <1>5, <2>1 DEF IInv, VotesOut
    <2>7. GrantsSettled'
      BY <1>5, <2>1 DEF IInv, GrantsSettled, Settled
    <2>8. VanillaOut'
      BY <1>5, <2>1 DEF IInv, VanillaOut
    <2>9. p # "vote" => Settled(slot[p]) /\ (pc["block"] \in Claiming => slot[p] # slot["block"])
      BY <1>5, <2>3 DEF IInv, GrantsSettled, VanillaOut
    <2>10. \A s \in Slots : s # slot[p] \/ p = "vote" => recorded'[s] = recorded[s]
      BY <1>5, <2>1 DEF IInv, TypeOK
    <2>11. RecordsSettled'
      BY <1>5, <2>1, <2>9, <2>10 DEF IInv, RecordsSettled, Settled
    <2>12. BlockFirst'
      <3>1. pc["block"] \in {"wait", "prepare", "lock", "record"} => slot["block"] \in Slots
        BY DEF IInv, TypeOK
      <3> QED
        BY <1>5, <2>1, <2>9, <2>10, <3>1 DEF IInv, BlockFirst, Claiming
    <2> QED
      BY <2>2, <2>4, <2>5, <2>6, <2>7, <2>8, <2>11, <2>12 DEF IInv
  <1> QED
    BY <1>4, <1>5 DEF ExecutorStep, Record, Commit

\* Every step of the vote worker keeps the invariant.
LEMMA VoteInv == IInv /\ (VoteDecide \/ VoteStep) => IInv'
  <1> SUFFICES ASSUME IInv, VoteDecide \/ VoteStep PROVE IInv'
    OBVIOUS
  <1>1. CASE VoteDecide
    BY <1>1, DecideInv DEF VoteDecide
  <1>2. CASE VoteRaise
    BY <1>2, FlagMove DEF VoteRaise
  <1>3. CASE VoteCheck
    <2> DEFINE l == IF is_block_executing(slot["vote"]) THEN "defer" ELSE "execute"
    <2>1. pc["vote"] = "check" /\ OnlyGoto("vote", l) /\ l \in PCs
            /\ l \in {"defer", "execute"}
      BY <1>3 DEF VoteCheck, PCs
    <2>2. vote_processing
      BY <2>1 DEF IInv, FlagUp
    <2>3. ASSUME l = "execute", pc["block"] \in Claiming, slot["vote"] = slot["block"]
          PROVE  status[slot["vote"]] = "ended"
      <3>1. slot["block"] \in Slots
        BY <2>3, Names DEF IInv, TypeOK, Claiming
      <3>2. state # block_claim(slot["block"])
        BY <2>3, <3>1, Encoding, SMTT(30) DEF is_block_executing, ClaimedFor, is_block_claim, get_slot
      <3> QED
        BY <2>3, <3>2 DEF IInv, ClaimHeld
    <2> HIDE DEF l
    <2> QED
      BY <2>1, <2>2, <2>3, ThreadMove, Names
  <1>4. CASE VoteDefer
    BY <1>4, FlagMove DEF VoteDefer
  <1>5. CASE VoteEnd
    BY <1>5, FlagMove DEF VoteEnd
  <1>6. CASE ExecutorStep("vote")
    BY <1>6, ExecutorInv DEF Executors
  <1> QED
    BY <1>1, <1>2, <1>3, <1>4, <1>5, <1>6 DEF VoteStep

-----------------------------------------------------------------------------
(* The vanilla schedulers.                                                 *)

\* A slot the state word gives to vanilla is settled, and no block holds it.
LEMMA VanillaSees ==
    ASSUME IInv, NEW s \in Slots, ClaimedFor(s), ~is_block_claim(state)
    PROVE  Settled(s) /\ (pc["block"] \in Claiming => s # slot["block"])
  <1>1. Settled(s)
    BY Encoding, SMTT(30) DEF IInv, TypeOK, ClaimedFor, is_block_claim, Settled, block_claim, get_slot
  <1>2. ASSUME pc["block"] \in Claiming, s = slot["block"] PROVE FALSE
    BY <1>1, <1>2, Encoding, SMTT(30) DEF IInv, ClaimHeld, ClaimedFor, Settled
  <1> QED
    BY <1>1, <1>2

\* Claiming a later slot for vanilla: a block that still holds an earlier one
\* has lost its bank.
LEMMA VanillaClaims ==
    ASSUME IInv, NEW v \in Vanilla, pc[v] = "update", Claimable(slot[v]),
           OnlyState(v, vanilla_claim(slot[v]), "granted")
    PROVE  IInv'
  <1> USE Names
  <1> DEFINE s == slot[v]
  <1>1. /\ s \in Slots /\ Owned(s) /\ v \in Processes /\ "granted" \in PCs
        /\ pc \in [Processes -> PCs] /\ slot \in [Processes -> Slots \cup {NoSlot}]
    BY DEF IInv, TypeOK, BanksOwned, PCs
  <1>2. /\ state' = s /\ vanilla_claim(s) = s /\ slot' = slot
        /\ pc'[v] = "granted" /\ \A q \in Processes \ {v} : pc'[q] = pc[q]
        /\ pc'["block"] = pc["block"]
        /\ UNCHANGED <<vote_processing, status, fallback, work, recorded>>
    BY <1>1, Encoding DEF OnlyState, Goto
  <1>3. TypeOK'
    <2>1. s \in 0 .. SENTINEL
      BY <1>1, Encoding, SMTT(30)
    <2>2. pc' \in [Processes -> PCs] /\ \A q \in Processes : slot'[q] = NoSlot <=> pc'[q] = "idle"
      BY <1>1, <1>2, SMTT(30) DEF IInv, TypeOK, OnlyState, Goto
    <2> QED
      BY <1>2, <2>1, <2>2 DEF IInv, TypeOK
  <1>4. \A t \in Slots : Settled(t) => Settled(t)'
    BY <1>1, <1>2, SettledStable DEF IInv
  <1>5. Settled(s)' /\ ~is_block_claim(state')
    BY <1>1, <1>2, Encoding, SMTT(30) DEF Settled, is_block_claim, block_claim, get_slot
  <1>6. pc["block"] \in Claiming =>
            /\ slot["block"] \in Slots /\ slot["block"] < s
            /\ status[slot["block"]] = "ended"
    <2> SUFFICES ASSUME pc["block"] \in Claiming
                 PROVE  /\ slot["block"] \in Slots /\ slot["block"] < s
                        /\ status[slot["block"]] = "ended"
      OBVIOUS
    <2>1. slot["block"] \in Slots
      BY DEF IInv, TypeOK, Claiming
    <2>2. slot["block"] < s
      BY <1>1, <2>1, Encoding, SMTT(30) DEF IInv, TypeOK, ClaimHeld, Claimable, get_slot, block_claim
    <2>3. slot["block"] \in Nat /\ s \in Nat
      BY <1>1, <2>1, Encoding
    <2> QED
      BY <1>1, <2>1, <2>2, <2>3 DEF IInv, BlockIsHighest
  <1>7. BanksOwned' /\ BlockIsHighest' /\ FlagUp' /\ IdleUnlessRun' /\ VotesOut'
    BY <1>2 DEF IInv, BanksOwned, Owned, BlockIsHighest, FlagUp, IdleUnlessRun, VotesOut
  <1>8. ClaimHeld' /\ ClaimOwned'
    BY <1>1, <1>2, <1>5, <1>6, Encoding, SMTT(30) DEF ClaimHeld, ClaimOwned, get_slot, Settled
  <1>9. GrantsSettled'
    <2>1. \A p \in Vanilla \cup Workers :
             pc[p] \in {"granted", "execute", "commit"} => slot[p] \in Slots
      BY DEF IInv, TypeOK
    <2>2. \A w \in Workers : work[w] \subseteq Slots
      BY DEF IInv, TypeOK
    <2> QED
      BY <1>2, <1>4, <1>5, <2>1, <2>2 DEF IInv, GrantsSettled
  <1>10. VanillaOut'
    BY <1>1, <1>2, <1>6, Encoding, SMTT(30) DEF IInv, VanillaOut
  <1>11. RecordsSettled' /\ BlockFirst'
    BY <1>2, <1>4 DEF IInv, RecordsSettled, BlockFirst
  <1> QED
    BY <1>3, <1>7, <1>8, <1>9, <1>10, <1>11 DEF IInv

\* Every step of vanilla_should_schedule keeps the invariant.
LEMMA VanillaInv ==
    ASSUME IInv, NEW v \in Vanilla, VanillaDecide(v) \/ VanillaStep(v)
    PROVE  IInv'
  <1> USE Names
  <1>0. v \in Processes \ {"block"} /\ v # "vote"
    OBVIOUS
  <1>1. CASE VanillaDecide(v)
    BY <1>1, DecideInv DEF VanillaDecide
  <1>2. CASE VanillaTick(v)
    <2> DEFINE l == IF slot[v] \in fallback THEN "load_fallback" ELSE "load_delegation"
    <2>1. pc[v] # "idle" /\ OnlyGoto(v, l) /\ l \in PCs
            /\ l \notin {"granted", "execute", "commit"}
      BY <1>2 DEF VanillaTick, ReadTick, PCs
    <2> HIDE DEF l
    <2> QED
      BY <1>0, <2>1, ThreadMove
  <1>3. CASE VanillaLoad(v)
    <2>1. slot[v] \in Slots /\ pc[v] # "idle"
      BY <1>0, <1>3 DEF IInv, TypeOK, VanillaLoad
    <2>2. PICK l \in PCs : /\ OnlyGoto(v, l) /\ l \in {"idle", "update", "granted"}
                           /\ l = "granted" => ClaimedFor(slot[v]) /\ ~is_block_claim(state)
      BY <1>3 DEF VanillaLoad, PCs
    <2>3. l = "granted" => Settled(slot[v])
                           /\ (pc["block"] \in Claiming => slot[v] # slot["block"])
      BY <2>1, <2>2, VanillaSees
    <2> QED
      BY <1>0, <2>1, <2>2, <2>3, ThreadMove
  <1>4. CASE VanillaUpdate(v)
    <2>1. CASE Claimable(slot[v])
      BY <1>4, <2>1, VanillaClaims DEF VanillaUpdate
    <2>2. CASE ~Claimable(slot[v])
      <3>1. pc[v] # "idle" /\ OnlyGoto(v, "reload") /\ "reload" \in PCs
        BY <1>4, <2>2 DEF VanillaUpdate, PCs
      <3> QED
        BY <1>0, <3>1, ThreadMove
    <2> QED
      BY <2>1, <2>2
  <1>5. CASE VanillaReload(v)
    <2>1. slot[v] \in Slots /\ pc[v] # "idle"
      BY <1>0, <1>5 DEF IInv, TypeOK, VanillaReload
    <2>2. PICK l \in PCs : /\ OnlyGoto(v, l) /\ l \in {"idle", "granted"}
                           /\ l = "granted" => ClaimedFor(slot[v]) /\ ~is_block_claim(state)
      BY <1>5 DEF VanillaReload, PCs
    <2>3. l = "granted" => Settled(slot[v])
                           /\ (pc["block"] \in Claiming => slot[v] # slot["block"])
      BY <2>1, <2>2, VanillaSees
    <2> QED
      BY <1>0, <2>1, <2>2, <2>3, ThreadMove
  <1> QED
    BY <1>1, <1>2, <1>3, <1>4, <1>5 DEF VanillaStep

-----------------------------------------------------------------------------
(* Work handed from the scheduler to its workers, and bundles.             *)

\* Sending granted work to a worker keeps the invariant.
LEMMA ScheduleInv == ASSUME IInv, Schedule PROVE IInv'
  <1> USE Names
  <1> DEFINE s == slot["scheduler"]
  <1>1. PICK w \in Workers : work' = [work EXCEPT ![w] = @ \cup {s}]
    BY DEF Schedule
  <1>2. /\ pc["scheduler"] = "granted" /\ "scheduler" \in Vanilla
        /\ s \in Slots /\ Owned(s) /\ Settled(s)
        /\ pc["block"] \in Claiming => s # slot["block"]
    BY DEF IInv, TypeOK, BanksOwned, IdleUnlessRun, GrantsSettled, VanillaOut, Schedule
  <1>3. /\ pc' = [pc EXCEPT !["scheduler"] = "idle"]
        /\ slot' = [slot EXCEPT !["scheduler"] = NoSlot]
        /\ UNCHANGED <<state, vote_processing, status, fallback, recorded>>
        /\ pc \in [Processes -> PCs] /\ slot \in [Processes -> Slots \cup {NoSlot}]
        /\ work \in [Workers -> SUBSET Slots] /\ "idle" \in PCs
    BY DEF Schedule, Goto, IInv, TypeOK, PCs
  <1>4. /\ pc'["scheduler"] = "idle" /\ slot'["scheduler"] = NoSlot
        /\ \A q \in Processes \ {"scheduler"} : pc'[q] = pc[q] /\ slot'[q] = slot[q]
        /\ \A x \in Workers : work'[x] \subseteq work[x] \cup {s}
    BY <1>1, <1>3
  <1>5. TypeOK'
    <2>1. work' \in [Workers -> SUBSET Slots]
      BY <1>1, <1>2, <1>3
    <2>2. /\ pc' \in [Processes -> PCs] /\ slot' \in [Processes -> Slots \cup {NoSlot}]
          /\ \A q \in Processes : slot'[q] = NoSlot <=> pc'[q] = "idle"
      BY <1>3, <1>4 DEF IInv, TypeOK
    <2> QED
      BY <1>3, <2>1, <2>2 DEF IInv, TypeOK
  <1>6. BanksOwned'
    BY <1>2, <1>3, <1>4, SMTT(30) DEF IInv, BanksOwned, Owned
  <1>7. BlockIsHighest' /\ ClaimHeld' /\ ClaimOwned' /\ FlagUp' /\ VotesOut'
    BY <1>3, <1>4 DEF IInv, BlockIsHighest, Owned, ClaimHeld, ClaimOwned, FlagUp, VotesOut
  <1>8. RecordsSettled' /\ BlockFirst' /\ IdleUnlessRun'
    BY <1>3, <1>4 DEF IInv, RecordsSettled, Settled, BlockFirst, IdleUnlessRun
  <1>9. GrantsSettled'
    BY <1>2, <1>3, <1>4, SMTT(30) DEF IInv, GrantsSettled, Settled
  <1>10. VanillaOut'
    BY <1>2, <1>3, <1>4 DEF IInv, VanillaOut
  <1> QED
    BY <1>5, <1>6, <1>7, <1>8, <1>9, <1>10 DEF IInv

\* Taking up queued work, or returning it as retryable, keeps the invariant.
LEMMA WorkerInv ==
    ASSUME IInv, NEW w \in Workers, Consume(w) \/ RetryDrain(w) PROVE IInv'
  <1> USE Names
  <1>1. CASE Consume(w)
    <2>1. PICK s \in work[w] :
              /\ Leads(s) /\ TakeBank(w, s, "execute")
              /\ work' = [work EXCEPT ![w] = @ \ {s}]
              /\ UNCHANGED <<state, vote_processing, status, fallback, recorded>>
      BY <1>1 DEF Consume
    <2>2. /\ s \in Slots /\ Owned(s) /\ Settled(s) /\ w \in Processes
          /\ pc["block"] \in Claiming => s # slot["block"]
          /\ pc \in [Processes -> PCs] /\ slot \in [Processes -> Slots \cup {NoSlot}]
          /\ work \in [Workers -> SUBSET Slots] /\ "execute" \in PCs
      BY SMTT(30) DEF IInv, TypeOK, BanksOwned, GrantsSettled, VanillaOut, PCs
    <2>3. /\ pc'[w] = "execute" /\ slot'[w] = s
          /\ \A q \in Processes \ {w} : pc'[q] = pc[q] /\ slot'[q] = slot[q]
          /\ \A x \in Workers : work'[x] \subseteq work[x]
      BY <2>1, <2>2 DEF TakeBank
    <2>4. TypeOK'
      <3>1. work' \in [Workers -> SUBSET Slots]
        BY <2>1, <2>2
      <3>2. /\ pc' \in [Processes -> PCs] /\ slot' \in [Processes -> Slots \cup {NoSlot}]
            /\ \A q \in Processes : slot'[q] = NoSlot <=> pc'[q] = "idle"
        BY <2>1, <2>2, <2>3 DEF IInv, TypeOK, TakeBank
      <3> QED
        BY <2>1, <3>1, <3>2 DEF IInv, TypeOK
    <2>5. BanksOwned'
      BY <2>1, <2>2, <2>3 DEF IInv, BanksOwned, Owned
    <2>6. BlockIsHighest' /\ ClaimHeld' /\ ClaimOwned' /\ FlagUp' /\ VotesOut'
      BY <2>1, <2>3 DEF IInv, BlockIsHighest, Owned, ClaimHeld, ClaimOwned, FlagUp, VotesOut
    <2>7. RecordsSettled' /\ BlockFirst' /\ IdleUnlessRun'
      BY <2>1, <2>3 DEF IInv, RecordsSettled, Settled, BlockFirst, IdleUnlessRun
    <2>8. GrantsSettled'
      BY <2>1, <2>2, <2>3 DEF IInv, GrantsSettled, Settled
    <2>9. VanillaOut'
      BY <2>1, <2>2, <2>3 DEF IInv, VanillaOut
    <2> QED
      BY <2>4, <2>5, <2>6, <2>7, <2>8, <2>9 DEF IInv
  <1>2. CASE RetryDrain(w)
    <2>1. /\ UNCHANGED <<state, vote_processing, status, fallback, pc, slot, recorded>>
          /\ work' = [work EXCEPT ![w] = {}] /\ work \in [Workers -> SUBSET Slots]
      BY <1>2 DEF RetryDrain, IInv, TypeOK
    <2>2. \A x \in Workers : work'[x] \subseteq work[x]
      BY <2>1
    <2>3. TypeOK'
      BY <2>1 DEF IInv, TypeOK
    <2>4. BanksOwned' /\ BlockIsHighest' /\ ClaimHeld' /\ ClaimOwned' /\ FlagUp' /\ VotesOut'
      BY <2>1, <2>2 DEF IInv, BanksOwned, BlockIsHighest, Owned, ClaimHeld, ClaimOwned,
                        FlagUp, VotesOut
    <2>5. GrantsSettled' /\ VanillaOut' /\ RecordsSettled' /\ BlockFirst' /\ IdleUnlessRun'
      BY <2>1, <2>2 DEF IInv, GrantsSettled, VanillaOut, RecordsSettled, Settled, BlockFirst,
                        IdleUnlessRun
    <2> QED
      BY <2>3, <2>4, <2>5 DEF IInv
  <1> QED
    BY <1>1, <1>2

\* Starting a granted bundle keeps the invariant.
LEMMA BundlesInv == ASSUME IInv, ConsumeBundles PROVE IInv'
  <1>1. pc["bundles"] = "granted" /\ OnlyGoto("bundles", "execute") /\ "execute" \in PCs
    BY DEF ConsumeBundles, PCs
  <1>2. "bundles" \in Vanilla
    BY <1>1 DEF IInv, IdleUnlessRun
  <1>3. /\ Settled(slot["bundles"])
        /\ pc["block"] \in Claiming => slot["bundles"] # slot["block"]
    BY <1>1, <1>2 DEF IInv, GrantsSettled, VanillaOut
  <1> QED
    BY <1>1, <1>2, <1>3, ThreadMove, Names

-----------------------------------------------------------------------------
(* The block stage.                                                        *)

\* A block received for the working bank, which is ours and the highest.
LEMMA BlockRecvInv == ASSUME IInv, BlockRecv PROVE IInv'
  <1> USE Names
  <1>1. PICK s \in Mine : IsWorkingSlot(s) /\ TakeBank("block", s, "tick")
    BY DEF BlockRecv
  <1>2. /\ s \in Slots /\ Owned(s) /\ \A t \in Slots : Owned(t) => t <= s
        /\ pc \in [Processes -> PCs] /\ slot \in [Processes -> Slots \cup {NoSlot}]
        /\ "tick" \in PCs
    BY <1>1, SlotsAssumption, SMTT(30) DEF IInv, TypeOK, BanksOwned, IsWorkingSlot, Owned, Statuses, PCs
  <1>3. /\ pc'["block"] = "tick" /\ slot'["block"] = s /\ pc["block"] = "idle"
        /\ \A q \in Processes \ {"block"} : pc'[q] = pc[q] /\ slot'[q] = slot[q]
        /\ UNCHANGED <<state, vote_processing, status, fallback, work, recorded>>
    BY <1>1, <1>2, SMTT(30) DEF TakeBank, BlockRecv
  <1>4. TypeOK'
    <2>1. /\ pc' \in [Processes -> PCs] /\ slot' \in [Processes -> Slots \cup {NoSlot}]
          /\ \A q \in Processes : slot'[q] = NoSlot <=> pc'[q] = "idle"
      BY <1>1, <1>2, <1>3 DEF IInv, TypeOK, TakeBank
    <2> QED
      BY <1>3, <2>1 DEF IInv, TypeOK
  <1>5. BanksOwned'
    BY <1>2, <1>3 DEF IInv, BanksOwned, Owned
  <1>6. BlockIsHighest'
    <2>1. \A t \in Slots : ~(t > s /\ Owned(t))
      BY <1>2, SlotsAssumption, SMTT(30)
    <2> QED
      BY <1>3, <2>1 DEF BlockIsHighest, Owned
  <1>7. ClaimHeld' /\ ClaimOwned' /\ FlagUp' /\ VotesOut' /\ VanillaOut' /\ BlockFirst'
    BY <1>3 DEF IInv, ClaimHeld, ClaimOwned, FlagUp, VotesOut, VanillaOut, BlockFirst, Claiming
  <1>8. GrantsSettled' /\ RecordsSettled' /\ IdleUnlessRun'
    BY <1>3 DEF IInv, GrantsSettled, RecordsSettled, Settled, IdleUnlessRun
  <1> QED
    BY <1>4, <1>5, <1>6, <1>7, <1>8 DEF IInv

\* A move of the block stage that changes nothing shared and neither makes nor
\* releases a claim; it passes the wait only with the vote flag down.
LEMMA BlockMove ==
    ASSUME IInv, NEW l \in PCs, pc["block"] # "idle", OnlyGoto("block", l),
           pc["block"] \in Claiming <=> l \in Claiming,
           pc["block"] \in {"execute", "finished"} => l = "finished",
           l \in {"prepare", "lock", "record", "execute"} =>
               pc["block"] \in {"prepare", "lock", "record", "execute"} \/ ~vote_processing,
           l \in {"wait", "prepare", "lock", "record"} =>
               pc["block"] \in {"wait", "prepare", "lock", "record"}
    PROVE  IInv'
  <1> USE Names
  <1>1. /\ pc \in [Processes -> PCs] /\ slot \in [Processes -> Slots \cup {NoSlot}]
    BY DEF IInv, TypeOK
  <1>2. /\ pc'["block"] = l
        /\ slot'["block"] = slot["block"] \/ (l = "idle" /\ slot'["block"] = NoSlot)
        /\ \A q \in Processes \ {"block"} : pc'[q] = pc[q] /\ slot'[q] = slot[q]
        /\ UNCHANGED <<state, vote_processing, status, fallback, work, recorded>>
    BY <1>1 DEF OnlyGoto, Goto
  <1>3. TypeOK'
    BY <1>1 DEF IInv, TypeOK, OnlyGoto, Goto
  <1>4. BanksOwned' /\ BlockIsHighest'
    BY <1>2, SMTT(30) DEF IInv, BanksOwned, BlockIsHighest, Owned
  <1>5. ClaimHeld' /\ ClaimOwned'
    BY <1>2 DEF IInv, ClaimHeld, ClaimOwned, Claiming
  <1>6. FlagUp' /\ IdleUnlessRun'
    BY <1>2 DEF IInv, FlagUp, IdleUnlessRun
  <1>7. VotesOut'
    BY <1>2 DEF IInv, VotesOut, FlagUp
  <1>8. GrantsSettled'
    BY <1>2 DEF IInv, GrantsSettled, Settled
  <1>9. VanillaOut'
    BY <1>2 DEF IInv, VanillaOut, Claiming
  <1>10. RecordsSettled' /\ BlockFirst'
    BY <1>2 DEF IInv, RecordsSettled, Settled, BlockFirst
  <1> QED
    BY <1>3, <1>4, <1>5, <1>6, <1>7, <1>8, <1>9, <1>10 DEF IInv

\* A successful claim finds nothing granted and nothing recorded in the slot.
LEMMA BlockClaimInv == ASSUME IInv, BlockClaim PROVE IInv'
  <1> USE Names
  <1> DEFINE s == slot["block"]
  <1>1. pc["block"] = "claim" /\ s \in Slots
    BY DEF BlockClaim, IInv, TypeOK
  <1>2. CASE ~Claimable(s)
    BY <1>1, <1>2, BlockMove DEF BlockClaim, PCs, Claiming
  <1>3. CASE Claimable(s)
    <2>1. /\ pc \in [Processes -> PCs] /\ slot \in [Processes -> Slots \cup {NoSlot}]
          /\ "wait" \in PCs /\ OnlyState("block", block_claim(s), "wait")
      BY <1>3 DEF IInv, TypeOK, PCs, BlockClaim
    <2>2. /\ pc'["block"] = "wait" /\ slot' = slot /\ state' = block_claim(s)
          /\ \A q \in Processes \ {"block"} : pc'[q] = pc[q]
          /\ UNCHANGED <<vote_processing, status, fallback, work, recorded>>
      BY <2>1 DEF OnlyState, Goto
    <2>3. ~Settled(s)
      BY <1>1, <1>3, Encoding, SMTT(30) DEF Settled, Claimable, IInv, TypeOK, get_slot
    <2>4. \A t \in Slots : Settled(t) => Settled(t)'
      BY <1>1, <1>3, <2>2, SettledStable DEF IInv
    <2>5. TypeOK'
      <3>1. state' \in 0 .. SENTINEL
        BY <1>1, <2>2, Encoding, SMTT(30)
      <3>2. pc' \in [Processes -> PCs] /\ \A q \in Processes : slot'[q] = NoSlot <=> pc'[q] = "idle"
        BY <1>1, <2>1, <2>2 DEF IInv, TypeOK, OnlyState, Goto
      <3> QED
        BY <2>2, <3>1, <3>2 DEF IInv, TypeOK
    <2>6. BanksOwned' /\ BlockIsHighest'
      BY <2>2 DEF IInv, BanksOwned, BlockIsHighest, Owned
    <2>7. ClaimHeld' /\ ClaimOwned'
      BY <2>2 DEF ClaimHeld, ClaimOwned, Claiming, block_claim, get_slot
    <2>8. FlagUp' /\ VotesOut' /\ IdleUnlessRun'
      BY <2>2 DEF IInv, FlagUp, VotesOut, IdleUnlessRun
    <2>9. GrantsSettled'
      <3>1. \A p \in Vanilla \cup Workers :
                pc[p] \in {"granted", "execute", "commit"} => slot[p] \in Slots
        BY DEF IInv, TypeOK
      <3>2. \A w \in Workers : work[w] \subseteq Slots
        BY DEF IInv, TypeOK
      <3> QED
        BY <2>2, <2>4, <3>1, <3>2 DEF IInv, GrantsSettled
    <2>10. VanillaOut'
      BY <2>2, <2>3 DEF IInv, VanillaOut, GrantsSettled
    <2>11. RecordsSettled'
      BY <1>1, <2>2, <2>4 DEF IInv, RecordsSettled
    <2>12. BlockFirst'
      BY <1>1, <2>2, <2>3 DEF IInv, RecordsSettled, BlockFirst
    <2> QED
      BY <2>5, <2>6, <2>7, <2>8, <2>9, <2>10, <2>11, <2>12 DEF IInv
  <1> QED
    BY <1>2, <1>3


\* Recording the block: from here on the slot has records, and the block that
\* made them still holds it.
LEMMA BlockRecordInv == ASSUME IInv, BlockRecord PROVE IInv'
  <1> USE Names
  <1> DEFINE s == slot["block"]
  <1>1. pc["block"] = "record" /\ s \in Slots
    BY DEF BlockRecord, IInv, TypeOK
  <1>2. CASE OnlyGoto("block", "failed")
    BY <1>1, <1>2, BlockMove DEF PCs, Claiming
  <1>3. CASE /\ recorded' = [recorded EXCEPT ![s] = @ \cup {"block"}]
             /\ Goto("block", "execute")
             /\ UNCHANGED <<state, vote_processing, status, fallback, work>>
    <2>1. /\ pc \in [Processes -> PCs] /\ "execute" \in PCs
          /\ recorded \in [Slots -> SUBSET Sources]
      BY DEF IInv, TypeOK, PCs
    <2>2. /\ pc'["block"] = "execute" /\ slot' = slot
          /\ \A q \in Processes \ {"block"} : pc'[q] = pc[q]
          /\ \A t \in Slots \ {s} : recorded'[t] = recorded[t]
      BY <1>1, <1>3, <2>1 DEF Goto
    <2>3. TypeOK'
      <3>1. recorded' \in [Slots -> SUBSET Sources]
        BY <1>1, <1>3, <2>1 DEF Sources
      <3>2. pc' \in [Processes -> PCs] /\ \A q \in Processes : slot'[q] = NoSlot <=> pc'[q] = "idle"
        BY <1>1, <1>3, <2>1, <2>2, SMTT(30) DEF IInv, TypeOK, Goto
      <3> QED
        BY <1>3, <2>2, <3>1, <3>2 DEF IInv, TypeOK
    <2>4. BanksOwned' /\ BlockIsHighest'
      BY <1>3, <2>2 DEF IInv, BanksOwned, BlockIsHighest, Owned
    <2>5. ClaimHeld' /\ ClaimOwned'
      BY <1>1, <1>3, <2>2 DEF IInv, ClaimHeld, ClaimOwned, Claiming
    <2>6. FlagUp' /\ VotesOut' /\ IdleUnlessRun' /\ BlockFirst'
      BY <1>1, <1>3, <2>2 DEF IInv, FlagUp, VotesOut, IdleUnlessRun, BlockFirst
    <2>7. GrantsSettled'
      BY <1>3, <2>2 DEF IInv, GrantsSettled, Settled
    <2>8. VanillaOut'
      BY <1>1, <1>3, <2>2 DEF IInv, VanillaOut, Claiming
    <2>9. RecordsSettled'
      BY <1>1, <1>3, <2>2 DEF IInv, RecordsSettled, Settled
    <2> QED
      BY <2>3, <2>4, <2>5, <2>6, <2>7, <2>8, <2>9 DEF IInv
  <1> QED
    BY <1>2, <1>3 DEF BlockRecord

\* Releasing the claim: a finished block leaves its slot settled for vanilla,
\* a failed one leaves it open again, and an overtaken claim is left alone.
LEMMA BlockReleaseInv ==
    ASSUME IInv, block_execution_finished \/ block_failed PROVE IInv'
  <1> USE Names
  <1>0. pc["block"] \in {"finished", "failed"} /\ pc["block"] \in Claiming
    BY DEF block_execution_finished, block_failed, Claiming
  <1>1. PICK s \in Slots : s = slot["block"]
    BY <1>0 DEF IInv, TypeOK
  <1>2. /\ pc \in [Processes -> PCs] /\ slot \in [Processes -> Slots \cup {NoSlot}]
        /\ "idle" \in PCs
    BY DEF IInv, TypeOK, PCs
  <1>3. /\ pc' = [pc EXCEPT !["block"] = "idle"] /\ slot' = [slot EXCEPT !["block"] = NoSlot]
        /\ UNCHANGED <<vote_processing, status, fallback, work, recorded>>
    BY DEF block_execution_finished, block_failed, OnlyState, Goto
  <1>4. /\ pc'["block"] = "idle" /\ slot'["block"] = NoSlot
        /\ \A q \in Processes \ {"block"} : pc'[q] = pc[q] /\ slot'[q] = slot[q]
    BY <1>2, <1>3
  <1>5. \/ ~is_block_executing(s) /\ state' = state
        \/ is_block_executing(s) /\ state' = vanilla_claim(s)
        \/ /\ is_block_executing(s) /\ state' = vanilla_claim(wrapping_pred(s))
           /\ pc["block"] = "failed"
    BY <1>1 DEF block_execution_finished, block_failed, OnlyState
  <1>6. \A t \in Slots : Settled(t) => Settled(t)'
    BY <1>1, <1>5, SettledStable DEF IInv
  <1>7. TypeOK'
    <2>1. state' \in 0 .. SENTINEL
      BY <1>1, <1>5, Encoding, SMTT(30) DEF IInv, TypeOK
    <2>2. /\ pc' \in [Processes -> PCs] /\ slot' \in [Processes -> Slots \cup {NoSlot}]
          /\ \A q \in Processes : slot'[q] = NoSlot <=> pc'[q] = "idle"
      BY <1>2, <1>3, <1>4 DEF IInv, TypeOK
    <2> QED
      BY <1>3, <2>1, <2>2 DEF IInv, TypeOK
  <1>8. BanksOwned' /\ BlockIsHighest'
    BY <1>3, <1>4, SMTT(30) DEF IInv, BanksOwned, BlockIsHighest, Owned
  <1>9. ClaimHeld' /\ VotesOut' /\ VanillaOut' /\ BlockFirst'
    BY <1>4 DEF ClaimHeld, VotesOut, VanillaOut, BlockFirst, Claiming
  <1>10. FlagUp' /\ IdleUnlessRun'
    BY <1>3, <1>4 DEF IInv, FlagUp, IdleUnlessRun
  <1>11. ClaimOwned'
    <2>1. ~is_block_claim(state')
      <3>1. CASE is_block_executing(s)
        BY <1>1, <1>5, <3>1, Encoding, SMTT(30) DEF is_block_claim
      <3>2. CASE ~is_block_executing(s)
        <4>1. state # block_claim(s)
          BY <1>1, <3>2, Encoding, SMTT(30) DEF is_block_executing, ClaimedFor, is_block_claim, get_slot
        <4> QED
          BY <1>1, <1>5, <3>2, <4>1 DEF IInv, ClaimOwned
      <3> QED
        BY <3>1, <3>2
    <2> QED
      BY <2>1 DEF ClaimOwned, is_block_claim
  <1>12. GrantsSettled'
    <2>1. \A p \in Vanilla \cup Workers :
              pc[p] \in {"granted", "execute", "commit"} => slot[p] \in Slots
      BY DEF IInv, TypeOK
    <2>2. \A w \in Workers : work[w] \subseteq Slots
      BY DEF IInv, TypeOK
    <2> QED
      BY <1>3, <1>4, <1>6, <2>1, <2>2 DEF IInv, GrantsSettled
  <1>13. pc["block"] = "finished" => Settled(s)'
    <2>1. CASE state' = vanilla_claim(s)
      BY <1>1, <2>1, Encoding, SMTT(30) DEF Settled
    <2>2. CASE ~is_block_executing(s) /\ state' = state
      <3>1. state # block_claim(s)
        BY <1>1, <2>2, Encoding, SMTT(30) DEF is_block_executing, ClaimedFor, is_block_claim, get_slot
      <3>2. state # SENTINEL /\ get_slot(state) > s
        BY <1>0, <1>1, <3>1 DEF IInv, ClaimHeld
      <3>3. get_slot(state) \in Int
        BY Encoding, <1>1, SMTT(30) DEF IInv, TypeOK, get_slot
      <3> QED
        BY <1>1, <2>2, <3>1, <3>2, <3>3, Encoding, SMTT(30) DEF Settled
    <2> QED
      BY <1>0, <1>5, <2>1, <2>2
  <1>14. RecordsSettled'
    BY <1>0, <1>1, <1>3, <1>6, <1>13 DEF IInv, RecordsSettled
  <1> QED
    BY <1>7, <1>8, <1>9, <1>10, <1>11, <1>12, <1>14 DEF IInv


\* Every step of the block stage keeps the invariant.
LEMMA BlockInv == ASSUME IInv, BlockRecv \/ BlockStep \/ BlockWait PROVE IInv'
  <1> USE DEF PCs, Claiming
  <1>1. CASE BlockTick
    <2>1. OnlyGoto("block", "claim") \/ OnlyGoto("block", "idle")
      BY <1>1 DEF BlockTick, ReadTick
    <2> QED
      BY <1>1, <2>1, BlockMove DEF BlockTick, ReadTick
  <1>2. CASE BlockPrepare
    BY <1>2, BlockMove DEF BlockPrepare
  <1>3. CASE BlockLock
    BY <1>3, BlockMove DEF BlockLock
  <1>4. CASE BlockExecute
    BY <1>4, BlockMove DEF BlockExecute
  <1>5. CASE BlockWait
    BY <1>5, BlockMove DEF BlockWait
  <1> QED
    BY <1>1, <1>2, <1>3, <1>4, <1>5, BlockRecvInv, BlockClaimInv, BlockRecordInv,
       BlockReleaseInv DEF BlockStep

-----------------------------------------------------------------------------
(* The theorems.                                                           *)

\* The invariant is inductive: it holds initially and every step of every
\* thread, of the replay stage and of the PoH service keeps it.
THEOREM Inductive == Spec => []IInv
  <1>1. IInv /\ [Next]_vars => IInv'
    <2> SUFFICES ASSUME IInv, [Next]_vars PROVE IInv'
      OBVIOUS
    <2>1. CASE Environment
      BY <2>1, EnvironmentInv
    <2>2. CASE VoteDecide \/ VoteStep
      BY <2>2, VoteInv
    <2>3. ASSUME NEW v \in Vanilla, VanillaDecide(v) \/ VanillaStep(v) PROVE IInv'
      BY <2>3, VanillaInv
    <2>4. CASE Schedule
      BY <2>4, ScheduleInv
    <2>5. CASE ConsumeBundles
      BY <2>5, BundlesInv
    <2>6. ASSUME NEW p \in Executors, ExecutorStep(p) PROVE IInv'
      BY <2>6, ExecutorInv
    <2>7. ASSUME NEW w \in Workers, Consume(w) \/ RetryDrain(w) PROVE IInv'
      BY <2>7, WorkerInv
    <2>8. CASE BlockRecv \/ BlockStep \/ BlockWait
      BY <2>8, BlockInv
    <2>9. CASE UNCHANGED vars
      <3>1. UNCHANGED <<state, vote_processing, status, fallback, pc, slot, work, recorded>>
        BY <2>9 DEF vars
      <3>2. TypeOK' /\ BanksOwned' /\ BlockIsHighest' /\ ClaimHeld' /\ ClaimOwned' /\ FlagUp'
        BY <3>1 DEF IInv, TypeOK, BanksOwned, BlockIsHighest, Owned, ClaimHeld, ClaimOwned,
                    FlagUp
      <3>3. VotesOut' /\ GrantsSettled' /\ VanillaOut' /\ RecordsSettled' /\ BlockFirst'
              /\ IdleUnlessRun'
        BY <3>1 DEF IInv, VotesOut, GrantsSettled, VanillaOut, RecordsSettled, Settled,
                    BlockFirst, IdleUnlessRun
      <3> QED
        BY <3>2, <3>3 DEF IInv
    <2> QED
      BY <2>1, <2>2, <2>3, <2>4, <2>5, <2>6, <2>7, <2>8, <2>9 DEF Next, Executors
  <1> QED
    BY <1>1, InitInv, PTL DEF Spec

\* Every variable keeps its type, and the state word its 64 bits.
THEOREM TypeCorrect == Spec => []TypeOK
  <1>1. IInv => TypeOK
    BY DEF IInv
  <1> QED
    BY <1>1, Inductive, PTL

\* For any slots, workers and schedules: while the block stage prepares,
\* records or executes a block, no vote, bundle or scheduled batch of the same
\* slot is between its record and its commit, or can still be recorded.
THEOREM Exclusion == Spec => []BlockExclusive
  <1>1. IInv => BlockExclusive
    <2> SUFFICES ASSUME IInv, pc["block"] \in {"prepare", "lock", "record", "execute"},
                        NEW p \in Executors, slot[p] = slot["block"]
                 PROVE  /\ pc[p] # "commit"
                        /\ pc[p] = "execute" => status[slot[p]] = "ended"
      BY DEF BlockExclusive
    <2>1. CASE p = "vote"
      BY <2>1 DEF IInv, VotesOut
    <2>2. CASE p \in Vanilla \cup Workers
      BY <2>2 DEF IInv, VanillaOut, Claiming
    <2>3. CASE p = "bundles" /\ p \notin Vanilla
      BY <2>3 DEF IInv, IdleUnlessRun
    <2> QED
      BY <2>1, <2>2, <2>3 DEF Executors
  <1> QED
    BY <1>1, Inductive, PTL

\* A block is recorded only into a slot in which no vanilla batch and no other
\* block has been recorded.
THEOREM FirstInSlot == Spec => []BlockFirst
  <1>1. IInv => BlockFirst
    BY DEF IInv
  <1> QED
    BY <1>1, Inductive, PTL

=============================================================================
