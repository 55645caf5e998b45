-------------------------- MODULE PohService_proof --------------------------
(***************************************************************************)
(* The PoH thread against the replay loop and the senders, for every       *)
(* number of hashes per tick, ticks per slot, slots and records: what is   *)
(* broadcast for a bank is a valid block as far as it goes, the chain and  *)
(* the recorder agree, bank and channel change hands together, a record is *)
(* mixed in whole or not at all, and a slot is sped through only once it   *)
(* has its block.                                                          *)
(***************************************************************************)
EXTENDS PohService, TLAPS

\* Most steps need no arithmetic: Zenon proves them unless SMT is named.
USE ZenonT(40)

-----------------------------------------------------------------------------
(* The inductive invariant *)

\* The chain, the recorder and the ledgers change together.  What holds of them
\* is stated of any chain p, recorder r, ledgers l and parents par, so that the
\* same lemmas serve a tick of the service loop and one within a record.
CachedTick == [num_hashes : Int, height : Int]
Chain == [num_hashes : Nat, remaining : 1 .. hashes_per_tick,
          tick_number : 0 .. ticks_per_slot - 1]
Recorder == [tick_height : Nat, tick_cache : Seq(CachedTick), working : Slots \cup {NoBank},
             start : Slots, leading : BOOLEAN]
LedgerType == [ticks : Seq(Int), hashes : Seq(Int), partial : Int, harmonic : BOOLEAN]
Parents == [Slots -> Slots \cup {NoBank, Foreign}]

\* The recorder is past its start bank, and within the working one.
HeightInv(r, par) ==
    /\ max_tick_height(r.start) <= r.tick_height
    /\ r.working # NoBank =>
          /\ r.leading /\ r.tick_cache = <<>>
          /\ par[r.working] \in Slots
          /\ r.working * ticks_per_slot <= r.tick_height
          /\ r.tick_height < max_tick_height(r.working)

\* While there is no bank the ticks since the start bank are cached, if there
\* is a leader slot to come.
CacheInv(r) ==
    r.working = NoBank /\ r.leading =>
        /\ r.tick_height = max_tick_height(r.start) + Len(r.tick_cache)
        /\ \A i \in DOMAIN r.tick_cache :
              /\ r.tick_cache[i].height = max_tick_height(r.start) + i
              /\ r.tick_cache[i].num_hashes = hashes_per_tick

\* The hashes of the current tick that are broadcast, made and still to make.
Spent(r, l) == IF r.working = NoBank THEN 0 ELSE l[r.working].partial
HashInv(r, p, l) == Spent(r, l) + p.num_hashes + p.remaining = hashes_per_tick

\* A ledger is valid on top of a parent with base ticks.
Valid(l, base) ==
    /\ Len(l.hashes) = Len(l.ticks)
    /\ \A i \in DOMAIN l.ticks : l.ticks[i] = base + i /\ l.hashes[i] = hashes_per_tick

LedgerInv(r, l, par) ==
    \A s \in Slots :
        LET base == max_tick_height(par[s])
        IN  IF par[s] \in Slots
            THEN /\ Valid(l[s], base)
                 /\ Len(l[s].ticks) <= max_tick_height(s) - base
                 /\ s = r.working => Len(l[s].ticks) = r.tick_height - base
            ELSE l[s] = NewLedger

ChainInv(r, p, l, par) ==
    /\ p \in Chain /\ r \in Recorder /\ l \in [Slots -> LedgerType]
    /\ HeightInv(r, par) /\ CacheInv(r) /\ HashInv(r, p, l) /\ LedgerInv(r, l, par)
    /\ r.tick_height % ticks_per_slot = p.tick_number

\* A bank has its parent in an earlier slot.
ParentInv(par) ==
    par \in Parents /\ \A s \in Slots : par[s] \in Slots => par[s] < s

\* The types of the rest.
HeldRecord == [bank : Slots, batches : 1 .. CAPACITY, harmonic : BOOLEAN]

Types ==
    /\ open \in Slots \cup {NoBank} /\ queue \in Seq(HeldRecord)
    /\ next_record \in HeldRecord \cup {NoRecord}
    /\ left \in Nat /\ block_received \in BOOLEAN /\ speedrun \in BOOLEAN
    /\ message \in {NoMessage} \cup [type : {"Reset", "SetBank"}, slot : Slots]
    /\ taken \in BOOLEAN /\ frozen \subseteq Slots

\* Where the PoH thread stands tells what it holds.
PlaceInv ==
    /\ ppc \in {"top", "tick", "wait", "handle", "release", "exited"} => next_record = NoRecord
    /\ ppc = "tick" => poh.remaining = 1
    /\ ppc \in {"record", "mixing"} => next_record # NoRecord
    /\ ppc = "mixing" => left \in 1 .. next_record.batches
    /\ taken \/ ppc = "release" => message # NoMessage
    /\ taken /\ ppc # "release" => open = NoBank
    /\ ppc = "handle" /\ taken => queue = <<>>

\* A bank that is about to be set: PoH waits for it where it was started.
Unset == message.type = "SetBank" /\ ppc # "release"

MessageInv ==
    Unset => /\ rec.working = NoBank /\ rec.leading
             /\ parent[message.slot] = rec.start
             /\ message.slot * ticks_per_slot <= rec.tick_height
             /\ ledger[message.slot] = NewLedger

\* Records are accepted and held for the working bank, if there is one.
ChannelInv ==
    rec.working # NoBank =>
        /\ open # NoBank => open = rec.working
        /\ \A i \in DOMAIN queue : queue[i].bank = rec.working
        /\ next_record # NoRecord => next_record.bank = rec.working

\* A block that has arrived is in the ledger, or being mixed in.
ReceivedInv ==
    /\ block_received /\ rec.working # NoBank =>
          \/ ledger[rec.working].harmonic
          \/ ppc = "mixing" /\ next_record.harmonic
          \/ ppc = "panicked"
    /\ ppc = "handle" /\ taken /\ message.type = "SetBank" => ~speedrun

\* With more hashes in a tick than in a batch: without a record in hand, and
\* with one on the way or still to come, the bank does not get its last tick in
\* the next round.
RoomInv ==
    rec.working # NoBank /\ next_record = NoRecord /\ (open # NoBank \/ queue # <<>>) =>
        hashes_per_batch + 1 <= total_remaining_hashes

\* So that nothing is accepted or left over when there is no bank.
DrainedInv ==
    rec.working = NoBank => open = NoBank /\ queue = <<>> /\ next_record = NoRecord

IInv ==
    /\ ChainInv(rec, poh, ledger, parent) /\ ParentInv(parent)
    /\ Types /\ PlaceInv /\ MessageInv /\ ChannelInv /\ ReceivedInv /\ RecordWhole
    /\ SpeedrunHasBlock /\ RoomInv /\ DrainedInv

\* The ticks the working bank still needs after the current one, and the mixins
\* that fit before its last tick: what total_remaining_hashes computes.
Ahead(r) == max_tick_height(r.working) - (r.tick_height + 1)
Room(r, p) == p.remaining - 1 + Ahead(r) * (hashes_per_tick - 1)

-----------------------------------------------------------------------------
(* Ticks and slots *)

\* The tick heights of slots follow each other.
LEMMA Heights ==
    /\ \A s \in Int : max_tick_height(s) \in Int /\ max_tick_height(s) = s * ticks_per_slot + ticks_per_slot
    /\ \A s \in Nat : max_tick_height(s) \in Nat /\ ticks_per_slot <= max_tick_height(s)
    /\ \A s, t \in Int : s < t => max_tick_height(s) <= t * ticks_per_slot
    /\ \A s, t \in Int : s <= t => max_tick_height(s) <= max_tick_height(t)
<1> DEFINE T == ticks_per_slot
<1>0. T \in Nat /\ T > 0
  BY PohAssumption, SMTT(30)
<1>1. \A s \in Int : (s + 1) * T = s * T + T /\ s * T \in Int
  BY <1>0, SMTT(30)
<1>2. \A s \in Nat : s * T \in Nat
  BY <1>0, SMTT(30)
<1>3. \A d \in Nat : d * T >= 0
  BY <1>2, SMTT(30)
<1>4. \A s, t \in Int : s <= t => s * T <= t * T
  <2> TAKE s, t \in Int
  <2> HAVE s <= t
  <2>1. t - s \in Nat /\ (t - s) * T >= 0
    BY <1>3, SMTT(30)
  <2>2. (t - s) * T = t * T - s * T
    BY <1>0, SMTT(30)
  <2> QED
    BY <1>1, <2>1, <2>2, SMTT(30)
<1>5. \A s \in Int : max_tick_height(s) = s * T + T
  BY <1>1 DEF max_tick_height
<1>6. \A s, t \in Int : s < t => s * T + T <= t * T
  <2> TAKE s, t \in Int
  <2> HAVE s < t
  <2>1. (s + 1) * T <= t * T
    BY <1>4, SMTT(30)
  <2> QED
    BY <1>1, <2>1
<1>7. \A s \in Nat : max_tick_height(s) \in Nat /\ T <= max_tick_height(s)
  BY <1>0, <1>2, <1>5, SMTT(30)
<1>8. \A s \in Int : max_tick_height(s) \in Int
  BY <1>0, <1>1, <1>5, SMTT(30)
<1>9. \A s, t \in Int : s < t => max_tick_height(s) <= t * T
  BY <1>5, <1>6
<1>10. \A s, t \in Int : s <= t => max_tick_height(s) <= max_tick_height(t)
  BY <1>0, <1>1, <1>4, <1>5, SMTT(30)
<1> QED
  BY <1>5, <1>7, <1>8, <1>9, <1>10

\* The slot of a tick height.
LEMMA SlotOf ==
    ASSUME NEW h \in Nat
    PROVE  /\ h \div ticks_per_slot \in Nat
           /\ (h \div ticks_per_slot) * ticks_per_slot <= h
           /\ h < max_tick_height(h \div ticks_per_slot)
           /\ h % ticks_per_slot = h - (h \div ticks_per_slot) * ticks_per_slot
           /\ h % ticks_per_slot \in 0 .. ticks_per_slot - 1
BY PohAssumption, SMTT(30) DEF max_tick_height

\* A tick height within a slot has that slot.
LEMMA SlotUnique ==
    ASSUME NEW h \in Nat, NEW s \in Nat, s * ticks_per_slot <= h, h < max_tick_height(s)
    PROVE  /\ h \div ticks_per_slot = s
           /\ h % ticks_per_slot = h - s * ticks_per_slot
<1> DEFINE q == h \div ticks_per_slot
<1>1. /\ q \in Nat /\ q * ticks_per_slot <= h /\ h < max_tick_height(q)
      /\ h % ticks_per_slot = h - q * ticks_per_slot
  BY SlotOf
<1> HIDE DEF q
<1>2. /\ q * ticks_per_slot \in Int /\ s * ticks_per_slot \in Int
      /\ max_tick_height(q) \in Int /\ max_tick_height(s) \in Int
  BY <1>1, Heights, PohAssumption, SMTT(30)
<1>3. ~(q < s)
  <2> SUFFICES ASSUME q < s PROVE FALSE
    OBVIOUS
  <2>1. max_tick_height(q) <= s * ticks_per_slot
    BY <1>1, Heights, SMTT(30)
  <2> QED
    BY <1>1, <1>2, <2>1, SMTT(30)
<1>4. ~(s < q)
  <2> SUFFICES ASSUME s < q PROVE FALSE
    OBVIOUS
  <2>1. max_tick_height(s) <= q * ticks_per_slot
    BY <1>1, Heights, SMTT(30)
  <2> QED
    BY <1>1, <1>2, <2>1, SMTT(30)
<1>5. q = s
  BY <1>1, <1>3, <1>4, SMTT(30)
<1> QED
  BY <1>1, <1>5 DEF q

\* A tick moves the tick number with the height.
LEMMA NextTickNumber ==
    ASSUME NEW h \in Nat
    PROVE  (h + 1) % ticks_per_slot = ((h % ticks_per_slot) + 1) % ticks_per_slot
<1> DEFINE q == h \div ticks_per_slot
           r == h % ticks_per_slot
<1>1. /\ q \in Nat /\ q * ticks_per_slot <= h /\ h < max_tick_height(q)
      /\ r = h - q * ticks_per_slot /\ r \in 0 .. ticks_per_slot - 1
  BY SlotOf
<1> HIDE DEF q, r
<1>2. /\ ticks_per_slot \in Nat \ {0} /\ q * ticks_per_slot \in Nat
      /\ max_tick_height(q) = q * ticks_per_slot + ticks_per_slot
      /\ max_tick_height(q + 1) = (q + 1) * ticks_per_slot + ticks_per_slot
      /\ (q + 1) * ticks_per_slot = max_tick_height(q)
      /\ max_tick_height(0) = ticks_per_slot /\ 0 * ticks_per_slot = 0
  BY <1>1, Heights, PohAssumption, SMTT(30) DEF max_tick_height
<1>3. CASE r + 1 < ticks_per_slot
  <2>1. (h + 1) % ticks_per_slot = h + 1 - q * ticks_per_slot
    <3> DEFINE g == h + 1
    <3>1. g \in Nat /\ q * ticks_per_slot <= g /\ g < max_tick_height(q)
      BY <1>1, <1>2, <1>3, SMTT(30)
    <3> HIDE DEF g
    <3>2. g % ticks_per_slot = g - q * ticks_per_slot
      BY <1>1, <3>1, SlotUnique
    <3> QED
      BY <1>1, <1>2, <3>2, SMTT(30) DEF g
  <2>2. (r + 1) % ticks_per_slot = r + 1
    BY <1>1, <1>2, <1>3, SlotUnique, SMTT(30)
  <2> QED
    BY <1>1, <1>2, <2>1, <2>2, SMTT(30) DEF r
<1>4. CASE r + 1 = ticks_per_slot
  <2>1. h + 1 = (q + 1) * ticks_per_slot
    BY <1>1, <1>2, <1>4, SMTT(30)
  <2>2. (h + 1) % ticks_per_slot = h + 1 - (q + 1) * ticks_per_slot
    <3> DEFINE g == h + 1
               t == q + 1
    <3>1. t \in Nat /\ g \in Nat /\ t * ticks_per_slot <= g /\ g < max_tick_height(t)
      BY <1>1, <1>2, <2>1, SMTT(30)
    <3> HIDE DEF g, t
    <3>2. g % ticks_per_slot = g - t * ticks_per_slot
      BY <3>1, SlotUnique
    <3> QED
      BY <1>1, <1>2, <3>2, SMTT(30) DEF g, t
  <2>3. ticks_per_slot % ticks_per_slot = 0
    <3>1. 1 * ticks_per_slot = ticks_per_slot /\ max_tick_height(1) = ticks_per_slot + ticks_per_slot
      BY <1>2, Heights, SMTT(30)
    <3>2. ticks_per_slot % ticks_per_slot = ticks_per_slot - 1 * ticks_per_slot
      BY <1>2, <3>1, SlotUnique, SMTT(30)
    <3> QED
      BY <1>2, <3>1, <3>2, SMTT(30)
  <2> QED
    BY <1>1, <1>2, <1>4, <2>1, <2>2, <2>3, SMTT(30) DEF r
<1> QED
  BY <1>1, <1>2, <1>3, <1>4, SMTT(30)

\* The first tick of a slot has number 0.
LEMMA FirstTickNumber ==
    ASSUME NEW s \in Nat
    PROVE  max_tick_height(s) % ticks_per_slot = 0
<1>1. /\ ticks_per_slot \in Nat \ {0} /\ s + 1 \in Nat /\ max_tick_height(s) \in Nat
      /\ (s + 1) * ticks_per_slot = max_tick_height(s)
      /\ max_tick_height(s + 1) = max_tick_height(s) + ticks_per_slot
  BY Heights, PohAssumption, SMTT(30) DEF max_tick_height
<1> DEFINE g == max_tick_height(s)
           t == s + 1
<1>2. t \in Nat /\ g \in Nat /\ t * ticks_per_slot <= g /\ g < max_tick_height(t)
  BY <1>1, SMTT(30)
<1> HIDE DEF g, t
<1>3. g % ticks_per_slot = g - t * ticks_per_slot
  BY <1>2, SlotUnique
<1> QED
  BY <1>1, <1>3, SMTT(30) DEF g, t

-----------------------------------------------------------------------------
(* Flushing the tick cache *)

\* Of cached ticks that follow a height at most the bank's last, those up to
\* the bank's last tick are its own.
LEMMA CountTo ==
    ASSUME NEW r \in Recorder, NEW b \in Int, r.working \in Slots,
           b <= max_tick_height(r.working),
           \A i \in DOMAIN r.tick_cache : r.tick_cache[i].height = b + i
    PROVE  EntryCount(r) = IF b + Len(r.tick_cache) <= max_tick_height(r.working)
                           THEN Len(r.tick_cache) ELSE max_tick_height(r.working) - b
<1> DEFINE M == max_tick_height(r.working)
           c == r.tick_cache
           n == IF b + Len(c) <= M THEN Len(c) ELSE M - b
           First(m) == /\ \A i \in 1 .. m : c[i].height <= M
                       /\ m < Len(c) => ~(c[m + 1].height <= M)
<1>1. M \in Int /\ b <= M /\ c \in Seq(CachedTick) /\ Len(c) \in Nat /\ DOMAIN c = 1 .. Len(c)
  <2>1. r.working \in Int
    BY PohAssumption, SMTT(30) DEF Slots
  <2> QED
    BY <2>1, Heights, SMTT(30) DEF Recorder
<1>2. n \in Nat /\ n <= Len(c) /\ Len(c) \in Nat
  BY <1>1, SMTT(30)
<1>3. \A i \in DOMAIN c : c[i].height = b + i
  OBVIOUS
<1>4. EntryCount(r) = CHOOSE m \in 0 .. Len(c) : First(m)
  BY DEF EntryCount
<1> HIDE DEF M, c
<1>5. n \in 0 .. Len(c) /\ First(n)
  <2>1. \A i \in 1 .. n : i \in DOMAIN c /\ b + i <= M
    BY <1>1, <1>2, SMTT(30)
  <2>2. n < Len(c) => n + 1 \in DOMAIN c /\ ~(b + (n + 1) <= M)
    BY <1>1, <1>2, SMTT(30)
  <2> QED
    BY <1>2, <1>3, <2>1, <2>2, SMTT(30)
<1>6. ASSUME NEW m \in 0 .. Len(c), First(m) PROVE m = n
  <2>1. CASE m < n
    <3>1. m + 1 \in 1 .. Len(c) /\ m + 1 <= n
      BY <1>1, <1>2, <2>1, SMTT(30)
    <3>2. m < Len(c) /\ b + (m + 1) <= M
      BY <1>1, <1>2, <2>1, <3>1, SMTT(30)
    <3>3. ~(c[m + 1].height <= M)
      BY <1>6, <3>2
    <3>4. c[m + 1].height = b + (m + 1)
      BY <1>1, <1>3, <3>1
    <3> QED
      BY <3>2, <3>3, <3>4
  <2>2. CASE m > n
    <3>1. n + 1 \in 1 .. m /\ n + 1 \in 1 .. Len(c) /\ n < Len(c)
      BY <1>1, <1>2, <2>2, SMTT(30)
    <3> QED
      BY <1>5, <1>6, <3>1
  <2>3. m < n \/ m > n \/ m = n
    <3> HIDE DEF n
    <3> QED
      BY <1>2, SMTT(30)
  <2> QED
    BY <2>1, <2>2, <2>3
<1>7. EntryCount(r) = n
  <2> HIDE DEF n, First
  <2> QED
    BY <1>4, <1>5, <1>6
<1> QED
  BY <1>7 DEF M, c

\* The concatenation of two sequences of integers.
LEMMA ConcatInt ==
    ASSUME NEW a \in Seq(Int), NEW b \in Seq(Int)
    PROVE  /\ a \o b \in Seq(Int)
           /\ Len(a \o b) = Len(a) + Len(b)
           /\ \A i \in 1 .. Len(a) + Len(b) :
                 (a \o b)[i] = IF i <= Len(a) THEN a[i] ELSE b[i - Len(a)]
BY SMTT(30)

\* All of a sequence.
LEMMA WholeSeq ==
    ASSUME NEW S, NEW s \in Seq(S)
    PROVE  SubSeq(s, 1, Len(s)) = s
<1>1. Len(s) \in Nat /\ s = [i \in 1 .. Len(s) |-> s[i]]
  BY SMTT(30)
<1>2. SubSeq(s, 1, Len(s)) = [i \in 1 .. Len(s) |-> s[i]]
  BY <1>1, SMTT(30)
<1> QED
  BY <1>1, <1>2

\* Broadcasting ticks that follow a valid ledger keeps it valid.
LEMMA BroadcastValid ==
    ASSUME NEW l \in LedgerType, NEW base \in Int, Valid(l, base),
           NEW ticks \in Seq(CachedTick),
           \A i \in DOMAIN ticks :
               /\ ticks[i].height = base + Len(l.ticks) + i
               /\ ticks[i].num_hashes + (IF i = 1 THEN l.partial ELSE 0) = hashes_per_tick
    PROVE  /\ Broadcast(l, ticks) \in LedgerType
           /\ Valid(Broadcast(l, ticks), base)
           /\ Len(Broadcast(l, ticks).ticks) = Len(l.ticks) + Len(ticks)
           /\ Broadcast(l, ticks).partial = IF ticks = <<>> THEN l.partial ELSE 0
           /\ Broadcast(l, ticks).harmonic = l.harmonic
<1> DEFINE hs == [i \in DOMAIN ticks |-> ticks[i].height]
           ns == [i \in DOMAIN ticks |-> ticks[i].num_hashes + (IF i = 1 THEN l.partial ELSE 0)]
           B == Broadcast(l, ticks)
<1>1. /\ Len(ticks) \in Nat /\ DOMAIN ticks = 1 .. Len(ticks)
      /\ \A i \in 1 .. Len(ticks) : ticks[i].height \in Int /\ ticks[i].num_hashes \in Int
      /\ l.ticks \in Seq(Int) /\ l.hashes \in Seq(Int) /\ l.partial \in Int
      /\ l.harmonic \in BOOLEAN
  <2>1. \A i \in 1 .. Len(ticks) : ticks[i] \in CachedTick
    BY SMTT(30)
  <2>2. \A i \in 1 .. Len(ticks) : ticks[i].height \in Int /\ ticks[i].num_hashes \in Int
    BY <2>1 DEF CachedTick
  <2> QED
    BY <2>2, SMTT(30) DEF LedgerType
<1>2. hs \in Seq(Int) /\ Len(hs) = Len(ticks) /\ \A i \in 1 .. Len(ticks) : hs[i] = ticks[i].height
  BY <1>1, SMTT(30)
<1>3. ns \in Seq(Int) /\ Len(ns) = Len(ticks)
      /\ \A i \in 1 .. Len(ticks) : ns[i] = hashes_per_tick
  <2>1. \A i \in 1 .. Len(ticks) : ns[i] = hashes_per_tick
    BY <1>1
  <2>2. DOMAIN ns = 1 .. Len(ticks) /\ hashes_per_tick \in Int
    BY <1>1, PohAssumption, SMTT(30)
  <2> HIDE DEF ns
  <2>3. ns = [i \in 1 .. Len(ticks) |-> hashes_per_tick]
    <3>1. ns = [i \in DOMAIN ns |-> ns[i]]
      BY DEF ns
    <3> QED
      BY <2>1, <2>2, <3>1
  <2> QED
    BY <1>1, <2>1, <2>2, <2>3, SMTT(30)
<1>4. /\ B = [ticks |-> l.ticks \o hs, hashes |-> l.hashes \o ns,
              partial |-> IF ticks = <<>> THEN l.partial ELSE 0, harmonic |-> l.harmonic]
  <2>1. B = [l EXCEPT !.ticks = @ \o hs, !.hashes = @ \o ns,
                      !.partial = IF ticks = <<>> THEN @ ELSE 0]
    BY DEF Broadcast
  <2> HIDE DEF hs, ns, B
  <2> QED
    BY <2>1 DEF LedgerType
<1>5. \A i \in 1 .. Len(ticks) : hs[i] = base + Len(l.ticks) + i
  BY <1>1, <1>2
<1> HIDE DEF hs, ns, B
<1>6. /\ l.ticks \o hs \in Seq(Int) /\ l.hashes \o ns \in Seq(Int)
      /\ Len(l.ticks \o hs) = Len(l.ticks) + Len(ticks)
      /\ Len(l.hashes \o ns) = Len(l.hashes) + Len(ticks)
  <2>1. l.ticks \o hs \in Seq(Int) /\ Len(l.ticks \o hs) = Len(l.ticks) + Len(hs)
    BY <1>1, <1>2, ConcatInt
  <2>2. l.hashes \o ns \in Seq(Int) /\ Len(l.hashes \o ns) = Len(l.hashes) + Len(ns)
    BY <1>1, <1>3, ConcatInt
  <2> QED
    BY <1>2, <1>3, <2>1, <2>2
<1>6a. \A i \in 1 .. Len(l.ticks) + Len(ticks) :
          (l.ticks \o hs)[i] = IF i <= Len(l.ticks) THEN l.ticks[i] ELSE hs[i - Len(l.ticks)]
  BY <1>1, <1>2, ConcatInt, SMTT(30)
<1>6b. \A i \in 1 .. Len(l.hashes) + Len(ticks) :
          (l.hashes \o ns)[i] = IF i <= Len(l.hashes) THEN l.hashes[i] ELSE ns[i - Len(l.hashes)]
  BY <1>1, <1>3, ConcatInt, SMTT(30)
<1>7. B \in LedgerType
  BY <1>1, <1>4, <1>6, SMTT(30) DEF LedgerType
<1>8. ASSUME NEW i \in 1 .. Len(l.ticks) + Len(ticks)
      PROVE  (l.ticks \o hs)[i] = base + i /\ (l.hashes \o ns)[i] = hashes_per_tick
  <2>0. Len(ticks) \in Nat /\ Len(l.ticks) \in Nat /\ i \in Int /\ Len(l.ticks) \in Int
    BY <1>1, SMTT(30)
  <2>1. Len(l.ticks) \in Nat /\ Len(l.hashes) = Len(l.ticks) /\ DOMAIN l.ticks = 1 .. Len(l.ticks)
    BY <1>1, SMTT(30) DEF Valid
  <2>2. CASE i <= Len(l.ticks)
    <3>1. (l.ticks \o hs)[i] = l.ticks[i] /\ (l.hashes \o ns)[i] = l.hashes[i]
      BY <1>6a, <1>6b, <2>0, <2>1, <2>2
    <3> QED
      BY <2>1, <2>2, <3>1, SMTT(30) DEF Valid
  <2>3. CASE i > Len(l.ticks)
    <3> DEFINE k == i - Len(l.ticks)
    <3>1. k \in 1 .. Len(ticks)
      BY <1>1, <2>1, <2>3, SMTT(30)
    <3>0. ~(i <= Len(l.ticks))
      BY <2>0, <2>3, SMTT(30)
    <3>2. (l.ticks \o hs)[i] = hs[k]
      BY <1>6a, <3>0
    <3>2a. (l.hashes \o ns)[i] = ns[k]
      BY <1>6b, <2>1, <3>0
    <3>3. hs[k] = base + Len(l.ticks) + k /\ ns[k] = hashes_per_tick
      BY <1>3, <1>5, <3>1
    <3>4. base + Len(l.ticks) + (i - Len(l.ticks)) = base + i
      <4>1. \A x, y, z \in Int : x + y + (z - y) = x + z
        BY SMTT(30)
      <4> QED
        BY <2>0, <4>1
    <3> QED
      BY <3>2, <3>2a, <3>3, <3>4
  <2>4. i <= Len(l.ticks) \/ i > Len(l.ticks)
    BY <1>1, <2>1, SMTT(30)
  <2> QED
    BY <2>2, <2>3, <2>4
<1>9. Valid(B, base) /\ Len(B.ticks) = Len(l.ticks) + Len(ticks)
  <2>1. /\ B.ticks = l.ticks \o hs /\ B.hashes = l.hashes \o ns
    BY <1>4
  <2>2. Len(l.hashes) = Len(l.ticks) /\ Len(l.ticks) \in Nat
    BY <1>1, SMTT(30) DEF Valid
  <2>3. DOMAIN (l.ticks \o hs) = 1 .. Len(l.ticks) + Len(ticks)
    BY <1>1, <1>2, <1>6, SMTT(30)
  <2> QED
    BY <1>6, <1>8, <2>1, <2>2, <2>3 DEF Valid
<1> QED
  BY <1>4, <1>7, <1>9, SMTT(30) DEF B

\* A working bank's last flush left nothing to broadcast.
LEMMA FlushNothing ==
    ASSUME NEW r \in Recorder, NEW l \in [Slots -> LedgerType], NEW leads \in BOOLEAN,
           r.working \in Slots, r.tick_cache = <<>>, ~FlushRefused(r, FALSE),
           r.tick_height < max_tick_height(r.working)
    PROVE  flush_cache(r, FALSE, leads) = r /\ Flushed(r, FALSE, l) = l
<1> DEFINE s == r.working
<1>1. EntryCount(r) = 0
  <2>1. Len(r.tick_cache) = 0
    BY SMTT(30)
  <2> QED
    BY <2>1, SMTT(30) DEF EntryCount
<1>2. SubSeq(r.tick_cache, 1, 0) = <<>>
  BY SMTT(30)
<1>3. [r EXCEPT !.tick_cache = SubSeq(@, 1, Len(@))] = r
  BY SMTT(30) DEF Recorder
<1>4. flush_cache(r, FALSE, leads) = r
  BY <1>1, <1>3, SMTT(30) DEF flush_cache
<1>5. Broadcast(l[s], <<>>) = l[s]
  <2>1. l[s] \in LedgerType
    OBVIOUS
  <2>2. [i \in DOMAIN <<>> |-> <<>>[i].height] = <<>>
    BY SMTT(30)
  <2>3. [i \in DOMAIN <<>> |-> <<>>[i].num_hashes + (IF i = 1 THEN l[s].partial ELSE 0)] = <<>>
    BY SMTT(30)
  <2>4. l[s].ticks \o <<>> = l[s].ticks /\ l[s].hashes \o <<>> = l[s].hashes
    BY <2>1, SMTT(30) DEF LedgerType
  <2> QED
    BY <2>1, <2>2, <2>3, <2>4 DEF Broadcast, LedgerType
<1>6. Flushed(r, FALSE, l) = [l EXCEPT ![s] = Broadcast(@, <<>>)]
  BY <1>1, <1>2 DEF Flushed
<1>7. Flushed(r, FALSE, l) = l
  BY <1>5, <1>6
<1> QED
  BY <1>4, <1>7

-----------------------------------------------------------------------------
(* A tick keeps chain, recorder and ledgers in order *)

\* A slot is an integer, and neither NoBank nor Foreign is one.
LEMMA SlotTypes ==
    /\ \A s \in Slots : s \in Nat /\ s \in Int /\ s # NoBank /\ s # Foreign
    /\ NoBank \notin Slots /\ Foreign \notin Slots
BY PohAssumption, SMTT(30) DEF Slots, NoBank, Foreign

\* The bank's parent is complete at the height the bank begins, which PoH has
\* reached when it works on the bank.
LEMMA BankBegins ==
    ASSUME ParentInv(parent), NEW s \in Slots, parent[s] \in Slots
    PROVE  /\ min_tick_height(s) = max_tick_height(parent[s])
           /\ max_tick_height(parent[s]) \in Nat /\ max_tick_height(s) \in Nat
           /\ s * ticks_per_slot \in Nat
           /\ max_tick_height(parent[s]) <= s * ticks_per_slot
           /\ s * ticks_per_slot < max_tick_height(s)
<1> DEFINE q == parent[s]
<1>1. q \in Nat /\ s \in Nat /\ q < s
  BY SlotTypes DEF ParentInv
<1>2. min_tick_height(s) = max_tick_height(q)
  BY DEF min_tick_height, max_tick_height
<1> HIDE DEF q
<1>3. ticks_per_slot \in Nat \ {0} /\ s * ticks_per_slot \in Nat
  BY <1>1, PohAssumption, SMTT(30)
<1>4. max_tick_height(q) \in Nat /\ max_tick_height(s) \in Nat
      /\ max_tick_height(s) = s * ticks_per_slot + ticks_per_slot
      /\ max_tick_height(q) <= s * ticks_per_slot
  BY <1>1, Heights, SMTT(30)
<1> QED
  BY <1>2, <1>3, <1>4, SMTT(30) DEF q

\* Without a working bank a tick is cached if a leader slot is to come.
LEMMA TickWithout ==
    ASSUME ParentInv(parent), NEW r, NEW p, NEW l, ChainInv(r, p, l, parent),
           p.remaining = 1, r.working = NoBank
    PROVE  ChainInv(Cached(r, p), poh_tick(p), l, parent)
<1> DEFINE c == Cached(r, p)
           q == poh_tick(p)
           t == [num_hashes |-> p.num_hashes + 1, height |-> r.tick_height + 1]
<1>1. /\ r \in Recorder /\ p \in Chain /\ l \in [Slots -> LedgerType]
      /\ HeightInv(r, parent) /\ CacheInv(r) /\ HashInv(r, p, l) /\ LedgerInv(r, l, parent)
      /\ r.tick_height % ticks_per_slot = p.tick_number
  BY DEF ChainInv
<1>2. /\ r.tick_height \in Nat /\ r.tick_cache \in Seq(CachedTick) /\ r.start \in Slots
      /\ r.leading \in BOOLEAN /\ p.num_hashes \in Nat /\ ticks_per_slot \in Nat \ {0}
      /\ hashes_per_tick \in Nat \ {0} /\ max_tick_height(r.start) \in Nat
  BY <1>1, PohAssumption, SlotTypes, Heights DEF Recorder, Chain
<1>3. t \in CachedTick
  BY <1>2, SMTT(30) DEF CachedTick
<1>4. c = [tick_height |-> r.tick_height + 1,
           tick_cache |-> IF r.leading THEN Append(r.tick_cache, t) ELSE r.tick_cache,
           working |-> NoBank, start |-> r.start, leading |-> r.leading]
  <2>1. c = [r EXCEPT !.tick_height = @ + 1,
                      !.tick_cache = IF r.leading THEN Append(@, t) ELSE @]
    BY DEF Cached
  <2> HIDE DEF c, t
  <2> QED
    BY <1>1, <2>1 DEF Recorder
<1>5. q = [num_hashes |-> 0, remaining |-> hashes_per_tick,
           tick_number |-> (p.tick_number + 1) % ticks_per_slot]
  BY DEF poh_tick
<1> HIDE DEF c, q, t
<1>6. Append(r.tick_cache, t) \in Seq(CachedTick)
  BY <1>2, <1>3, SMTT(30)
<1>7. c \in Recorder
  BY <1>2, <1>4, <1>6, SMTT(30) DEF Recorder
<1>8. (r.tick_height + 1) % ticks_per_slot = q.tick_number
  BY <1>1, <1>2, <1>5, NextTickNumber
<1>9. q \in Chain
  <2>1. (r.tick_height + 1) % ticks_per_slot \in 0 .. ticks_per_slot - 1
    <3> DEFINE g == r.tick_height + 1
    <3>1. g \in Nat
      BY <1>2, SMTT(30)
    <3> HIDE DEF g
    <3>2. g % ticks_per_slot \in 0 .. ticks_per_slot - 1
      BY <3>1, SlotOf
    <3> QED
      BY <3>2 DEF g
  <2> QED
    BY <1>2, <1>5, <1>8, <2>1, SMTT(30) DEF Chain
<1>10. HeightInv(c, parent)
  BY <1>1, <1>2, <1>4, SMTT(30) DEF HeightInv
<1>11. CacheInv(c)
  <2> SUFFICES ASSUME r.leading
               PROVE  /\ r.tick_height + 1 = max_tick_height(r.start) + Len(Append(r.tick_cache, t))
                      /\ \A i \in DOMAIN Append(r.tick_cache, t) :
                            /\ Append(r.tick_cache, t)[i].height = max_tick_height(r.start) + i
                            /\ Append(r.tick_cache, t)[i].num_hashes = hashes_per_tick
    BY <1>4 DEF CacheInv
  <2> DEFINE k == r.tick_cache
             d == Append(k, t)
  <2>1. /\ r.tick_height = max_tick_height(r.start) + Len(k)
        /\ \A i \in DOMAIN k : /\ k[i].height = max_tick_height(r.start) + i
                               /\ k[i].num_hashes = hashes_per_tick
    BY <1>1 DEF CacheInv
  <2>2. p.num_hashes + 1 = hashes_per_tick
    BY <1>1, <1>2, SMTT(30) DEF HashInv, Spent
  <2>3. t.height = r.tick_height + 1 /\ t.num_hashes = hashes_per_tick
    BY <2>2 DEF t
  <2>4. /\ k \in Seq(CachedTick) /\ Len(k) \in Nat /\ DOMAIN k = 1 .. Len(k)
        /\ Len(d) = Len(k) + 1 /\ DOMAIN d = 1 .. Len(k) + 1
        /\ \A i \in 1 .. Len(k) : d[i] = k[i]
        /\ d[Len(k) + 1] = t
    BY <1>2, <1>3, SMTT(30)
  <2> HIDE DEF d, k
  <2>5. ASSUME NEW i \in DOMAIN d
        PROVE  d[i].height = max_tick_height(r.start) + i /\ d[i].num_hashes = hashes_per_tick
    <3>1. CASE i \in 1 .. Len(k)
      BY <2>1, <2>4, <3>1
    <3>2. CASE i = Len(k) + 1
      <4>1. d[i] = t
        BY <2>4, <3>2
      <4>2. r.tick_height + 1 = max_tick_height(r.start) + i
        BY <1>2, <2>1, <2>4, <3>2, SMTT(30)
      <4> QED
        BY <2>3, <4>1, <4>2
    <3> QED
      BY <2>4, <3>1, <3>2, SMTT(30)
  <2>6. r.tick_height + 1 = max_tick_height(r.start) + Len(d)
    BY <1>2, <2>1, <2>4, SMTT(30)
  <2> QED
    BY <2>5, <2>6 DEF d, k
<1>12. HashInv(c, q, l)
  BY <1>2, <1>4, <1>5, SMTT(30) DEF HashInv, Spent
<1>13. LedgerInv(c, l, parent)
  BY <1>1, <1>4, SlotTypes DEF LedgerInv
<1> QED
  BY <1>1, <1>4, <1>7, <1>8, <1>9, <1>10, <1>11, <1>12, <1>13, SMTT(30) DEF ChainInv, c, q

\* With a working bank a tick is broadcast for it, and its last one clears it.
LEMMA TickWith ==
    ASSUME ParentInv(parent), NEW r, NEW p, NEW l, ChainInv(r, p, l, parent),
           p.remaining = 1, r.working # NoBank, NEW leads \in BOOLEAN
    PROVE  /\ ChainInv(flush_cache(Cached(r, p), TRUE, leads), poh_tick(p),
                       Flushed(Cached(r, p), TRUE, l), parent)
           /\ flush_cache(Cached(r, p), TRUE, leads).tick_height = r.tick_height + 1
           /\ flush_cache(Cached(r, p), TRUE, leads).working =
                 IF r.tick_height + 1 < max_tick_height(r.working) THEN r.working ELSE NoBank
           /\ Flushed(Cached(r, p), TRUE, l)[r.working].harmonic = l[r.working].harmonic
<1> DEFINE c == Cached(r, p)
           R == flush_cache(c, TRUE, leads)
           L == Flushed(c, TRUE, l)
           q == poh_tick(p)
           b == r.working
           h == r.tick_height
           M == max_tick_height(b)
           base == max_tick_height(parent[b])
           t == [num_hashes |-> p.num_hashes + 1, height |-> h + 1]
<1>1. /\ r \in Recorder /\ p \in Chain /\ l \in [Slots -> LedgerType]
      /\ HeightInv(r, parent) /\ CacheInv(r) /\ HashInv(r, p, l) /\ LedgerInv(r, l, parent)
      /\ h % ticks_per_slot = p.tick_number
  BY DEF ChainInv
<1>2. /\ h \in Nat /\ b \in Slots /\ r.start \in Slots
      /\ r.leading = TRUE /\ r.tick_cache = <<>> /\ p.num_hashes \in Nat
      /\ ticks_per_slot \in Nat \ {0} /\ hashes_per_tick \in Nat \ {0}
      /\ parent[b] \in Slots /\ l[b] \in LedgerType
      /\ b * ticks_per_slot <= h /\ h < M
  BY <1>1, PohAssumption DEF Recorder, Chain, HeightInv
<1>3. /\ min_tick_height(b) = base /\ base \in Nat /\ M \in Nat /\ base <= h
      /\ b * ticks_per_slot \in Nat
  BY <1>2, BankBegins, SMTT(30)
<1>4. /\ t \in CachedTick /\ t.height = h + 1 /\ t.num_hashes = p.num_hashes + 1
  BY <1>2, SMTT(30) DEF CachedTick
<1>5. c = [tick_height |-> h + 1, tick_cache |-> <<t>>, working |-> b,
           start |-> r.start, leading |-> TRUE]
  <2>1. c = [r EXCEPT !.tick_height = @ + 1,
                      !.tick_cache = IF r.leading THEN Append(@, t) ELSE @]
    BY DEF Cached
  <2>2. Append(<<>>, t) = <<t>>
    BY SMTT(30)
  <2> HIDE DEF c, t
  <2> QED
    BY <1>1, <1>2, <2>1, <2>2 DEF Recorder
<1>6. q = [num_hashes |-> 0, remaining |-> hashes_per_tick,
           tick_number |-> (p.tick_number + 1) % ticks_per_slot]
  BY DEF poh_tick
<1> HIDE DEF c, q, t, base, M, R, L
<1>7. c \in Recorder /\ <<t>> \in Seq(CachedTick) /\ Len(<<t>>) = 1
      /\ DOMAIN <<t>> = {1} /\ <<t>>[1] = t
  BY <1>2, <1>4, <1>5, SMTT(30) DEF Recorder
<1>8. EntryCount(c) = 1
  <2>1. \A i \in DOMAIN c.tick_cache : c.tick_cache[i].height = h + i
    BY <1>4, <1>5, <1>7
  <2>2. c.working \in Slots /\ h <= max_tick_height(c.working) /\ h \in Int
    BY <1>2, <1>3, <1>5, SMTT(30) DEF M
  <2>3. EntryCount(c) = IF h + Len(c.tick_cache) <= max_tick_height(c.working)
                        THEN Len(c.tick_cache) ELSE max_tick_height(c.working) - h
    BY <1>7, <2>1, <2>2, CountTo
  <2>4. Len(c.tick_cache) = 1 /\ max_tick_height(c.working) = M
    BY <1>5, <1>7 DEF M
  <2> QED
    BY <1>2, <1>3, <2>3, <2>4, SMTT(30)
<1>9. ~FlushRefused(c, TRUE)
  <2>1. c.working = b /\ c.tick_height = h + 1 /\ b # NoBank
    BY <1>5
  <2> QED
    BY <1>2, <1>3, <2>1, SMTT(30) DEF FlushRefused
<1>10. L = [l EXCEPT ![b] = Broadcast(@, <<t>>)]
  <2>1. L = [l EXCEPT ![c.working] = Broadcast(@, SubSeq(c.tick_cache, 1, EntryCount(c)))]
    BY <1>9 DEF Flushed, L
  <2>2. SubSeq(<<t>>, 1, 1) = <<t>>
    <3>1. <<t>> \in Seq({t}) /\ Len(<<t>>) = 1
      BY SMTT(30)
    <3> QED
      BY <3>1, WholeSeq
  <2> QED
    BY <1>5, <1>8, <2>1, <2>2
<1>11. /\ R \in Recorder
       /\ R.tick_height = h + 1 /\ R.tick_cache = <<>>
       /\ h + 1 < M => R.working = b /\ R.start = r.start /\ R.leading = TRUE
       /\ ~(h + 1 < M) => R.working = NoBank /\ R.start = b
  <2> DEFINE f == [c EXCEPT !.tick_cache = SubSeq(@, EntryCount(c) + 1, Len(@))]
  <2>1. R = IF c.tick_height < max_tick_height(c.working) THEN f
            ELSE [f EXCEPT !.working = NoBank, !.start = c.working, !.leading = leads]
    BY <1>9 DEF flush_cache, R
  <2>2. SubSeq(c.tick_cache, EntryCount(c) + 1, Len(c.tick_cache)) = <<>>
    BY <1>5, <1>7, <1>8, SMTT(30)
  <2>3. f = [tick_height |-> h + 1, tick_cache |-> <<>>, working |-> b,
             start |-> r.start, leading |-> TRUE]
    <3>1. f = [c EXCEPT !.tick_cache = <<>>]
      BY <2>2
    <3> HIDE DEF f
    <3> QED
      BY <1>5, <3>1
  <2>4. c.tick_height = h + 1 /\ max_tick_height(c.working) = M /\ c.working = b
    BY <1>5 DEF M
  <2> HIDE DEF f
  <2>5. CASE h + 1 < M
    <3>1. R = f
      BY <2>1, <2>4, <2>5
    <3>2. f \in Recorder
      BY <1>2, <2>3, SMTT(30) DEF Recorder
    <3> QED
      BY <2>3, <2>5, <3>1, <3>2
  <2>6. CASE ~(h + 1 < M)
    <3>1. R = [tick_height |-> h + 1, tick_cache |-> <<>>, working |-> NoBank,
               start |-> b, leading |-> leads]
      BY <2>1, <2>3, <2>4, <2>6
    <3>2. R \in Recorder
      BY <1>2, <3>1, SMTT(30) DEF Recorder
    <3> QED
      BY <2>6, <3>1, <3>2
  <2> QED
    BY <2>5, <2>6
<1>12. /\ Valid(l[b], base) /\ Len(l[b].ticks) = h - base /\ l[b].partial \in Int
       /\ l[b].partial + p.num_hashes + 1 = hashes_per_tick
  <2>1. Valid(l[b], base) /\ Len(l[b].ticks) = h - base
    BY <1>1, <1>2 DEF LedgerInv, base
  <2>2. l[b].partial \in Int
    BY <1>2 DEF LedgerType
  <2>3. l[b].partial + p.num_hashes + p.remaining = hashes_per_tick
    BY <1>1 DEF HashInv, Spent
  <2> QED
    BY <2>1, <2>2, <2>3
<1> DEFINE B == Broadcast(l[b], <<t>>)
<1>13. /\ B \in LedgerType /\ Valid(B, base) /\ Len(B.ticks) = h - base + 1
       /\ B.partial = 0 /\ B.harmonic = l[b].harmonic
  <2>1. \A i \in DOMAIN <<t>> :
           /\ <<t>>[i].height = base + Len(l[b].ticks) + i
           /\ <<t>>[i].num_hashes + (IF i = 1 THEN l[b].partial ELSE 0) = hashes_per_tick
    <3>1. t.height = base + Len(l[b].ticks) + 1
      BY <1>2, <1>3, <1>4, <1>12, SMTT(30)
    <3>2. t.num_hashes + l[b].partial = hashes_per_tick
      BY <1>2, <1>4, <1>12, SMTT(30)
    <3> QED
      BY <1>7, <3>1, <3>2
  <2>2. base \in Int /\ <<t>> # <<>>
    BY <1>3, SMTT(30)
  <2> QED
    <3>1. Len(l[b].ticks) + Len(<<t>>) = h - base + 1
      BY <1>7, <1>12
    <3> DEFINE ts == <<t>>
               m == l[b]
    <3>2. /\ m \in LedgerType /\ Valid(m, base) /\ ts \in Seq(CachedTick) /\ ts # <<>>
          /\ \A i \in DOMAIN ts :
                /\ ts[i].height = base + Len(m.ticks) + i
                /\ ts[i].num_hashes + (IF i = 1 THEN m.partial ELSE 0) = hashes_per_tick
      BY <1>2, <1>7, <1>12, <2>1, <2>2
    <3> HIDE DEF ts, m
    <3>3. /\ Broadcast(m, ts) \in LedgerType /\ Valid(Broadcast(m, ts), base)
          /\ Len(Broadcast(m, ts).ticks) = Len(m.ticks) + Len(ts)
          /\ Broadcast(m, ts).partial = 0 /\ Broadcast(m, ts).harmonic = m.harmonic
      BY <2>2, <3>2, BroadcastValid
    <3> QED
      BY <3>1, <3>3 DEF B, ts, m
<1> HIDE DEF B
<1>14. L \in [Slots -> LedgerType] /\ L[b] = B /\ \A s \in Slots : s # b => L[s] = l[s]
  BY <1>1, <1>2, <1>10, <1>13 DEF B
<1>16. (h + 1) % ticks_per_slot = q.tick_number
  BY <1>1, <1>2, <1>6, NextTickNumber
<1>17. q \in Chain
  <2> DEFINE g == h + 1
  <2>1. g \in Nat
    BY <1>2, SMTT(30)
  <2> HIDE DEF g
  <2>2. g % ticks_per_slot \in 0 .. ticks_per_slot - 1
    BY <2>1, SlotOf
  <2> QED
    BY <1>2, <1>6, <1>16, <2>2, SMTT(30) DEF Chain, g
<1>18. HeightInv(R, parent)
  <2>1. CASE h + 1 < M
    <3>1. max_tick_height(r.start) <= h /\ max_tick_height(r.start) \in Nat
      BY <1>1, <1>2, Heights, SlotTypes DEF HeightInv
    <3> QED
      BY <1>2, <1>3, <1>11, <2>1, <3>1, SMTT(30) DEF HeightInv, M
  <2>2. CASE ~(h + 1 < M)
    <3>1. R.working = NoBank /\ R.start = b /\ R.tick_height = h + 1
      BY <1>11, <2>2
    <3>2. M <= h + 1
      BY <1>2, <1>3, <2>2, SMTT(30)
    <3> QED
      BY <3>1, <3>2 DEF HeightInv, M
  <2> QED
    BY <2>1, <2>2
<1>19. CacheInv(R)
  <2> SUFFICES ASSUME R.working = NoBank
               PROVE  /\ R.tick_height = max_tick_height(R.start) + Len(R.tick_cache)
                      /\ DOMAIN R.tick_cache = {}
    BY DEF CacheInv
  <2>1. ~(h + 1 < M)
    BY <1>2, <1>11, SlotTypes
  <2>2. R.start = b /\ R.tick_height = h + 1 /\ R.tick_cache = <<>>
    BY <1>11, <2>1
  <2>3. M = h + 1
    BY <1>2, <1>3, <2>1, SMTT(30)
  <2> QED
    BY <1>2, <2>2, <2>3, SMTT(30) DEF M
<1>20. HashInv(R, q, L)
  BY <1>2, <1>6, <1>11, <1>13, <1>14, SMTT(30) DEF HashInv, Spent
<1>21. LedgerInv(R, L, parent)
  <2> SUFFICES ASSUME NEW s \in Slots
               PROVE  IF parent[s] \in Slots
                      THEN /\ Valid(L[s], max_tick_height(parent[s]))
                           /\ Len(L[s].ticks) <= max_tick_height(s) - max_tick_height(parent[s])
                           /\ s = R.working =>
                                 Len(L[s].ticks) = R.tick_height - max_tick_height(parent[s])
                      ELSE L[s] = NewLedger
    BY DEF LedgerInv
  <2>1. CASE s = b
    <3>1. Len(B.ticks) <= M - base
      BY <1>2, <1>3, <1>13, SMTT(30)
    <3>2. Len(B.ticks) = R.tick_height - base
      BY <1>2, <1>3, <1>11, <1>13, SMTT(30)
    <3> QED
      BY <1>2, <1>13, <1>14, <2>1, <3>1, <3>2 DEF M, base
  <2>2. CASE s # b
    <3>1. L[s] = l[s] /\ s # R.working
      BY <1>11, <1>14, <2>2, SlotTypes
    <3> QED
      BY <1>1, <3>1 DEF LedgerInv
  <2> QED
    BY <2>1, <2>2
<1>22. R.tick_height = h + 1 /\ R.working = IF h + 1 < M THEN b ELSE NoBank
  BY <1>11
<1>23. ChainInv(R, q, L, parent)
  BY <1>11, <1>14, <1>16, <1>17, <1>18, <1>19, <1>20, <1>21, <1>22 DEF ChainInv
<1> QED
  BY <1>13, <1>14, <1>22, <1>23 DEF q, M, R, L, c

-----------------------------------------------------------------------------
\* Setting a bank broadcasts the cached ticks up to its last one; a bank that
\* comes too late is complete at once, and the ticks past it stay cached.
LEMMA SetChain ==
    ASSUME ParentInv(parent), NEW r, NEW p, NEW l, ChainInv(r, p, l, parent),
           r.working = NoBank, r.leading, NEW b \in Slots, parent[b] = r.start,
           b * ticks_per_slot <= r.tick_height, l[b] = NewLedger, NEW leads \in BOOLEAN
    PROVE  LET set == [r EXCEPT !.working = b]
               R == flush_cache(set, FALSE, leads)
               L == Flushed(set, FALSE, l)
           IN
           /\ ChainInv(R, p, L, parent)
           /\ R.tick_height = r.tick_height
           /\ R.working = IF r.tick_height < max_tick_height(b) THEN b ELSE NoBank
<1> DEFINE c == [r EXCEPT !.working = b]
           R == flush_cache(c, FALSE, leads)
           L == Flushed(c, FALSE, l)
           h == r.tick_height
           k == r.tick_cache
           M == max_tick_height(b)
           base == max_tick_height(r.start)
           n == IF h <= M THEN Len(k) ELSE M - base
           ts == SubSeq(k, 1, n)
           us == SubSeq(k, n + 1, Len(k))
<1>1. /\ r \in Recorder /\ p \in Chain /\ l \in [Slots -> LedgerType]
      /\ HeightInv(r, parent) /\ CacheInv(r) /\ HashInv(r, p, l) /\ LedgerInv(r, l, parent)
      /\ h % ticks_per_slot = p.tick_number
  BY DEF ChainInv
<1>2. /\ h \in Nat /\ r.start \in Slots /\ k \in Seq(CachedTick) /\ Len(k) \in Nat
      /\ DOMAIN k = 1 .. Len(k) /\ hashes_per_tick \in Nat
      /\ parent[b] \in Slots /\ l[b] \in LedgerType
      /\ b * ticks_per_slot <= h
  BY <1>1, PohAssumption, SMTT(30) DEF Recorder
<1>3. /\ min_tick_height(b) = base /\ base \in Nat /\ M \in Nat
      /\ b * ticks_per_slot \in Nat /\ base <= b * ticks_per_slot /\ base <= h /\ base < M
  BY <1>2, BankBegins, SMTT(30)
<1>4. /\ h = base + Len(k)
      /\ \A i \in 1 .. Len(k) : k[i].height = base + i /\ k[i].num_hashes = hashes_per_tick
  BY <1>1, <1>2 DEF CacheInv
<1>5. c = [tick_height |-> h, tick_cache |-> k, working |-> b, start |-> r.start,
           leading |-> TRUE]
  <2>1. r.leading = TRUE
    BY <1>1 DEF Recorder
  <2>2. c = [r EXCEPT !.working = b]
    OBVIOUS
  <2> HIDE DEF c
  <2> QED
    BY <1>1, <2>1, <2>2 DEF Recorder
<1> HIDE DEF c, R, L, M, base
<1>6. n \in 0 .. Len(k)
  BY <1>2, <1>3, <1>4, SMTT(30)
<1>7. c \in Recorder
  BY <1>2, <1>5 DEF Recorder
<1>8. EntryCount(c) = n
  <2>1. \A i \in DOMAIN c.tick_cache : c.tick_cache[i].height = base + i
    BY <1>2, <1>4, <1>5
  <2>2. c.working \in Slots /\ base <= max_tick_height(c.working) /\ base \in Int
    BY <1>3, <1>5, SMTT(30) DEF M
  <2>3. EntryCount(c) = IF base + Len(c.tick_cache) <= max_tick_height(c.working)
                        THEN Len(c.tick_cache) ELSE max_tick_height(c.working) - base
    BY <1>7, <2>1, <2>2, CountTo
  <2>4. Len(c.tick_cache) = Len(k) /\ max_tick_height(c.working) = M
    BY <1>5 DEF M
  <2> QED
    BY <1>4, <2>3, <2>4
<1>9. ~FlushRefused(c, FALSE)
  <2>1. c.working = b /\ c.tick_height = h /\ b # NoBank
    BY <1>5, SlotTypes
  <2> QED
    BY <1>2, <1>3, <2>1, SMTT(30) DEF FlushRefused
<1>10. L = [l EXCEPT ![b] = Broadcast(@, ts)]
  <2>1. L = [l EXCEPT ![c.working] = Broadcast(@, SubSeq(c.tick_cache, 1, EntryCount(c)))]
    BY <1>9 DEF Flushed, L
  <2> HIDE DEF n
  <2>2. c.working = b /\ SubSeq(c.tick_cache, 1, EntryCount(c)) = ts
    BY <1>5, <1>8
  <2> QED
    BY <2>1, <2>2
<1>11. /\ ts \in Seq(CachedTick) /\ Len(ts) = n /\ DOMAIN ts = 1 .. n
       /\ \A i \in 1 .. n : ts[i] = k[i]
       /\ us \in Seq(CachedTick) /\ Len(us) = Len(k) - n /\ DOMAIN us = 1 .. Len(k) - n
       /\ \A i \in 1 .. Len(k) - n : us[i] = k[n + i]
  <2> HIDE DEF n
  <2>1. \A i \in 1 .. Len(k) : k[i] \in CachedTick
    BY <1>2, SMTT(30)
  <2> QED
    BY <1>2, <1>6, <2>1, SMTT(30)
<1> HIDE DEF ts, us
<1>12. /\ R \in Recorder /\ R.tick_height = h /\ R.tick_cache = us
       /\ h < M => R.working = b /\ R.start = r.start /\ R.leading = TRUE
       /\ ~(h < M) => R.working = NoBank /\ R.start = b
  <2> DEFINE f == [c EXCEPT !.tick_cache = SubSeq(@, EntryCount(c) + 1, Len(@))]
  <2>1. R = IF c.tick_height < max_tick_height(c.working) THEN f
            ELSE [f EXCEPT !.working = NoBank, !.start = c.working, !.leading = leads]
    BY <1>9 DEF flush_cache, R
  <2>2. SubSeq(c.tick_cache, EntryCount(c) + 1, Len(c.tick_cache)) = us
    <3> HIDE DEF n
    <3> QED
      BY <1>5, <1>8 DEF us
  <2>3. f = [tick_height |-> h, tick_cache |-> us, working |-> b,
             start |-> r.start, leading |-> TRUE]
    <3>1. f = [c EXCEPT !.tick_cache = us]
      BY <2>2
    <3> HIDE DEF f
    <3> QED
      BY <1>5, <3>1
  <2>4. c.tick_height = h /\ max_tick_height(c.working) = M /\ c.working = b
    BY <1>5 DEF M
  <2> HIDE DEF f, n
  <2>5. CASE h < M
    <3>1. R = f
      BY <2>1, <2>4, <2>5
    <3>2. f \in Recorder
      BY <1>2, <1>11, <2>3 DEF Recorder
    <3> QED
      BY <2>3, <2>5, <3>1, <3>2
  <2>6. CASE ~(h < M)
    <3>1. R = [tick_height |-> h, tick_cache |-> us, working |-> NoBank,
               start |-> b, leading |-> leads]
      BY <2>1, <2>3, <2>4, <2>6
    <3>2. R \in Recorder
      BY <1>2, <1>11, <3>1 DEF Recorder
    <3> QED
      BY <2>6, <3>1, <3>2
  <2> QED
    BY <2>5, <2>6
<1> DEFINE B == Broadcast(l[b], ts)
<1>13. /\ B \in LedgerType /\ Valid(B, base) /\ Len(B.ticks) = n /\ B.partial = 0
  <2> DEFINE m == l[b]
  <2>1. /\ m \in LedgerType /\ m.ticks = <<>> /\ m.hashes = <<>> /\ m.partial = 0
    BY <1>2, SMTT(30) DEF NewLedger
  <2>2. Len(m.ticks) = 0 /\ Valid(m, base)
    BY <2>1, SMTT(30) DEF Valid
  <2>3. \A i \in DOMAIN ts :
           /\ ts[i].height = base + Len(m.ticks) + i
           /\ ts[i].num_hashes + (IF i = 1 THEN m.partial ELSE 0) = hashes_per_tick
    <3> HIDE DEF m
    <3> SUFFICES ASSUME NEW i \in 1 .. n
                 PROVE  /\ ts[i].height = base + Len(m.ticks) + i
                        /\ ts[i].num_hashes + (IF i = 1 THEN m.partial ELSE 0) = hashes_per_tick
      BY <1>11
    <3>1. i \in 1 .. Len(k)
      BY <1>2, <1>6, SMTT(30)
    <3>2. ts[i].height = base + i /\ ts[i].num_hashes = hashes_per_tick
      BY <1>4, <1>11, <3>1
    <3>3. i \in Int /\ base + 0 + i = base + i /\ hashes_per_tick + 0 = hashes_per_tick
      BY <1>2, <1>3, <3>1, SMTT(30)
    <3> QED
      BY <2>1, <2>2, <3>2, <3>3
  <2> HIDE DEF m, n
  <2>4. base \in Int /\ ts \in Seq(CachedTick)
    BY <1>3, <1>11, SMTT(30)
  <2>5. /\ Broadcast(m, ts) \in LedgerType /\ Valid(Broadcast(m, ts), base)
        /\ Len(Broadcast(m, ts).ticks) = Len(m.ticks) + Len(ts)
        /\ Broadcast(m, ts).partial = IF ts = <<>> THEN m.partial ELSE 0
    BY <2>1, <2>2, <2>3, <2>4, BroadcastValid
  <2>6. Len(m.ticks) + Len(ts) = n
    BY <1>2, <1>6, <1>11, <2>2, SMTT(30)
  <2> QED
    BY <2>1, <2>5, <2>6 DEF B, m
<1> HIDE DEF B
<1>14. L \in [Slots -> LedgerType] /\ L[b] = B /\ \A s \in Slots : s # b => L[s] = l[s]
  BY <1>1, <1>2, <1>10, <1>13 DEF B
<1>15. HeightInv(R, parent)
  <2>1. CASE h < M
    <3>1. n = Len(k)
      BY <1>2, <1>3, <2>1, SMTT(30)
    <3> HIDE DEF n
    <3>2. us = <<>>
      BY <1>2, <1>11, <3>1, SMTT(30)
    <3> QED
      BY <1>2, <1>3, <1>12, <2>1, <3>2 DEF HeightInv, M, base
  <2>2. CASE ~(h < M)
    <3> HIDE DEF n
    <3>1. M <= h
      BY <1>2, <1>3, <2>2, SMTT(30)
    <3> QED
      BY <1>12, <2>2, <3>1 DEF HeightInv, M
  <2> QED
    BY <2>1, <2>2
<1>16. CacheInv(R)
  <2>0. R.working = NoBank => ~(h < M)
    BY <1>12, SlotTypes
  <2> SUFFICES ASSUME R.working = NoBank
               PROVE  /\ h = M + Len(us)
                      /\ \A i \in DOMAIN us : /\ us[i].height = M + i
                                              /\ us[i].num_hashes = hashes_per_tick
    BY <1>12, <2>0 DEF CacheInv, M
  <2>1. ~(h < M)
    BY <2>0
  <2>2. n = M - base
    <3>1. CASE h <= M
      <4>1. n = Len(k) /\ h = M
        BY <1>2, <1>3, <2>1, <3>1, SMTT(30)
      <4> HIDE DEF n
      <4> QED
        BY <1>2, <1>3, <1>4, <4>1, SMTT(30)
    <3>2. CASE ~(h <= M)
      BY <3>2
    <3> QED
      BY <3>1, <3>2
  <2> HIDE DEF n
  <2>3. ASSUME NEW i \in 1 .. Len(k) - n
        PROVE  us[i].height = M + i /\ us[i].num_hashes = hashes_per_tick
    <3>1. n + i \in 1 .. Len(k) /\ i \in Int
      BY <1>2, <1>6, SMTT(30)
    <3>2. us[i] = k[n + i]
      BY <1>11
    <3>3. k[n + i].height = base + (n + i) /\ k[n + i].num_hashes = hashes_per_tick
      BY <1>4, <3>1
    <3>4. base + (n + i) = M + i
      BY <1>3, <2>2, <3>1, SMTT(30)
    <3> QED
      BY <3>2, <3>3, <3>4
  <2>4. Len(us) = Len(k) - n /\ DOMAIN us = 1 .. Len(k) - n
    BY <1>11
  <2>5. h = M + Len(us)
    BY <1>2, <1>3, <1>4, <2>2, <2>4, SMTT(30)
  <2> QED
    BY <2>3, <2>4, <2>5
<1>17. HashInv(R, p, L)
  <2>1. Spent(R, L) = 0
    BY <1>12, <1>13, <1>14 DEF Spent
  <2> QED
    BY <1>1, <2>1 DEF HashInv, Spent
<1>18. LedgerInv(R, L, parent)
  <2> SUFFICES ASSUME NEW s \in Slots
               PROVE  IF parent[s] \in Slots
                      THEN /\ Valid(L[s], max_tick_height(parent[s]))
                           /\ Len(L[s].ticks) <= max_tick_height(s) - max_tick_height(parent[s])
                           /\ s = R.working =>
                                 Len(L[s].ticks) = R.tick_height - max_tick_height(parent[s])
                      ELSE L[s] = NewLedger
    BY DEF LedgerInv
  <2>1. CASE s = b
    <3>0. h = base + Len(k)
      BY <1>4
    <3>1. n <= M - base
      BY <1>2, <1>3, <3>0, SMTT(30)
    <3>2. h < M => n = h - base
      BY <1>2, <1>3, <3>0, SMTT(30)
    <3> HIDE DEF n
    <3>3. Len(B.ticks) <= M - base /\ (b = R.working => Len(B.ticks) = R.tick_height - base)
      BY <1>12, <1>13, <3>1, <3>2, SlotTypes
    <3> QED
      BY <1>2, <1>13, <1>14, <2>1, <3>3 DEF M, base
  <2>2. CASE s # b
    <3>1. L[s] = l[s] /\ s # R.working
      BY <1>12, <1>14, <2>2, SlotTypes
    <3> QED
      BY <1>1, <3>1 DEF LedgerInv
  <2> QED
    BY <2>1, <2>2
<1>19. ChainInv(R, p, L, parent)
  <2> HIDE DEF n
  <2> QED
    BY <1>1, <1>12, <1>14, <1>15, <1>16, <1>17, <1>18 DEF ChainInv
<1> HIDE DEF n
<1> QED
  BY <1>12, <1>19 DEF R, L, c, M

-----------------------------------------------------------------------------
(* Room for mixins in the working bank *)

\* The ticks ahead, and the products with them.
LEMMA AheadFacts ==
    ASSUME NEW r, NEW p, NEW l, ChainInv(r, p, l, parent), r.working # NoBank
    PROVE  LET d == Ahead(r)
               x == Ahead(r) * (hashes_per_tick - 1)
           IN
           /\ d \in Nat /\ d <= ticks_per_slot - 1 /\ x \in Nat
           /\ d >= 1 => x >= hashes_per_tick - 1
           /\ d >= 1 <=> r.tick_height + 1 < max_tick_height(r.working)
           /\ d = 0 => x = 0
           /\ remaining_hashes_in_slot(p) = x + d + p.remaining
           /\ Room(r, p) = p.remaining - 1 + x
           /\ SaturatingSub(p.remaining, 1)
                 + SaturatingSub(max_tick_height(r.working), r.tick_height + 1)
                       * (hashes_per_tick - 1) = Room(r, p)
<1> DEFINE s == r.working
           h == r.tick_height
           M == max_tick_height(s)
           d == Ahead(r)
           g == hashes_per_tick - 1
           x == d * g
<1>1. /\ s \in Slots /\ h \in Nat /\ s * ticks_per_slot <= h /\ h < M
      /\ p.remaining \in 1 .. hashes_per_tick /\ p.tick_number = h % ticks_per_slot
  BY DEF ChainInv, HeightInv, Recorder, Chain
<1>2. /\ s \in Nat /\ M \in Nat /\ M = s * ticks_per_slot + ticks_per_slot
      /\ ticks_per_slot \in Nat \ {0} /\ g \in Nat \ {0} /\ s * ticks_per_slot \in Nat
      /\ hashes_per_tick \in Nat
  <2>1. s \in Nat /\ ticks_per_slot \in Nat \ {0} /\ g \in Nat \ {0} /\ hashes_per_tick \in Nat
    BY <1>1, SlotTypes, PohAssumption, SMTT(30)
  <2> HIDE DEF s
  <2> QED
    BY <2>1, Heights, SMTT(30)
<1>3. d = M - (h + 1)
  BY DEF Ahead
<1>4. p.tick_number = h - s * ticks_per_slot
  BY <1>1, <1>2, SlotUnique
<1> HIDE DEF M, d
<1>5. d \in Nat /\ d <= ticks_per_slot - 1 /\ (d >= 1 <=> h + 1 < M)
  BY <1>1, <1>2, <1>3, SMTT(30)
<1>6. ticks_per_slot - (p.tick_number + 1) = d
  BY <1>1, <1>2, <1>3, <1>4, SMTT(30)
<1>7. x \in Nat /\ d * (g + 1) = x + d
  BY <1>2, <1>5, SMTT(30)
<1>8. d >= 1 => x >= g
  <2> SUFFICES ASSUME d >= 1 PROVE x >= g
    OBVIOUS
  <2>1. d - 1 \in Nat /\ (d - 1) * g \in Nat /\ (d - 1) * g = d * g - g
    BY <1>2, <1>5, SMTT(30)
  <2> QED
    BY <1>2, <1>7, <2>1, SMTT(30)
<1>9. d = 0 => x = 0
  BY <1>2, SMTT(30)
<1>10. remaining_hashes_in_slot(p) = x + d + p.remaining
  <2>1. remaining_hashes_in_slot(p) = d * hashes_per_tick + p.remaining
    BY <1>6 DEF remaining_hashes_in_slot
  <2>2. d * hashes_per_tick = d * (g + 1)
    BY <1>2, SMTT(30)
  <2> QED
    BY <1>7, <2>1, <2>2
<1>11. Room(r, p) = p.remaining - 1 + x
  BY DEF Room, d
<1>12. SaturatingSub(p.remaining, 1) = p.remaining - 1
  BY <1>1, <1>2, SMTT(30) DEF SaturatingSub
<1>13. SaturatingSub(M, h + 1) = d
  BY <1>1, <1>2, <1>3, SMTT(30) DEF SaturatingSub
<1> HIDE DEF x
<1> QED
  BY <1>5, <1>7, <1>8, <1>9, <1>10, <1>11, <1>12, <1>13 DEF d, M, x

\* While the channel stays open, the next batch of hashes does not bring the
\* bank's last tick.
LEMMA OpenLeavesRoom ==
    ASSUME NEW r, NEW p, NEW l, ChainInv(r, p, l, parent), r.working # NoBank
    PROVE  /\ Room(r, p) \in Nat
           /\ ~should_shutdown(SaturatingSub(remaining_hashes_in_slot(p), hashes_per_batch))
                 => hashes_per_batch + 1 <= Room(r, p)
           /\ ~should_shutdown(remaining_hashes_in_slot(p)) => hashes_per_batch + 1 <= Room(r, p)
           /\ r.tick_height + 1 < max_tick_height(r.working) => hashes_per_batch + 1 <= Room(r, p)
           /\ hashes_per_batch + 1 <= Room(r, p) /\ p.remaining - 1 <= hashes_per_batch
                 => r.tick_height + 1 < max_tick_height(r.working)
<1> DEFINE d == Ahead(r)
           x == Ahead(r) * (hashes_per_tick - 1)
           m == p.remaining
           R == remaining_hashes_in_slot(p)
<1>1. /\ d \in Nat /\ d <= ticks_per_slot - 1 /\ x \in Nat
      /\ d >= 1 => x >= hashes_per_tick - 1
      /\ d >= 1 <=> r.tick_height + 1 < max_tick_height(r.working)
      /\ d = 0 => x = 0
      /\ R = x + d + m
      /\ Room(r, p) = m - 1 + x
  BY AheadFacts
<1>2. /\ m \in 1 .. hashes_per_tick /\ hashes_per_tick \in Nat /\ ticks_per_slot \in Nat \ {0}
      /\ CAPACITY \in Nat \ {0} /\ hashes_per_batch \in Nat
      /\ hashes_per_batch <= hashes_per_tick - 2
      /\ hashes_per_batch < ticks_per_slot + CAPACITY
  BY PohAssumption, BatchAssumption DEF ChainInv, Chain
<1> HIDE DEF d, x, m, R
<1>3. ~should_shutdown(SaturatingSub(R, hashes_per_batch)) => hashes_per_batch + 1 <= Room(r, p)
  <2> SUFFICES ASSUME ~should_shutdown(SaturatingSub(R, hashes_per_batch))
               PROVE  hashes_per_batch + 1 <= Room(r, p)
    OBVIOUS
  <2>1. R \in Nat
    BY <1>1, <1>2, SMTT(30)
  <2>2. R > hashes_per_batch /\ R - hashes_per_batch > ticks_per_slot + CAPACITY
    BY <1>2, <2>1, SMTT(30) DEF should_shutdown, SaturatingSub
  <2> QED
    BY <1>1, <1>2, <2>2, SMTT(30)
<1>4. ~should_shutdown(R) => hashes_per_batch + 1 <= Room(r, p)
  <2> SUFFICES ASSUME ~should_shutdown(R)
               PROVE  hashes_per_batch + 1 <= Room(r, p)
    OBVIOUS
  <2>1. R \in Nat
    BY <1>1, <1>2, SMTT(30)
  <2>2. R > ticks_per_slot + CAPACITY
    BY <1>2, <2>1, SMTT(30) DEF should_shutdown, SaturatingSub
  <2>3. CASE d = 0
    BY <1>1, <1>2, <2>2, <2>3, SMTT(30)
  <2>4. CASE d >= 1
    BY <1>1, <1>2, <2>4, SMTT(30)
  <2> QED
    BY <1>1, <2>3, <2>4, SMTT(30)
<1>5. d >= 1 => hashes_per_batch + 1 <= Room(r, p)
  BY <1>1, <1>2, SMTT(30)
<1>6. hashes_per_batch + 1 <= Room(r, p) /\ m - 1 <= hashes_per_batch => d >= 1
  BY <1>1, <1>2, SMTT(30)
<1>7. Room(r, p) \in Nat
  BY <1>1, <1>2, SMTT(30)
<1> QED
  BY <1>1, <1>3, <1>4, <1>5, <1>6, <1>7 DEF R, m

-----------------------------------------------------------------------------
(* The steps of the PoH thread that leave the chain alone *)

\* What the steps need of the types.
LEMMA Facts ==
    ASSUME IInv
    PROVE  /\ rec \in Recorder /\ poh \in Chain /\ ledger \in [Slots -> LedgerType]
           /\ rec.working # NoBank => rec.working \in Slots
           /\ rec.leading \in BOOLEAN /\ rec.start \in Slots /\ rec.tick_height \in Nat
           /\ open \in Slots \cup {NoBank} /\ queue \in Seq(HeldRecord)
           /\ next_record \in HeldRecord \cup {NoRecord}
           /\ message \in {NoMessage} \cup [type : {"Reset", "SetBank"}, slot : Slots]
           /\ taken \in BOOLEAN /\ frozen \subseteq Slots /\ parent \in Parents
           /\ message.type = "SetBank" => message # NoMessage /\ message.slot \in Slots
           /\ NoRecord \notin HeldRecord /\ NoMessage.type = "none"
<1>1. rec \in Recorder /\ poh \in Chain /\ ledger \in [Slots -> LedgerType]
      /\ parent \in Parents
  BY DEF IInv, ChainInv, ParentInv
<1>2. /\ open \in Slots \cup {NoBank} /\ queue \in Seq(HeldRecord)
      /\ next_record \in HeldRecord \cup {NoRecord}
      /\ message \in {NoMessage} \cup [type : {"Reset", "SetBank"}, slot : Slots]
      /\ taken \in BOOLEAN /\ frozen \subseteq Slots
  BY DEF IInv, Types
<1>3. NoRecord \notin HeldRecord
  BY SlotTypes DEF NoRecord, HeldRecord
<1>4. message.type = "SetBank" => message # NoMessage /\ message.slot \in Slots
  BY <1>2, SMTT(30) DEF NoMessage
<1> QED
  BY <1>1, <1>2, <1>3, <1>4 DEF Recorder, NoMessage

\* The head of the outer loop may only close the channel.
LEMMA CheckStep == ASSUME IInv, CheckForServiceMessage PROVE IInv'
<1>1. /\ ppc = "top" /\ ppc' = "work"
      /\ taken' = (message # NoMessage)
      /\ open' = NoBank \/ (open' = open /\ ~taken')
      /\ UNCHANGED <<poh, rec, ledger, queue, next_record, left, block_received, speedrun,
                     message, parent, frozen>>
  BY DEF CheckForServiceMessage, ShutdownIf, pacing, replay
<1>2. ChainInv(rec, poh, ledger, parent)' /\ ParentInv(parent)'
  BY <1>1 DEF IInv
<1>3. Types'
  BY <1>1 DEF IInv, Types
<1>4. PlaceInv'
  BY <1>1 DEF IInv, PlaceInv
<1>5. MessageInv'
  BY <1>1 DEF IInv, MessageInv, Unset
<1>6. ChannelInv'
  BY <1>1 DEF IInv, ChannelInv
<1>7. ReceivedInv' /\ SpeedrunHasBlock' /\ RecordWhole'
  BY <1>1 DEF IInv, ReceivedInv, SpeedrunHasBlock, RecordWhole
<1>8. RoomInv' /\ DrainedInv'
  BY <1>1 DEF IInv, RoomInv, DrainedInv, total_remaining_hashes
<1> QED
  BY <1>2, <1>3, <1>4, <1>5, <1>6, <1>7, <1>8 DEF IInv

\* A record in hand is taken to the loop of record(), or the thread fails.
LEMMA RecordStep == ASSUME IInv, Record PROVE IInv'
<1>1. /\ ppc \in {"work", "record"} /\ next_record # NoRecord
      /\ block_received' = (block_received \/ next_record.harmonic)
      /\ left' = next_record.batches
      /\ ppc' = IF RecordFits THEN "mixing" ELSE "panicked"
      /\ UNCHANGED <<poh, rec, ledger, open, queue, next_record, speedrun, message, taken,
                     parent, frozen>>
  BY DEF Record, channel, service, replay, IInv, PlaceInv
<1>2. /\ next_record \in HeldRecord /\ next_record.batches \in 1 .. CAPACITY
      /\ next_record.harmonic \in BOOLEAN /\ CAPACITY \in Nat
  BY <1>1, Facts, PohAssumption DEF HeldRecord
<1>3. ChainInv(rec, poh, ledger, parent)' /\ ParentInv(parent)'
  BY <1>1 DEF IInv
<1>4. Types'
  <2>1. left' \in Nat /\ block_received' \in BOOLEAN
    BY <1>1, <1>2, SMTT(30) DEF IInv, Types
  <2> QED
    BY <1>1, <2>1 DEF IInv, Types
<1>5. PlaceInv'
  <2>1. left' \in 1 .. next_record'.batches
    BY <1>1, <1>2, SMTT(30)
  <2> QED
    BY <1>1, <2>1 DEF IInv, PlaceInv
<1>6. MessageInv'
  BY <1>1 DEF IInv, MessageInv, Unset
<1>7. ChannelInv' /\ SpeedrunHasBlock' /\ DrainedInv'
  BY <1>1 DEF IInv, ChannelInv, SpeedrunHasBlock, DrainedInv
<1>8. ReceivedInv'
  BY <1>1, <1>2 DEF IInv, ReceivedInv
<1>9. RecordWhole'
  <2>1. total_remaining_hashes' = total_remaining_hashes
    BY <1>1 DEF total_remaining_hashes
  <2> QED
    BY <1>1, <2>1 DEF IInv, RecordWhole, RecordFits, ChannelInv
<1>10. RoomInv'
  BY <1>1 DEF RoomInv
<1> QED
  BY <1>3, <1>4, <1>5, <1>6, <1>7, <1>8, <1>9, <1>10 DEF IInv

\* The end of a round without a message.
LEMMA NoMessageStep == ASSUME IInv, NoServiceMessage PROVE IInv'
<1>1. /\ ppc = "handle" /\ ~taken /\ ppc' \in {"exited", "top"}
      /\ UNCHANGED <<poh, rec, ledger, open, queue, next_record, left, block_received, speedrun,
                     message, taken, parent, frozen>>
  BY DEF NoServiceMessage, channel, pacing, service, replay
<1>2. ChainInv(rec, poh, ledger, parent)' /\ ParentInv(parent)'
  BY <1>1 DEF IInv
<1>3. Types' /\ PlaceInv'
  BY <1>1 DEF IInv, Types, PlaceInv
<1>4. MessageInv' /\ ChannelInv' /\ DrainedInv'
  BY <1>1 DEF IInv, MessageInv, Unset, ChannelInv, DrainedInv
<1>5. ReceivedInv' /\ SpeedrunHasBlock' /\ RecordWhole'
  BY <1>1 DEF IInv, ReceivedInv, SpeedrunHasBlock, RecordWhole
<1>6. RoomInv'
  BY <1>1 DEF IInv, RoomInv, total_remaining_hashes
<1> QED
  BY <1>2, <1>3, <1>4, <1>5, <1>6 DEF IInv

\* The message counts as pending until its guard is dropped.
LEMMA DropGuardStep == ASSUME IInv, DropGuard PROVE IInv'
<1>1. /\ \/ ppc = "release" /\ message' = NoMessage /\ taken' = FALSE /\ ppc' = "top"
         \/ ppc = "handle" /\ taken /\ ppc' = "panicked" /\ UNCHANGED <<message, taken>>
      /\ UNCHANGED <<poh, rec, ledger, open, queue, next_record, left, block_received, speedrun,
                     parent, frozen>>
  BY DEF DropGuard, channel, pacing, service, replay
<1>2. ChainInv(rec, poh, ledger, parent)' /\ ParentInv(parent)'
  BY <1>1 DEF IInv
<1>3. Types' /\ PlaceInv'
  BY <1>1 DEF IInv, Types, PlaceInv
<1>4. MessageInv' /\ ChannelInv' /\ DrainedInv'
  BY <1>1, Facts DEF IInv, MessageInv, Unset, ChannelInv, DrainedInv
<1>5. ReceivedInv' /\ SpeedrunHasBlock' /\ RecordWhole'
  BY <1>1 DEF IInv, ReceivedInv, SpeedrunHasBlock, RecordWhole
<1>6. RoomInv'
  BY <1>1 DEF IInv, RoomInv, total_remaining_hashes
<1> QED
  BY <1>2, <1>3, <1>4, <1>5, <1>6 DEF IInv

\* What try_recv leaves in the channel and in hand.
LEMMA RecvFacts ==
    ASSUME IInv, NEW some, NEW none, TryRecv(some, none)
    PROVE  /\ queue' \in Seq(HeldRecord) /\ next_record' \in HeldRecord \cup {NoRecord}
           /\ queue = <<>> => queue' = <<>> /\ next_record' = NoRecord /\ ppc' = none
           /\ queue # <<>> => next_record' \in HeldRecord /\ next_record' # NoRecord /\ ppc' = some
           /\ rec.working # NoBank =>
                 /\ \A i \in DOMAIN queue' : queue'[i].bank = rec.working
                 /\ next_record' # NoRecord => next_record'.bank = rec.working
<1>1. queue \in Seq(HeldRecord) /\ NoRecord \notin HeldRecord
  BY Facts
<1>2. CASE queue = <<>>
  <2>1. queue' = <<>> /\ next_record' = NoRecord /\ ppc' = none
    BY <1>2 DEF TryRecv
  <2> QED
    BY <1>1, <1>2, <2>1, SMTT(30)
<1>3. CASE queue # <<>>
  <2>1. next_record' = Head(queue) /\ queue' = Tail(queue) /\ ppc' = some
    BY <1>3 DEF TryRecv
  <2>2. /\ Head(queue) \in HeldRecord /\ Tail(queue) \in Seq(HeldRecord)
        /\ Head(queue) = queue[1] /\ 1 \in DOMAIN queue
        /\ \A i \in DOMAIN Tail(queue) : i + 1 \in DOMAIN queue /\ Tail(queue)[i] = queue[i + 1]
    BY <1>1, <1>3, SMTT(30)
  <2>3. rec.working # NoBank => \A i \in DOMAIN queue : queue[i].bank = rec.working
    BY DEF IInv, ChannelInv
  <2> QED
    BY <1>1, <1>3, <2>1, <2>2, <2>3
<1> QED
  BY <1>2, <1>3

\* The busy wait ends with a record or without.
LEMMA BusyWaitStep == ASSUME IInv, BusyWait PROVE IInv'
<1>1. /\ ppc = "wait" /\ ppc' = "pace"
      /\ \/ queue # <<>> /\ TryRecv("pace", "pace")
         \/ UNCHANGED <<queue, next_record>>
      /\ UNCHANGED <<poh, rec, ledger, open, left, block_received, speedrun, message, taken,
                     parent, frozen>>
  BY DEF BusyWait, TryRecv, pacing, service, replay
<1>2. ChainInv(rec, poh, ledger, parent)' /\ ParentInv(parent)'
  BY <1>1 DEF IInv
<1>3. Types'
  BY <1>1, RecvFacts DEF IInv, Types
<1>4. PlaceInv'
  BY <1>1 DEF IInv, PlaceInv
<1>5. MessageInv' /\ ReceivedInv' /\ SpeedrunHasBlock' /\ RecordWhole'
  BY <1>1 DEF IInv, MessageInv, Unset, ReceivedInv, SpeedrunHasBlock, RecordWhole
<1>6. ChannelInv'
  BY <1>1, RecvFacts DEF IInv, ChannelInv
<1>7. DrainedInv'
  BY <1>1 DEF IInv, DrainedInv
<1>8. RoomInv'
  BY <1>1, RecvFacts DEF IInv, RoomInv, total_remaining_hashes
<1> QED
  BY <1>2, <1>3, <1>4, <1>5, <1>6, <1>7, <1>8 DEF IInv

\* A record is accepted for the working bank.
LEMMA SendStep == ASSUME IInv, NEW r \in Records, Send(r) PROVE IInv'
<1> DEFINE m == [bank |-> open, batches |-> r.batches, harmonic |-> r.harmonic]
<1>1. /\ open # NoBank /\ queue' = Append(queue, m)
      /\ UNCHANGED <<poh, rec, ledger, open, ppc, next_record, left, block_received, speedrun,
                     message, taken, parent, frozen>>
  BY DEF Send, pacing, service, replay
<1>2. rec.working # NoBank /\ open = rec.working
  BY <1>1 DEF IInv, DrainedInv, ChannelInv
<1>3. m \in HeldRecord
  BY <1>1, Facts, PohAssumption DEF HeldRecord
<1>4. /\ queue' \in Seq(HeldRecord) /\ queue' # <<>>
      /\ \A i \in DOMAIN queue' : (i \in DOMAIN queue /\ queue'[i] = queue[i]) \/ queue'[i] = m
  <2> HIDE DEF m
  <2>1. queue \in Seq(HeldRecord)
    BY Facts
  <2> QED
    BY <1>1, <1>3, <2>1, SMTT(30)
<1>5. ChainInv(rec, poh, ledger, parent)' /\ ParentInv(parent)'
  BY <1>1 DEF IInv
<1>6. Types'
  BY <1>1, <1>4 DEF IInv, Types
<1>7. PlaceInv'
  BY <1>1 DEF IInv, PlaceInv
<1>8. MessageInv' /\ ReceivedInv' /\ SpeedrunHasBlock'
  BY <1>1 DEF IInv, MessageInv, Unset, ReceivedInv, SpeedrunHasBlock
<1>9. RecordWhole'
  BY <1>1 DEF IInv, RecordWhole, total_remaining_hashes
<1>10. ChannelInv'
  <2>1. m.bank = rec.working
    BY <1>2
  <2> HIDE DEF m
  <2> QED
    BY <1>1, <1>4, <2>1 DEF IInv, ChannelInv
<1>11. DrainedInv'
  BY <1>1, <1>2 DEF DrainedInv
<1>12. RoomInv'
  BY <1>1 DEF IInv, RoomInv, total_remaining_hashes
<1> QED
  BY <1>5, <1>6, <1>7, <1>8, <1>9, <1>10, <1>11, <1>12 DEF IInv

-----------------------------------------------------------------------------
(* The steps of the replay loop *)

\* A step of the replay loop that only it can see.
LEMMA QuietStep ==
    ASSUME IInv, frozen' \subseteq Slots,
           UNCHANGED <<poh, rec, ledger, open, queue, ppc, next_record, left, block_received,
                       speedrun, message, taken, parent>>
    PROVE  IInv'
<1>1. ChainInv(rec, poh, ledger, parent)' /\ ParentInv(parent)'
  BY DEF IInv
<1>2. Types' /\ PlaceInv' /\ ChannelInv' /\ DrainedInv'
  BY DEF IInv, Types, PlaceInv, ChannelInv, DrainedInv
<1>3. MessageInv' /\ ReceivedInv' /\ SpeedrunHasBlock'
  BY DEF IInv, MessageInv, Unset, ReceivedInv, SpeedrunHasBlock
<1>4. RecordWhole' /\ RoomInv'
  BY DEF IInv, RecordWhole, RoomInv, total_remaining_hashes
<1> QED
  BY <1>1, <1>2, <1>3, <1>4 DEF IInv

\* Banks made by other leaders do not concern PoH.
LEMMA ReplayBanksStep == ASSUME IInv, ReplayActiveBanks PROVE IInv'
<1>1. /\ UNCHANGED <<poh, rec, ledger, open, queue, ppc, next_record, left, block_received,
                     speedrun, message, taken>>
      /\ frozen' \subseteq Slots /\ parent' \in Parents
      /\ \A s \in Slots : parent'[s] = parent[s] \/ (parent[s] = NoBank /\ parent'[s] = Foreign)
  <2>1. PICK other \in {{}} \cup {{s} : s \in {t \in Slots : parent[t] = NoBank}} :
           /\ parent' = [s \in Slots |-> IF s \in other THEN Foreign ELSE parent[s]]
           /\ frozen' = frozen \cup {s \in Slots : is_complete(s)} \cup other
    BY DEF ReplayActiveBanks
  <2>2. other \subseteq Slots /\ \A s \in other : parent[s] = NoBank
    OBVIOUS
  <2>3. parent \in Parents /\ frozen \subseteq Slots
    BY Facts
  <2>4. parent' \in Parents
    BY <2>1, <2>3 DEF Parents
  <2> QED
    BY <2>1, <2>2, <2>3, <2>4 DEF ReplayActiveBanks, PohVars, channel, pacing
<1>2. \A s \in Slots : /\ parent[s] \in Slots <=> parent'[s] \in Slots
                       /\ parent[s] \in Slots => parent'[s] = parent[s]
  BY <1>1, SlotTypes
<1>3. ParentInv(parent)'
  BY <1>1, <1>2 DEF IInv, ParentInv
<1>4. HeightInv(rec, parent)'
  BY <1>1, <1>2, Facts DEF IInv, ChainInv, HeightInv
<1>5. LedgerInv(rec, ledger, parent)'
  <2> SUFFICES ASSUME NEW s \in Slots
               PROVE  IF parent'[s] \in Slots
                      THEN /\ Valid(ledger[s], max_tick_height(parent'[s]))
                           /\ Len(ledger[s].ticks) <= max_tick_height(s) - max_tick_height(parent'[s])
                           /\ s = rec.working =>
                                 Len(ledger[s].ticks) = rec.tick_height - max_tick_height(parent'[s])
                      ELSE ledger[s] = NewLedger
    BY <1>1 DEF LedgerInv
  <2>1. LedgerInv(rec, ledger, parent)
    BY DEF IInv, ChainInv
  <2>2. CASE parent[s] \in Slots
    BY <1>2, <2>1, <2>2 DEF LedgerInv
  <2>3. CASE parent[s] \notin Slots
    BY <1>2, <2>1, <2>3 DEF LedgerInv
  <2> QED
    BY <2>2, <2>3
<1>6. ChainInv(rec, poh, ledger, parent)'
  <2>1. CacheInv(rec)' /\ HashInv(rec, poh, ledger)'
    BY <1>1 DEF IInv, ChainInv
  <2> QED
    BY <1>1, <1>4, <1>5, <2>1 DEF IInv, ChainInv
<1>7. MessageInv'
  <2> SUFFICES ASSUME Unset
               PROVE  /\ rec.working = NoBank /\ rec.leading
                      /\ parent'[message.slot] = rec.start
                      /\ message.slot * ticks_per_slot <= rec.tick_height
                      /\ ledger[message.slot] = NewLedger
    BY <1>1 DEF MessageInv, Unset
  <2> QED
    BY <1>2, Facts DEF IInv, MessageInv, Unset
<1>8. Types' /\ PlaceInv' /\ ChannelInv' /\ DrainedInv'
  BY <1>1 DEF IInv, Types, PlaceInv, ChannelInv, DrainedInv
<1>9. ReceivedInv' /\ SpeedrunHasBlock'
  BY <1>1 DEF IInv, ReceivedInv, SpeedrunHasBlock
<1>10. RecordWhole' /\ RoomInv'
  BY <1>1 DEF IInv, RecordWhole, RoomInv, total_remaining_hashes
<1> QED
  BY <1>3, <1>6, <1>7, <1>8, <1>9, <1>10 DEF IInv

\* A Reset is sent when no message is pending.
LEMMA MaybeResetStep == ASSUME IInv, MaybeReset PROVE IInv'
<1>1. /\ UNCHANGED <<poh, rec, ledger, open, queue, ppc, next_record, left, block_received,
                     speedrun, taken, parent, frozen>>
      /\ \/ message' = message
         \/ \E bank \in frozen : message = NoMessage /\ message' = [type |-> "Reset", slot |-> bank]
  BY DEF MaybeReset, PohVars, channel, pacing
<1>2. CASE message' = message
  BY <1>1, <1>2, QuietStep, Facts
<1>3. CASE \E bank \in frozen : message = NoMessage /\ message' = [type |-> "Reset", slot |-> bank]
  <2>1. PICK bank \in frozen : message = NoMessage /\ message' = [type |-> "Reset", slot |-> bank]
    BY <1>3
  <2>2. /\ ~taken /\ ppc # "release" /\ bank \in Slots
        /\ message' \in [type : {"Reset", "SetBank"}, slot : Slots]
        /\ message'.type = "Reset" /\ message' # NoMessage
    BY <2>1, Facts DEF IInv, PlaceInv, NoMessage
  <2>3. ChainInv(rec, poh, ledger, parent)' /\ ParentInv(parent)'
    BY <1>1 DEF IInv
  <2>4. Types' /\ PlaceInv'
    BY <1>1, <2>2 DEF IInv, Types, PlaceInv
  <2>5. ChannelInv' /\ DrainedInv' /\ MessageInv'
    BY <1>1, <2>2 DEF IInv, ChannelInv, DrainedInv, MessageInv, Unset
  <2>6. ReceivedInv' /\ SpeedrunHasBlock'
    BY <1>1, <2>2 DEF IInv, ReceivedInv, SpeedrunHasBlock
  <2>7. RecordWhole' /\ RoomInv'
    BY <1>1 DEF IInv, RecordWhole, RoomInv, total_remaining_hashes
  <2> QED
    BY <2>3, <2>4, <2>5, <2>6, <2>7 DEF IInv
<1> QED
  BY <1>1, <1>2, <1>3

\* A bank is started for the slot PoH is in, on top of PoH's start bank, when
\* none is working: otherwise the slot would have its bank.
LEMMA StartLeaderStep == ASSUME IInv, maybe_start_leader PROVE IInv'
<1> DEFINE b == current_poh_slot
<1>1. /\ UNCHANGED <<poh, rec, ledger, open, queue, ppc, next_record, left, block_received,
                     speedrun, taken, frozen>>
      /\ message = NoMessage /\ rec.leading /\ b \in Slots /\ parent[b] = NoBank
      /\ \/ UNCHANGED <<parent, message>>
         \/ /\ parent' = [parent EXCEPT ![b] = rec.start]
            /\ message' = [type |-> "SetBank", slot |-> b]
  BY DEF maybe_start_leader, PohVars, channel, pacing
<1>2. CASE UNCHANGED <<parent, message>>
  BY <1>1, <1>2, QuietStep, Facts
<1>3. CASE /\ parent' = [parent EXCEPT ![b] = rec.start]
           /\ message' = [type |-> "SetBank", slot |-> b]
  <2>1. /\ rec.tick_height \in Nat /\ b = rec.tick_height \div ticks_per_slot /\ b \in Nat
        /\ b * ticks_per_slot <= rec.tick_height /\ rec.tick_height < max_tick_height(b)
    BY Facts, SlotOf DEF current_poh_slot
  <2> HIDE DEF b
  <2>2. ~taken /\ ppc # "release"
    BY <1>1 DEF IInv, PlaceInv
  <2>3. ChainInv(rec, poh, ledger, parent) /\ ParentInv(parent)
    BY DEF IInv
  <2>4. HeightInv(rec, parent) /\ LedgerInv(rec, ledger, parent)
    BY <2>3 DEF ChainInv
  <2>5. rec.working = NoBank
    <3> SUFFICES ASSUME rec.working # NoBank PROVE FALSE
      OBVIOUS
    <3>1. /\ rec.working \in Nat /\ parent[rec.working] \in Slots
          /\ rec.working * ticks_per_slot <= rec.tick_height
          /\ rec.tick_height < max_tick_height(rec.working)
      BY <2>4, Facts, SlotTypes DEF HeightInv
    <3>2. rec.tick_height \div ticks_per_slot = rec.working
      BY <2>1, <3>1, SlotUnique
    <3> QED
      BY <1>1, <2>1, <3>1, <3>2, SlotTypes
  <2>6. rec.start < b
    <3>1. /\ rec.start \in Nat /\ max_tick_height(rec.start) <= rec.tick_height
          /\ max_tick_height(rec.start) \in Nat /\ max_tick_height(b) \in Nat
      BY <2>1, <2>4, Facts, SlotTypes, Heights DEF HeightInv
    <3>2. b <= rec.start => max_tick_height(b) <= max_tick_height(rec.start)
      BY <2>1, <3>1, Heights, SMTT(30)
    <3> QED
      BY <2>1, <3>1, <3>2, SMTT(30)
  <2>7. /\ parent' \in Parents /\ parent'[b] = rec.start /\ rec.start \in Slots
        /\ \A s \in Slots : s # b => parent'[s] = parent[s]
    BY <1>1, <1>3, Facts DEF Parents
  <2>8. ParentInv(parent)'
    BY <2>3, <2>6, <2>7 DEF ParentInv
  <2>9. ledger[b] = NewLedger
    BY <1>1, <2>4, SlotTypes DEF LedgerInv
  <2>10. LedgerInv(rec, ledger, parent)'
    <3> SUFFICES ASSUME NEW s \in Slots
                 PROVE  IF parent'[s] \in Slots
                        THEN /\ Valid(ledger[s], max_tick_height(parent'[s]))
                             /\ Len(ledger[s].ticks) <= max_tick_height(s) - max_tick_height(parent'[s])
                             /\ s = rec.working =>
                                   Len(ledger[s].ticks) = rec.tick_height - max_tick_height(parent'[s])
                        ELSE ledger[s] = NewLedger
      BY <1>1 DEF LedgerInv
    <3>1. CASE s = b
      <4>1. Valid(NewLedger, max_tick_height(rec.start)) /\ Len(NewLedger.ticks) = 0
        BY SMTT(30) DEF Valid, NewLedger
      <4>2. max_tick_height(rec.start) <= max_tick_height(b)
            /\ max_tick_height(rec.start) \in Nat /\ max_tick_height(b) \in Nat
        BY <2>1, <2>6, <2>7, SlotTypes, Heights, SMTT(30)
      <4>3. 0 <= max_tick_height(b) - max_tick_height(rec.start)
        BY <4>2, SMTT(30)
      <4> QED
        BY <2>5, <2>7, <2>9, <3>1, <4>1, <4>3, SlotTypes
    <3>2. CASE s # b
      BY <2>4, <2>7, <3>2 DEF LedgerInv
    <3> QED
      BY <3>1, <3>2
  <2>11. ChainInv(rec, poh, ledger, parent)'
    <3>1. CacheInv(rec)' /\ HashInv(rec, poh, ledger)'
      BY <1>1, <2>3 DEF ChainInv
    <3>2. HeightInv(rec, parent)'
      BY <1>1, <2>4, <2>5 DEF HeightInv
    <3> QED
      BY <1>1, <2>3, <2>10, <3>1, <3>2 DEF ChainInv
  <2>12. /\ message' \in [type : {"Reset", "SetBank"}, slot : Slots]
         /\ message'.slot = b /\ message' # NoMessage
    BY <1>1, <1>3 DEF NoMessage
  <2>13. MessageInv'
    BY <1>1, <2>1, <2>5, <2>7, <2>9, <2>12 DEF MessageInv
  <2>14. Types' /\ PlaceInv' /\ ChannelInv' /\ DrainedInv'
    BY <1>1, <2>2, <2>12 DEF IInv, Types, PlaceInv, ChannelInv, DrainedInv
  <2>15. ReceivedInv' /\ SpeedrunHasBlock'
    BY <1>1, <2>2 DEF IInv, ReceivedInv, SpeedrunHasBlock
  <2>16. RecordWhole' /\ RoomInv'
    BY <1>1 DEF IInv, RecordWhole, RoomInv, total_remaining_hashes
  <2> QED
    BY <2>8, <2>11, <2>13, <2>14, <2>15, <2>16 DEF IInv
<1> QED
  BY <1>1, <1>2, <1>3

-----------------------------------------------------------------------------
(* The steps of the PoH thread that hash, tick and mix *)

\* The test of record(), as the room in the bank, before and after a step.
LEMMA RoomNow ==
    ASSUME IInv, rec.working # NoBank
    PROVE  total_remaining_hashes = Room(rec, poh)
BY AheadFacts DEF IInv, total_remaining_hashes

\* The same after a step, from what the invariant says of the chain.
LEMMA RoomNext ==
    ASSUME ChainInv(rec', poh', ledger', parent), rec'.working # NoBank
    PROVE  total_remaining_hashes' = Room(rec', poh')
<1>1. SaturatingSub(poh'.remaining, 1)
         + SaturatingSub(max_tick_height(rec'.working), rec'.tick_height + 1)
               * (hashes_per_tick - 1) = Room(rec', poh')
  BY AheadFacts
<1> QED
  BY <1>1 DEF total_remaining_hashes

\* A round of hashing closes the channel in time: what is sent until the next
\* look still fits.
LEMMA HashBatchStep == ASSUME IInv, HashBatch PROVE IInv'
<1> DEFINE p == hash(poh, hashes_per_batch)
           k == IF poh.remaining - 1 < hashes_per_batch THEN poh.remaining - 1
                ELSE hashes_per_batch
           closes == should_shutdown(SaturatingSub(remaining_hashes_in_slot(p), hashes_per_batch))
<1>1. /\ ppc = "work" /\ next_record = NoRecord
      /\ poh' = p
      /\ open' = IF closes THEN NoBank ELSE open
      /\ \/ p.remaining = 1 /\ ppc' = "tick" /\ UNCHANGED <<next_record, queue>>
         \/ p.remaining # 1 /\ TryRecv("pace", "work")
         \/ p.remaining # 1 /\ TryRecv("pace", "wait")
      /\ UNCHANGED <<rec, ledger, left, block_received, speedrun, message, taken,
                     parent, frozen>>
  BY DEF HashBatch, ShutdownIf, pacing, service, replay
<1>2. /\ poh \in Chain /\ poh.remaining \in 1 .. hashes_per_tick /\ poh.num_hashes \in Nat
      /\ hashes_per_batch \in Nat \ {0} /\ hashes_per_tick \in Nat
  BY Facts, PohAssumption DEF Chain
<1>3. /\ k \in Nat /\ k <= hashes_per_batch /\ k <= poh.remaining - 1
      /\ k = poh.remaining - 1 \/ k = hashes_per_batch
  BY <1>2, SMTT(30)
<1>4. p = [num_hashes |-> poh.num_hashes + k, remaining |-> poh.remaining - k,
           tick_number |-> poh.tick_number]
  <2>1. p = [poh EXCEPT !.num_hashes = @ + k, !.remaining = @ - k]
    BY DEF hash
  <2> HIDE DEF p, k
  <2> QED
    BY <1>2, <2>1 DEF Chain
<1> HIDE DEF p, k, closes
<1>5. p \in Chain
  BY <1>2, <1>3, <1>4, SMTT(30) DEF Chain
<1>6. ChainInv(rec, p, ledger, parent)
  <2>1. ChainInv(rec, poh, ledger, parent)
    BY DEF IInv
  <2>2. Spent(rec, ledger) \in Int
    BY Facts, SMTT(30) DEF Spent, LedgerType
  <2>3. HashInv(rec, p, ledger)
    BY <1>2, <1>3, <1>4, <2>1, <2>2, SMTT(30) DEF ChainInv, HashInv
  <2> QED
    BY <1>4, <1>5, <2>1, <2>3 DEF ChainInv
<1>7. ChainInv(rec, poh, ledger, parent)' /\ ParentInv(parent)'
  BY <1>1, <1>6 DEF IInv
<1>8. /\ queue' \in Seq(HeldRecord) /\ next_record' \in HeldRecord \cup {NoRecord}
      /\ queue = <<>> => queue' = <<>> /\ next_record' = NoRecord
      /\ next_record' = NoRecord => (p.remaining = 1 /\ queue' = queue) \/ queue' = <<>>
      /\ ppc' \in {"tick", "pace", "work", "wait"}
      /\ ppc' \in {"tick", "wait"} => next_record' = NoRecord
      /\ ppc' = "tick" => p.remaining = 1
      /\ rec.working # NoBank =>
            /\ \A i \in DOMAIN queue' : queue'[i].bank = rec.working
            /\ next_record' # NoRecord => next_record'.bank = rec.working
  <2>1. CASE p.remaining = 1 /\ ppc' = "tick" /\ UNCHANGED <<next_record, queue>>
    BY <1>1, <2>1, Facts DEF IInv, ChannelInv
  <2>2. CASE TryRecv("pace", "work") /\ p.remaining # 1
    BY <2>2, RecvFacts, SMTT(30)
  <2>3. CASE TryRecv("pace", "wait") /\ p.remaining # 1
    BY <2>3, RecvFacts, SMTT(30)
  <2> QED
    BY <1>1, <2>1, <2>2, <2>3
<1>9. Types'
  BY <1>1, <1>8, Facts DEF IInv, Types
<1>10. PlaceInv'
  BY <1>1, <1>8 DEF IInv, PlaceInv
<1>11. MessageInv' /\ ReceivedInv' /\ SpeedrunHasBlock' /\ RecordWhole'
  BY <1>1, <1>8 DEF IInv, MessageInv, Unset, ReceivedInv, SpeedrunHasBlock, RecordWhole
<1>12. ChannelInv' /\ DrainedInv'
  BY <1>1, <1>8 DEF IInv, ChannelInv, DrainedInv
<1>13. RoomInv'
  <2> SUFFICES ASSUME rec.working # NoBank, next_record' = NoRecord,
                      open' # NoBank \/ queue' # <<>>
               PROVE  hashes_per_batch + 1 <= Room(rec, p)
    BY <1>1, <1>7, RoomNext DEF RoomInv
  <2>1. CASE open' # NoBank
    BY <1>1, <1>6, <2>1, OpenLeavesRoom DEF closes
  <2>2. CASE queue' # <<>>
    <3>1. queue # <<>> /\ p.remaining = 1
      BY <1>8, <2>2
    <3>2. hashes_per_batch + 1 <= Room(rec, poh)
      BY <1>1, <3>1, RoomNow DEF IInv, RoomInv
    <3>3. poh.remaining - 1 <= hashes_per_batch
      BY <1>2, <1>3, <1>4, <3>1, SMTT(30)
    <3>4. rec.tick_height + 1 < max_tick_height(rec.working)
      BY <3>2, <3>3, OpenLeavesRoom DEF IInv
    <3> QED
      BY <1>6, <3>4, OpenLeavesRoom
  <2> QED
    BY <2>1, <2>2
<1> QED
  BY <1>7, <1>9, <1>10, <1>11, <1>12, <1>13 DEF IInv

\* Without a working bank a tick flushes nothing.
LEMMA NoBankNoFlush ==
    ASSUME NEW r, NEW p, NEW l, ChainInv(r, p, l, parent), r.working = NoBank
    PROVE  /\ Cached(r, p).working = NoBank /\ Cached(r, p).tick_height = r.tick_height + 1
           /\ Cached(r, p).start = r.start /\ Cached(r, p).leading = r.leading
           /\ \A leads : flush_cache(Cached(r, p), TRUE, leads) = Cached(r, p)
           /\ Flushed(Cached(r, p), TRUE, l) = l
<1> DEFINE c == Cached(r, p)
<1>1. c.working = NoBank /\ c.tick_height = r.tick_height + 1 /\ c.start = r.start
      /\ c.leading = r.leading
  BY DEF Cached, ChainInv, Recorder
<1>2. FlushRefused(c, TRUE)
  BY <1>1 DEF FlushRefused
<1> HIDE DEF c
<1>3. (\A leads : flush_cache(c, TRUE, leads) = c) /\ Flushed(c, TRUE, l) = l
  BY <1>2 DEF flush_cache, Flushed
<1> QED
  BY <1>1, <1>3 DEF c

\* The room in the bank after a tick that was not its last.
LEMMA RoomAfterTick ==
    ASSUME NEW r, NEW p, NEW l, ChainInv(r, p, l, parent), r.working # NoBank,
           NEW R, NEW P, NEW L, ChainInv(R, P, L, parent), R.working = r.working,
           R.tick_height = r.tick_height + 1, P.remaining = hashes_per_tick
    PROVE  Room(R, P) = Ahead(r) * (hashes_per_tick - 1)
<1> DEFINE g == hashes_per_tick - 1
<1>1. Ahead(r) \in Nat /\ Ahead(R) \in Nat /\ hashes_per_tick \in Nat /\ g \in Nat
  BY AheadFacts, PohAssumption, SMTT(30)
<1>2. Ahead(R) = Ahead(r) - 1
  <2>1. max_tick_height(r.working) \in Nat /\ r.tick_height \in Nat
    BY SlotTypes, Heights DEF ChainInv, Recorder
  <2> QED
    BY <2>1, SMTT(30) DEF Ahead
<1>3. Room(R, P) = hashes_per_tick - 1 + Ahead(R) * g
  BY DEF Room
<1>4. (Ahead(r) - 1) * g = Ahead(r) * g - g /\ Ahead(r) * g \in Nat
  BY <1>1, SMTT(30)
<1> HIDE DEF g
<1> QED
  BY <1>1, <1>2, <1>3, <1>4, SMTT(30) DEF g

\* The end of a round: the bank's last tick finds the channel closed and empty.
LEMMA RoundStep == ASSUME IInv, Round PROVE IInv'
<1>1. /\ speedrun' = (/\ rec.working # NoBank
                      /\ rec.tick_height < max_tick_height(rec.working)
                      /\ block_received)
      /\ ppc' \in {"handle", "work"}
      /\ ppc' = "handle" => next_record = NoRecord /\ (~taken \/ queue = <<>>)
      /\ ppc \in {"pace", "tick"}
      /\ UNCHANGED <<open, queue, next_record, left, block_received, message, taken, parent, frozen>>
  BY DEF Round, Pace, is_safe_to_restart, channel, service, replay
<1>2. ChainInv(rec, poh, ledger, parent) /\ ParentInv(parent)
  BY DEF IInv
<1>3. /\ ChainInv(rec', poh', ledger', parent)
      /\ rec.working = NoBank => /\ rec'.working = NoBank /\ rec'.start = rec.start
                                 /\ rec'.leading = rec.leading /\ ledger' = ledger
                                 /\ rec'.tick_height \in Nat /\ rec.tick_height <= rec'.tick_height
      /\ rec.working # NoBank =>
            /\ rec'.working = rec.working \/ (rec'.working = NoBank /\ open = NoBank /\ queue = <<>>
                                              /\ next_record = NoRecord)
            /\ ledger'[rec.working].harmonic = ledger[rec.working].harmonic
      /\ rec.working # NoBank /\ rec'.working # NoBank /\ next_record = NoRecord =>
            Room(rec', poh') = Room(rec, poh)
  <2>1. CASE UNCHANGED <<poh, rec, ledger>>
    <3>1. rec' = rec /\ poh' = poh /\ ledger' = ledger
      BY <2>1
    <3>2. rec.tick_height \in Nat /\ rec.tick_height <= rec.tick_height
      BY Facts, SMTT(30)
    <3> QED
      BY <1>2, <3>1, <3>2
  <2>2. CASE ppc = "tick" /\ Tick(rec, poh, ledger)
    <3>1. poh.remaining = 1 /\ next_record = NoRecord
      BY <2>2 DEF IInv, PlaceInv
    <3>2. PICK leads \in BOOLEAN :
             /\ poh' = poh_tick(poh)
             /\ rec.leading => rec' = flush_cache(Cached(rec, poh), TRUE, leads)
                               /\ ledger' = Flushed(Cached(rec, poh), TRUE, ledger)
             /\ ~rec.leading => rec' = Cached(rec, poh) /\ ledger' = ledger
      BY <2>2 DEF Tick
    <3>3. /\ ChainInv(rec', poh', ledger', parent)
          /\ rec'.tick_height = rec.tick_height + 1
          /\ rec.working = NoBank => /\ rec'.working = NoBank /\ rec'.start = rec.start
                                     /\ rec'.leading = rec.leading /\ ledger' = ledger
          /\ rec.working # NoBank =>
                /\ rec'.working = IF rec.tick_height + 1 < max_tick_height(rec.working)
                                  THEN rec.working ELSE NoBank
                /\ ledger'[rec.working].harmonic = ledger[rec.working].harmonic
      <4>1. CASE rec.working = NoBank
        <5>1. rec' = Cached(rec, poh) /\ ledger' = ledger
          BY <1>2, <3>2, <4>1, NoBankNoFlush
        <5>2. /\ rec'.tick_height = rec.tick_height + 1 /\ rec'.working = NoBank
              /\ rec'.start = rec.start /\ rec'.leading = rec.leading
          BY <1>2, <4>1, <5>1, NoBankNoFlush
        <5> QED
          BY <1>2, <3>1, <3>2, <4>1, <5>1, <5>2, TickWithout
      <4>2. CASE rec.working # NoBank
        <5>1. rec.leading
          BY <1>2, <4>2 DEF ChainInv, HeightInv
        <5> DEFINE F == flush_cache(Cached(rec, poh), TRUE, leads)
                   G == Flushed(Cached(rec, poh), TRUE, ledger)
        <5>2. rec' = F /\ ledger' = G /\ poh' = poh_tick(poh)
          BY <3>2, <5>1
        <5>3. /\ ChainInv(F, poh_tick(poh), G, parent)
              /\ F.tick_height = rec.tick_height + 1
              /\ F.working = IF rec.tick_height + 1 < max_tick_height(rec.working)
                             THEN rec.working ELSE NoBank
              /\ G[rec.working].harmonic = ledger[rec.working].harmonic
          BY <1>2, <3>1, <4>2, TickWith
        <5> HIDE DEF F, G
        <5> QED
          BY <4>2, <5>2, <5>3
      <4> QED
        BY <4>1, <4>2
    <3>4. rec.tick_height \in Nat
      BY Facts
    <3>5. poh'.remaining = hashes_per_tick
      BY <3>2 DEF poh_tick
    <3>6. ASSUME rec.working # NoBank
          PROVE  /\ Room(rec, poh) = Ahead(rec) * (hashes_per_tick - 1)
                 /\ ~(rec.tick_height + 1 < max_tick_height(rec.working)) => Room(rec, poh) = 0
      <4> DEFINE x == Ahead(rec) * (hashes_per_tick - 1)
                 d == Ahead(rec)
      <4>1. /\ d \in Nat /\ x \in Nat
            /\ d = 0 => x = 0
            /\ d >= 1 <=> rec.tick_height + 1 < max_tick_height(rec.working)
            /\ Room(rec, poh) = poh.remaining - 1 + x
        BY <1>2, <3>6, AheadFacts
      <4> HIDE DEF x, d
      <4>2. /\ Room(rec, poh) = x
            /\ ~(rec.tick_height + 1 < max_tick_height(rec.working)) => Room(rec, poh) = 0
        BY <3>1, <3>4, <4>1, SMTT(30)
      <4> QED
        BY <4>2 DEF x
    <3>7. ASSUME rec.working # NoBank, ~(rec.tick_height + 1 < max_tick_height(rec.working))
          PROVE  open = NoBank /\ queue = <<>>
      <4>1. ~(hashes_per_batch + 1 <= total_remaining_hashes)
        BY <3>6, <3>7, RoomNow, PohAssumption, SMTT(30)
      <4> QED
        BY <3>1, <3>7, <4>1 DEF IInv, RoomInv
    <3>8. rec.working # NoBank /\ rec'.working # NoBank => Room(rec', poh') = Room(rec, poh)
      <4> SUFFICES ASSUME rec.working # NoBank, rec'.working # NoBank
                   PROVE  Room(rec', poh') = Room(rec, poh)
        OBVIOUS
      <4>1. rec'.working = rec.working
        BY <3>3
      <4> QED
        BY <1>2, <3>3, <3>5, <3>6, <4>1, RoomAfterTick
    <3>9. rec'.tick_height \in Nat /\ rec.tick_height <= rec'.tick_height
      <4>1. rec'.tick_height = rec.tick_height + 1
        BY <3>3
      <4> QED
        BY <3>4, <4>1, SMTT(30)
    <3> QED
      BY <3>1, <3>3, <3>7, <3>8, <3>9
  <2> QED
    BY <2>1, <2>2 DEF Round
<1>4. ChainInv(rec, poh, ledger, parent)' /\ ParentInv(parent)'
  BY <1>1, <1>2, <1>3
<1>5. Types'
  BY <1>1 DEF IInv, Types
<1>6. PlaceInv'
  BY <1>1 DEF IInv, PlaceInv
<1>7. MessageInv'
  <2> SUFFICES ASSUME Unset
               PROVE  /\ rec'.working = NoBank /\ rec'.leading
                      /\ parent[message.slot] = rec'.start
                      /\ message.slot * ticks_per_slot <= rec'.tick_height
                      /\ ledger'[message.slot] = NewLedger
    BY <1>1 DEF MessageInv, Unset
  <2>1. /\ rec.working = NoBank /\ rec.leading
        /\ parent[message.slot] = rec.start
        /\ message.slot * ticks_per_slot <= rec.tick_height
        /\ ledger[message.slot] = NewLedger
    BY DEF IInv, MessageInv
  <2>2. message.slot * ticks_per_slot \in Int /\ rec.tick_height \in Nat
    BY Facts, SlotTypes, PohAssumption, SMTT(30) DEF Unset
  <2>3. /\ rec'.working = NoBank /\ rec'.start = rec.start /\ rec'.leading = rec.leading
        /\ ledger' = ledger /\ rec'.tick_height \in Nat /\ rec.tick_height <= rec'.tick_height
    BY <1>3, <2>1
  <2> QED
    BY <2>1, <2>2, <2>3, SMTT(30)
<1>8. ChannelInv' /\ DrainedInv'
  BY <1>1, <1>3 DEF IInv, ChannelInv, DrainedInv
<1>9. RecordWhole'
  BY <1>1 DEF RecordWhole
<1>10. rec'.working # NoBank => rec'.working = rec.working
  BY <1>3
<1>11. ASSUME block_received, rec.working # NoBank PROVE ledger'[rec.working].harmonic
  BY <1>1, <1>3, <1>11 DEF IInv, ReceivedInv
<1>12. SpeedrunHasBlock'
  BY <1>1, <1>10, <1>11 DEF SpeedrunHasBlock
<1>13. ReceivedInv'
  <2>1. taken /\ message.type = "SetBank" => ~speedrun'
    BY <1>1 DEF IInv, MessageInv, Unset
  <2> QED
    BY <1>1, <1>10, <1>11, <2>1 DEF ReceivedInv
<1>14. RoomInv'
  <2> SUFFICES ASSUME rec'.working # NoBank, next_record = NoRecord,
                      open # NoBank \/ queue # <<>>
               PROVE  hashes_per_batch + 1 <= Room(rec', poh')
    BY <1>1, <1>3, RoomNext DEF RoomInv
  <2>1. rec.working # NoBank
    BY <1>3
  <2> QED
    BY <1>3, <2>1, RoomNow DEF IInv, RoomInv
<1> QED
  BY <1>4, <1>5, <1>6, <1>7, <1>8, <1>9, <1>12, <1>13, <1>14 DEF IInv

\* A reset leaves no bank and finds the channel closed and empty.
LEMMA ResetStep == ASSUME IInv, HandleReset PROVE IInv'
<1>1. PICK leads \in BOOLEAN :
         rec' = [tick_height |-> max_tick_height(message.slot), tick_cache |-> <<>>,
                 working |-> NoBank, start |-> message.slot, leading |-> leads]
  BY DEF HandleReset
<1>2. /\ ppc = "handle" /\ taken /\ message.type = "Reset" /\ ppc' = "release" /\ poh' = NewPoh
      /\ UNCHANGED <<ledger, open, queue, next_record, left, block_received, speedrun,
                     message, taken, parent, frozen>>
  BY DEF HandleReset, channel, pacing, service, replay
<1>3. message.slot \in Slots /\ message # NoMessage
  BY <1>2, Facts DEF NoMessage
<1>4. open = NoBank /\ queue = <<>> /\ next_record = NoRecord
  BY <1>2 DEF IInv, PlaceInv
<1>5. ChainInv(rec', poh', ledger, parent)
  <2>1. max_tick_height(message.slot) \in Nat /\ max_tick_height(message.slot) % ticks_per_slot = 0
    BY <1>3, SlotTypes, Heights, FirstTickNumber
  <2>2. poh' = [num_hashes |-> 0, remaining |-> hashes_per_tick, tick_number |-> 0]
    BY <1>2 DEF NewPoh
  <2>3. poh' \in Chain
    BY <2>2, PohAssumption, SMTT(30) DEF Chain
  <2>4. rec' \in Recorder
    BY <1>1, <1>3, <2>1, SMTT(30) DEF Recorder
  <2>5. HeightInv(rec', parent)
    BY <1>1, <2>1, SMTT(30) DEF HeightInv
  <2>6. CacheInv(rec')
    BY <1>1, <2>1, SMTT(30) DEF CacheInv
  <2>7. HashInv(rec', poh', ledger)
    BY <1>1, <2>2, PohAssumption, SMTT(30) DEF HashInv, Spent
  <2>8. LedgerInv(rec', ledger, parent)
    BY <1>1, SlotTypes DEF IInv, ChainInv, LedgerInv
  <2>9. rec'.tick_height % ticks_per_slot = poh'.tick_number
    BY <1>1, <2>1, <2>2
  <2> QED
    BY <2>3, <2>4, <2>5, <2>6, <2>7, <2>8, <2>9, Facts DEF ChainInv
<1>6. ChainInv(rec, poh, ledger, parent)' /\ ParentInv(parent)'
  BY <1>2, <1>5 DEF IInv
<1>7. Types' /\ PlaceInv'
  BY <1>2, <1>3, <1>4 DEF IInv, Types, PlaceInv
<1>8. MessageInv' /\ RecordWhole'
  BY <1>2 DEF MessageInv, Unset, RecordWhole
<1>9. ChannelInv' /\ DrainedInv' /\ ReceivedInv' /\ SpeedrunHasBlock' /\ RoomInv'
  BY <1>1, <1>2, <1>4 DEF ChannelInv, DrainedInv, ReceivedInv, SpeedrunHasBlock, RoomInv
<1> QED
  BY <1>6, <1>7, <1>8, <1>9 DEF IInv

\* A bank is set when none is working, with the channel closed and empty; the
\* channel is restarted if a whole tick is left.
LEMMA SetBankStep == ASSUME IInv, HandleSetBank PROVE IInv'
<1> DEFINE b == message.slot
           set == [rec EXCEPT !.working = b]
<1>1. /\ ppc = "handle" /\ taken /\ message.type = "SetBank" /\ poh' = poh
      /\ UNCHANGED <<queue, next_record, left, speedrun, message, taken, parent, frozen>>
  BY DEF HandleSetBank, service, replay
<1>2. /\ rec.working = NoBank /\ rec.leading /\ b \in Slots /\ message # NoMessage
      /\ parent[b] = rec.start /\ b * ticks_per_slot <= rec.tick_height
      /\ ledger[b] = NewLedger
  BY <1>1, Facts DEF IInv, MessageInv, Unset
<1>3. open = NoBank /\ queue = <<>> /\ next_record = NoRecord /\ ~speedrun
  BY <1>1 DEF IInv, PlaceInv, ReceivedInv
<1>4. PICK leads \in BOOLEAN :
         /\ rec' = flush_cache(set, FALSE, leads)
         /\ ledger' = Flushed(set, FALSE, ledger)
         /\ open' = IF rec.tick_height < max_tick_height(b) - 1 THEN b ELSE open
         /\ block_received' = FALSE
         /\ ppc' = "release"
  BY <1>2 DEF HandleSetBank
<1>5. ChainInv(rec, poh, ledger, parent) /\ ParentInv(parent)
  BY DEF IInv
<1>6. /\ ChainInv(rec', poh, ledger', parent)
      /\ rec'.tick_height = rec.tick_height
      /\ rec'.working = IF rec.tick_height < max_tick_height(b) THEN b ELSE NoBank
  <2> DEFINE F == flush_cache(set, FALSE, leads)
             G == Flushed(set, FALSE, ledger)
  <2>1. /\ ChainInv(F, poh, G, parent)
        /\ F.tick_height = rec.tick_height
        /\ F.working = IF rec.tick_height < max_tick_height(b) THEN b ELSE NoBank
    <3> HIDE DEF b
    <3> QED
      BY <1>2, <1>5, SetChain
  <2>2. rec' = F /\ ledger' = G
    BY <1>4
  <2> HIDE DEF F, G
  <2> QED
    BY <2>1, <2>2
<1> HIDE DEF b, set
<1>7. /\ max_tick_height(b) \in Nat /\ rec.tick_height \in Nat
  BY <1>2, Facts, SlotTypes, Heights
<1>8. open' # NoBank => /\ open' = b /\ rec'.working = b
                        /\ rec'.tick_height + 1 < max_tick_height(rec'.working)
  <2> SUFFICES ASSUME open' # NoBank
               PROVE  /\ open' = b /\ rec'.working = b
                      /\ rec'.tick_height + 1 < max_tick_height(rec'.working)
    OBVIOUS
  <2>1. rec.tick_height < max_tick_height(b) - 1 /\ open' = b
    BY <1>3, <1>4
  <2>2. rec.tick_height < max_tick_height(b) /\ rec.tick_height + 1 < max_tick_height(b)
    BY <1>7, <2>1, SMTT(30)
  <2> QED
    BY <1>6, <2>1, <2>2
<1>9. ChainInv(rec, poh, ledger, parent)' /\ ParentInv(parent)'
  BY <1>1, <1>5, <1>6
<1>10. Types'
  <2>1. open' \in Slots \cup {NoBank} /\ block_received' \in BOOLEAN
    BY <1>2, <1>3, <1>4
  <2> QED
    BY <1>1, <2>1 DEF IInv, Types
<1>11. PlaceInv'
  BY <1>1, <1>2, <1>3, <1>4 DEF PlaceInv
<1>12. MessageInv' /\ RecordWhole' /\ ReceivedInv' /\ SpeedrunHasBlock'
  BY <1>1, <1>3, <1>4 DEF MessageInv, Unset, RecordWhole, ReceivedInv, SpeedrunHasBlock
<1>13. ChannelInv' /\ DrainedInv'
  BY <1>1, <1>3, <1>8, SMTT(30) DEF ChannelInv, DrainedInv
<1>14. RoomInv'
  <2> SUFFICES ASSUME rec'.working # NoBank, open' # NoBank
               PROVE  hashes_per_batch + 1 <= Room(rec', poh')
    BY <1>1, <1>3, <1>6, RoomNext DEF RoomInv
  <2> QED
    BY <1>1, <1>6, <1>8, OpenLeavesRoom
<1> QED
  BY <1>9, <1>10, <1>11, <1>12, <1>13, <1>14 DEF IInv

\* Mixing batches into the working bank keeps chain and ledgers in order.
LEMMA MixedChain ==
    ASSUME IInv, rec.working = next_record.bank, rec.working # NoBank,
           next_record \in HeldRecord, NEW k \in 1 .. poh.remaining - 1
    PROVE  /\ ChainInv(rec, record_batches(poh, k), Mixed(ledger, k), parent)
           /\ record_batches(poh, k).remaining = poh.remaining - k
           /\ Mixed(ledger, k)[rec.working].harmonic =
                 (ledger[rec.working].harmonic \/ next_record.harmonic)
<1> DEFINE b == rec.working
           p == record_batches(poh, k)
           m == [ledger[b] EXCEPT !.partial = @ + poh.num_hashes + k,
                                  !.harmonic = @ \/ next_record.harmonic]
           L == Mixed(ledger, k)
<1>1. /\ b \in Slots /\ poh \in Chain /\ ledger \in [Slots -> LedgerType]
      /\ ledger[b] \in LedgerType /\ next_record.harmonic \in BOOLEAN
      /\ poh.remaining \in 1 .. hashes_per_tick /\ poh.num_hashes \in Nat
      /\ hashes_per_tick \in Nat /\ k \in Nat /\ k >= 1 /\ k <= poh.remaining - 1
  <2>1. b \in Slots /\ poh \in Chain /\ ledger \in [Slots -> LedgerType]
    BY Facts
  <2>2. /\ next_record.harmonic \in BOOLEAN
        /\ poh.remaining \in 1 .. hashes_per_tick /\ poh.num_hashes \in Nat
        /\ hashes_per_tick \in Nat
    BY <2>1, PohAssumption DEF Chain, HeldRecord
  <2> QED
    BY <2>1, <2>2, SMTT(30)
<1>2. p = [num_hashes |-> 0, remaining |-> poh.remaining - k, tick_number |-> poh.tick_number]
  <2>1. p = [poh EXCEPT !.num_hashes = 0, !.remaining = @ - k]
    BY DEF record_batches
  <2> HIDE DEF p
  <2> QED
    BY <1>1, <2>1 DEF Chain
<1>3. p \in Chain
  BY <1>1, <1>2, SMTT(30) DEF Chain
<1>4. /\ m = [ticks |-> ledger[b].ticks, hashes |-> ledger[b].hashes,
              partial |-> ledger[b].partial + poh.num_hashes + k,
              harmonic |-> ledger[b].harmonic \/ next_record.harmonic]
  <2> DEFINE q == ledger[b]
             n == q.partial + poh.num_hashes + k
             h == q.harmonic \/ next_record.harmonic
  <2>1. m = [q EXCEPT !.partial = n, !.harmonic = h]
    OBVIOUS
  <2>2. q \in LedgerType
    BY <1>1
  <2> HIDE DEF m, n, h, q
  <2>3. m = [ticks |-> q.ticks, hashes |-> q.hashes, partial |-> n, harmonic |-> h]
    BY <2>1, <2>2 DEF LedgerType
  <2> QED
    BY <2>3 DEF n, h, q
<1>5. L = [ledger EXCEPT ![b] = m]
  <2>1. L = [ledger EXCEPT ![b].partial = @ + poh.num_hashes + k,
                           ![b].harmonic = @ \/ next_record.harmonic]
    BY DEF Mixed
  <2> QED
    BY <1>1, <2>1 DEF LedgerType
<1> HIDE DEF p, m, L
<1>6. m \in LedgerType
  BY <1>1, <1>4, SMTT(30) DEF LedgerType
<1>7. L \in [Slots -> LedgerType] /\ L[b] = m /\ \A s \in Slots : s # b => L[s] = ledger[s]
  BY <1>1, <1>5, <1>6
<1>8. ChainInv(rec, poh, ledger, parent)
  BY DEF IInv
<1>9. HashInv(rec, p, L)
  <2>1. ledger[b].partial + poh.num_hashes + poh.remaining = hashes_per_tick
    BY <1>8 DEF ChainInv, HashInv, Spent
  <2>2. ledger[b].partial \in Int
    BY <1>1 DEF LedgerType
  <2>3. ledger[b].partial + poh.num_hashes + k + 0 + (poh.remaining - k) = hashes_per_tick
    BY <1>1, <2>1, <2>2, SMTT(30)
  <2>4. L[b].partial = ledger[b].partial + poh.num_hashes + k
    <3>1. m.partial = ledger[b].partial + poh.num_hashes + k
      BY <1>4
    <3> QED
      BY <1>7, <3>1
  <2>5. p.num_hashes = 0 /\ p.remaining = poh.remaining - k
    BY <1>2
  <2>6. Spent(rec, L) = L[b].partial
    BY DEF Spent
  <2> QED
    BY <2>3, <2>4, <2>5, <2>6 DEF HashInv
<1>10. LedgerInv(rec, L, parent)
  <2> SUFFICES ASSUME NEW s \in Slots
               PROVE  IF parent[s] \in Slots
                      THEN /\ Valid(L[s], max_tick_height(parent[s]))
                           /\ Len(L[s].ticks) <= max_tick_height(s) - max_tick_height(parent[s])
                           /\ s = rec.working =>
                                 Len(L[s].ticks) = rec.tick_height - max_tick_height(parent[s])
                      ELSE L[s] = NewLedger
    BY DEF LedgerInv
  <2>1. LedgerInv(rec, ledger, parent) /\ parent[b] \in Slots
    BY <1>8 DEF ChainInv, HeightInv
  <2>2. CASE s = b
    <3>1. L[s].ticks = ledger[s].ticks /\ L[s].hashes = ledger[s].hashes
      BY <1>4, <1>7, <2>2, SMTT(30)
    <3>2. /\ parent[s] \in Slots /\ Valid(ledger[s], max_tick_height(parent[s]))
          /\ Len(ledger[s].ticks) <= max_tick_height(s) - max_tick_height(parent[s])
          /\ s = rec.working =>
                Len(ledger[s].ticks) = rec.tick_height - max_tick_height(parent[s])
      BY <2>1, <2>2 DEF LedgerInv
    <3> QED
      BY <3>1, <3>2 DEF Valid
  <2>3. CASE s # b
    BY <1>7, <2>1, <2>3 DEF LedgerInv
  <2> QED
    BY <2>2, <2>3
<1>11. ChainInv(rec, p, L, parent)
  BY <1>2, <1>3, <1>7, <1>8, <1>9, <1>10 DEF ChainInv
<1>12. p.remaining = poh.remaining - k
  BY <1>2
<1>13. L[b].harmonic = (ledger[b].harmonic \/ next_record.harmonic)
  <2>1. m.harmonic = (ledger[b].harmonic \/ next_record.harmonic)
    BY <1>4
  <2> QED
    BY <1>7, <2>1
<1> QED
  BY <1>11, <1>12, <1>13 DEF p, L

\* A round of the loop of record(): if batches are left, the tick it makes is
\* not the bank's last.
LEMMA MixStep == ASSUME IInv, Mix PROVE IInv'
<1> DEFINE b == rec.working
           k == IF poh.remaining - 1 < left THEN poh.remaining - 1 ELSE left
           p == IF k = 0 THEN poh ELSE record_batches(poh, k)
           l == Mixed(ledger, k)
           lt == IF k = 0 THEN ledger ELSE l
<1>1. /\ ppc = "mixing" /\ left' = left - k
      /\ UNCHANGED <<block_received, speedrun, message, taken, parent, frozen>>
  BY DEF Mix, pacing, service, replay
<1>2. /\ b = next_record.bank /\ left <= total_remaining_hashes
      /\ next_record # NoRecord /\ next_record \in HeldRecord /\ left \in 1 .. next_record.batches
      /\ b \in Slots /\ b # NoBank
  <2>1. next_record # NoRecord /\ next_record \in HeldRecord
    BY <1>1, Facts DEF IInv, PlaceInv
  <2>2. next_record.bank \in Slots
    BY <2>1 DEF HeldRecord
  <2> QED
    BY <1>1, <2>1, <2>2, SlotTypes DEF IInv, RecordWhole, PlaceInv
<1>3. ChainInv(rec, poh, ledger, parent) /\ ParentInv(parent)
  BY DEF IInv
<1>4. flush_cache(rec, FALSE, FALSE) = rec /\ Flushed(rec, FALSE, ledger) = ledger
      /\ ~FlushRefused(rec, FALSE)
  <2>1. /\ rec.tick_cache = <<>> /\ parent[b] \in Slots /\ b * ticks_per_slot <= rec.tick_height
        /\ rec.tick_height < max_tick_height(b)
    BY <1>2, <1>3 DEF ChainInv, HeightInv
  <2>2. /\ min_tick_height(b) \in Nat /\ b * ticks_per_slot \in Nat
        /\ min_tick_height(b) <= b * ticks_per_slot
    BY <1>2, <1>3, <2>1, BankBegins
  <2>3. ~FlushRefused(rec, FALSE)
    BY <1>2, <2>1, <2>2, Facts, SMTT(30) DEF FlushRefused
  <2> QED
    BY <1>2, <2>1, <2>3, Facts, FlushNothing
<1>5. \/ /\ k = left
         /\ poh' = p /\ rec' = rec /\ ledger' = l
         /\ open' = IF should_shutdown(remaining_hashes_in_slot(p)) THEN NoBank ELSE open
         /\ TryRecv("record", "pace")
      \/ /\ k # left
         /\ Tick(rec, p, lt)
         /\ UNCHANGED <<open, queue, ppc, next_record>>
  BY <1>1, <1>2, <1>4 DEF Mix, ShutdownIf, channel
<1>6. /\ poh.remaining \in 1 .. hashes_per_tick /\ hashes_per_tick \in Nat
      /\ left \in Nat /\ left >= 1 /\ k \in Nat /\ k <= poh.remaining - 1 /\ k <= left
      /\ k # left => k = poh.remaining - 1
      /\ next_record.batches \in Nat
  <2>1. /\ poh.remaining \in 1 .. hashes_per_tick /\ hashes_per_tick \in Nat
        /\ next_record.batches \in 1 .. CAPACITY /\ CAPACITY \in Nat
    BY <1>2, Facts, PohAssumption DEF Chain, HeldRecord
  <2>2. left \in Nat /\ left >= 1
    <3>1. left \in 1 .. next_record.batches /\ next_record.batches \in Nat
      BY <1>2, <2>1, SMTT(30)
    <3> QED
      BY <3>1, SMTT(30)
  <2> QED
    BY <2>1, <2>2, SMTT(30)
<1> HIDE DEF k
<1>7. /\ ChainInv(rec, p, lt, parent) /\ p.remaining = poh.remaining - k
      /\ lt[b].harmonic = (ledger[b].harmonic \/ (k # 0 /\ next_record.harmonic))
  <2>1. CASE k = 0
    <3>1. ledger[b].harmonic \in BOOLEAN
      BY <1>2, Facts DEF LedgerType
    <3> QED
      <4>1. p = poh /\ lt = ledger
        BY <2>1
      <4>2. poh.remaining = poh.remaining - k
        BY <1>6, <2>1, SMTT(30)
      <4> QED
        BY <1>3, <2>1, <3>1, <4>1, <4>2
  <2>2. CASE k # 0
    <3>1. k \in 1 .. poh.remaining - 1
      BY <1>6, <2>2, SMTT(30)
    <3> QED
      BY <1>2, <2>2, <3>1, MixedChain
  <2> QED
    BY <2>1, <2>2
<1>8. Room(rec, poh) = total_remaining_hashes
  BY <1>2, RoomNow
<1>9. ~Unset
  BY <1>2 DEF IInv, MessageInv
<1>10. CASE k = left
  <2>1. /\ poh' = p /\ rec' = rec /\ ledger' = lt
        /\ open' = IF should_shutdown(remaining_hashes_in_slot(p)) THEN NoBank ELSE open
        /\ TryRecv("record", "pace") /\ k # 0
    BY <1>5, <1>6, <1>10, SMTT(30)
  <2> HIDE DEF p, l, lt
  <2>2. ChainInv(rec, poh, ledger, parent)' /\ ParentInv(parent)'
    BY <1>1, <1>3, <1>7, <2>1
  <2>3. /\ queue' \in Seq(HeldRecord) /\ next_record' \in HeldRecord \cup {NoRecord}
        /\ next_record' = NoRecord => queue' = <<>>
        /\ (ppc' = "record" /\ next_record' # NoRecord) \/ ppc' = "pace"
        /\ \A i \in DOMAIN queue' : queue'[i].bank = rec.working
        /\ next_record' # NoRecord => next_record'.bank = rec.working
    BY <1>2, <2>1, RecvFacts
  <2>4. Types'
    <3>1. left' \in Nat /\ open' \in Slots \cup {NoBank}
      BY <1>1, <1>6, <1>10, <2>1, Facts, SMTT(30)
    <3> QED
      BY <1>1, <2>3, <3>1 DEF IInv, Types
  <2>5. PlaceInv'
    BY <1>1, <2>1, <2>3 DEF IInv, PlaceInv
  <2>6. MessageInv' /\ RecordWhole'
    BY <1>1, <1>9, <2>3 DEF MessageInv, Unset, RecordWhole
  <2>7. ChannelInv' /\ DrainedInv'
    BY <1>2, <2>1, <2>3 DEF IInv, ChannelInv, DrainedInv
  <2>8. ReceivedInv'
    BY <1>1, <1>7, <2>1, <2>3 DEF IInv, ReceivedInv
  <2>9. SpeedrunHasBlock'
    BY <1>1, <1>2, <1>7, <2>1 DEF IInv, SpeedrunHasBlock
  <2>10. RoomInv'
    <3> SUFFICES ASSUME next_record' = NoRecord, open' # NoBank
                 PROVE  hashes_per_batch + 1 <= Room(rec, p)
      BY <1>2, <1>7, <2>1, <2>2, <2>3, RoomNext DEF RoomInv
    <3> QED
      BY <1>2, <1>7, <2>1, OpenLeavesRoom
  <2> QED
    BY <2>2, <2>4, <2>5, <2>6, <2>7, <2>8, <2>9, <2>10 DEF IInv
<1>11. CASE k # left
  <2>1. p.remaining = 1 /\ k = poh.remaining - 1
    BY <1>6, <1>7, <1>11, SMTT(30)
  <2>2. PICK leads \in BOOLEAN :
           /\ poh' = poh_tick(p)
           /\ rec' = flush_cache(Cached(rec, p), TRUE, leads)
           /\ ledger' = Flushed(Cached(rec, p), TRUE, lt)
    <3>1. rec.leading
      BY <1>2, <1>3 DEF ChainInv, HeightInv
    <3> QED
      BY <1>5, <1>11, <3>1 DEF Tick
  <2>3. UNCHANGED <<open, queue, ppc, next_record>>
    BY <1>5, <1>11
  <2> HIDE DEF p, l, lt
  <2> DEFINE F == flush_cache(Cached(rec, p), TRUE, leads)
             G == Flushed(Cached(rec, p), TRUE, lt)
             x == Ahead(rec) * (hashes_per_tick - 1)
  <2>4. /\ ChainInv(F, poh_tick(p), G, parent)
        /\ F.tick_height = rec.tick_height + 1
        /\ F.working = IF rec.tick_height + 1 < max_tick_height(rec.working)
                       THEN rec.working ELSE NoBank
        /\ G[rec.working].harmonic = lt[rec.working].harmonic
    BY <1>2, <1>3, <1>7, <2>1, TickWith
  <2>5. rec' = F /\ ledger' = G
    BY <2>2
  <2> HIDE DEF F, G
  <2>6. left - k <= x /\ rec.tick_height + 1 < max_tick_height(rec.working) /\ x \in Nat
    <3> DEFINE d == Ahead(rec)
    <3>1. /\ d \in Nat /\ x \in Nat
          /\ d = 0 => x = 0
          /\ d >= 1 <=> rec.tick_height + 1 < max_tick_height(rec.working)
          /\ Room(rec, poh) = poh.remaining - 1 + x
      BY <1>2, <1>3, AheadFacts
    <3> HIDE DEF d, x
    <3>2. left <= poh.remaining - 1 + x
      BY <1>2, <1>8, <3>1
    <3>3. left - k <= x /\ left - k >= 1
      BY <1>6, <1>11, <2>1, <3>1, <3>2, SMTT(30)
    <3>4. d # 0
      BY <1>6, <3>1, <3>3, SMTT(30)
    <3> QED
      BY <3>1, <3>3, <3>4, SMTT(30)
  <2>7. rec'.working = b /\ rec'.tick_height = rec.tick_height + 1
    BY <2>4, <2>5, <2>6
  <2>8. ChainInv(rec', poh', ledger', parent)
    BY <2>2, <2>4, <2>5
  <2>9. total_remaining_hashes' = x
    <3>1. poh'.remaining = hashes_per_tick
      BY <2>2 DEF poh_tick
    <3>2. Room(rec', poh') = x
      BY <1>2, <1>3, <2>7, <2>8, <3>1, RoomAfterTick
    <3> QED
      BY <1>2, <2>7, <2>8, <3>2, RoomNext
  <2>10. ChainInv(rec, poh, ledger, parent)' /\ ParentInv(parent)'
    BY <1>1, <1>3, <2>8
  <2>11. left' \in Nat /\ left' \in 1 .. next_record.batches
    <3>1. left - k \in Nat /\ left - k >= 1 /\ left - k <= left
      BY <1>6, <1>11, SMTT(30)
    <3>2. left <= next_record.batches
      BY <1>2, <1>6, SMTT(30)
    <3> QED
      BY <1>1, <1>6, <3>1, <3>2, SMTT(30)
  <2> HIDE DEF x
  <2>12. Types' /\ PlaceInv'
    BY <1>1, <2>3, <2>11 DEF IInv, Types, PlaceInv
  <2>13. MessageInv'
    BY <1>1, <1>9, <2>3 DEF MessageInv, Unset
  <2>14. ChannelInv' /\ DrainedInv'
    BY <1>2, <2>3, <2>7 DEF IInv, ChannelInv, DrainedInv
  <2>15. RecordWhole'
    BY <1>1, <1>2, <2>3, <2>6, <2>7, <2>9 DEF RecordWhole
  <2>16. ledger'[b].harmonic = (ledger[b].harmonic \/ (k # 0 /\ next_record.harmonic))
    BY <1>7, <2>4, <2>5
  <2>17. ReceivedInv'
    BY <1>1, <2>3, <2>7, <2>16 DEF IInv, ReceivedInv
  <2>18. SpeedrunHasBlock'
    BY <1>1, <1>2, <2>7, <2>16 DEF IInv, SpeedrunHasBlock
  <2>19. RoomInv'
    BY <1>2, <2>3 DEF RoomInv
  <2> QED
    BY <2>10, <2>12, <2>13, <2>14, <2>15, <2>17, <2>18, <2>19 DEF IInv
<1> QED
  BY <1>10, <1>11

-----------------------------------------------------------------------------
(* The theorems *)

\* The validator starts from slot 0, without a bank.
LEMMA InitHolds == ASSUME Init PROVE IInv
<1> DEFINE t == max_tick_height(0)
<1>1. PICK leads \in BOOLEAN : rec = [NewRecorder EXCEPT !.leading = leads]
  BY DEF Init
<1>2. /\ 0 \in Slots /\ hashes_per_tick \in Nat \ {0, 1} /\ ticks_per_slot \in Nat \ {0}
      /\ t = ticks_per_slot /\ t % ticks_per_slot = 0
  BY PohAssumption, FirstTickNumber, SMTT(30) DEF Slots, max_tick_height
<1>3. /\ rec.tick_height = ticks_per_slot /\ rec.tick_cache = <<>> /\ rec.working = NoBank
      /\ rec.start = 0 /\ rec.leading = leads /\ rec \in Recorder
  <2>1. rec = [tick_height |-> ticks_per_slot, tick_cache |-> <<>>, working |-> NoBank,
               start |-> 0, leading |-> leads]
    BY <1>1 DEF NewRecorder
  <2>2. <<>> \in Seq(CachedTick)
    BY SMTT(30)
  <2> QED
    BY <1>2, <2>1, <2>2 DEF Recorder
<1>4. /\ poh \in Chain /\ poh.num_hashes = 0 /\ poh.remaining = hashes_per_tick
      /\ poh.tick_number = 0
  BY <1>2, SMTT(30) DEF Init, NewPoh, Chain
<1>5. \A s \in Slots : ledger[s] = NewLedger /\ parent[s] \notin Slots
  BY SlotTypes DEF Init
<1>6. ledger \in [Slots -> LedgerType]
  BY <1>5, SMTT(30) DEF Init, NewLedger, LedgerType
<1>7. ParentInv(parent)
  BY <1>5 DEF Init, ParentInv, Parents
<1>8. ChainInv(rec, poh, ledger, parent)
  <2>1. HeightInv(rec, parent) /\ CacheInv(rec)
    BY <1>2, <1>3, SMTT(30) DEF HeightInv, CacheInv
  <2>2. HashInv(rec, poh, ledger)
    BY <1>2, <1>3, <1>4, SMTT(30) DEF HashInv, Spent
  <2>3. LedgerInv(rec, ledger, parent)
    BY <1>5 DEF LedgerInv
  <2> QED
    BY <1>2, <1>3, <1>4, <1>6, <2>1, <2>2, <2>3 DEF ChainInv
<1>9. Types
  <2>1. <<>> \in Seq(HeldRecord)
    BY SMTT(30)
  <2> QED
    BY <1>2, <2>1 DEF Init, Types
<1>10. PlaceInv /\ MessageInv
  BY DEF Init, PlaceInv, MessageInv, Unset, NoMessage
<1>11. ChannelInv /\ ReceivedInv /\ RoomInv /\ SpeedrunHasBlock
  BY <1>3 DEF Init, ChannelInv, ReceivedInv, RoomInv, SpeedrunHasBlock
<1>12. RecordWhole /\ DrainedInv
  BY DEF Init, RecordWhole, DrainedInv
<1> QED
  BY <1>7, <1>8, <1>9, <1>10, <1>11, <1>12 DEF IInv

\* The invariant holds for every number of hashes, ticks, slots and batches:
\* one case for every step of the PoH thread, the replay loop and the senders.
THEOREM Inductive == Spec => []IInv
<1>1. IInv /\ [Next]_vars => IInv'
  <2> SUFFICES ASSUME IInv, [Next]_vars PROVE IInv'
    OBVIOUS
  <2> USE DEF vars, channel, pacing, service, replay, PohVars
  <2>1. CASE PohThread
    BY <2>1, CheckStep, HashBatchStep, BusyWaitStep, RecordStep, MixStep, RoundStep,
       NoMessageStep, ResetStep, SetBankStep, DropGuardStep DEF PohThread
  <2>2. frozen \subseteq Slots
    BY DEF IInv, Types
  <2>3. CASE LoadLeaderState \/ LoadPending
    BY <2>2, <2>3, QuietStep DEF LoadLeaderState, LoadPending
  <2>4. CASE ReplayActiveBanks \/ MaybeReset \/ maybe_start_leader
    BY <2>4, ReplayBanksStep, MaybeResetStep, StartLeaderStep
  <2>5. CASE DoNotStart \/ Exit
    BY <2>2, <2>5, QuietStep DEF DoNotStart, Exit
  <2>6. CASE \E r \in Records : Send(r)
    BY <2>6, SendStep
  <2>7. CASE UNCHANGED vars
    BY <2>2, <2>7, QuietStep
  <2> QED
    BY <2>1, <2>3, <2>4, <2>5, <2>6, <2>7 DEF Next, ReplayLoop
<1> QED
  BY <1>1, InitHolds, PTL DEF Spec

\* What is broadcast for a bank is a valid block as far as it goes: its ticks
\* follow its parent's, none is past its last, and each closes hashes_per_tick
\* hashes, however set_bank, reset, tick and record interleave.
THEOREM BlocksAreValid == Spec => []LedgerValid
<1>1. IInv => LedgerValid
  <2> SUFFICES ASSUME IInv, NEW s \in Slots, parent[s] \in Slots
               PROVE  /\ Len(ledger[s].ticks) <= max_tick_height(s) - min_tick_height(s)
                      /\ \A i \in DOMAIN ledger[s].ticks :
                            /\ ledger[s].ticks[i] = min_tick_height(s) + i
                            /\ ledger[s].hashes[i] = hashes_per_tick
    BY DEF LedgerValid
  <2>1. min_tick_height(s) = max_tick_height(parent[s])
    BY BankBegins DEF IInv
  <2>2. /\ Valid(ledger[s], max_tick_height(parent[s]))
        /\ Len(ledger[s].ticks) <= max_tick_height(s) - max_tick_height(parent[s])
    BY DEF IInv, ChainInv, LedgerInv
  <2> QED
    BY <2>1, <2>2 DEF Valid
<1> QED
  BY <1>1, Inductive, PTL

\* The tick number the hash chain counts is the recorder's tick height within
\* the slot, so the channel is closed by the count record() goes by.
THEOREM ChainInStep == Spec => []PohInStep
<1>1. IInv => PohInStep
  BY DEF IInv, ChainInv, PohInStep
<1> QED
  BY <1>1, Inductive, PTL

\* Records are accepted and held for the working bank only, and none is working
\* when the PoH thread sets one: set_bank's assertion never fails.
THEOREM BankAndChannel == Spec => []BankHandover
<1>1. IInv => BankHandover
  <2> SUFFICES ASSUME IInv PROVE BankHandover
    OBVIOUS
  <2>1. open # NoBank => open = rec.working
    BY DEF IInv, ChannelInv, DrainedInv
  <2>2. \A i \in DOMAIN queue : queue[i].bank = rec.working
    BY SMTT(30) DEF IInv, ChannelInv, DrainedInv
  <2>3. next_record # NoRecord => next_record.bank = rec.working
    BY DEF IInv, ChannelInv, DrainedInv
  <2>4. ppc = "handle" /\ taken /\ message.type = "SetBank" => rec.working = NoBank
    BY DEF IInv, MessageInv, Unset
  <2> QED
    BY <2>1, <2>2, <2>3, <2>4 DEF BankHandover, Range
<1> QED
  BY <1>1, Inductive, PTL

\* Once record() has begun with a record, all that is left of it fits in the bank.
THEOREM RecordsAreWhole == Spec => []RecordWhole
<1>1. IInv => RecordWhole
  BY DEF IInv
<1> QED
  BY <1>1, Inductive, PTL

\* A slot is sped through only once the block engine's block is in its ledger.
THEOREM SpeedrunAfterBlock == Spec => []SpeedrunHasBlock
<1>1. IInv => SpeedrunHasBlock
  BY DEF IInv
<1> QED
  BY <1>1, Inductive, PTL
=============================================================================
