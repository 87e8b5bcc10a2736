------------------------- MODULE RuntimeArena_proofs ------------------------
(* The functions of the raw heap keep the arena well formed, whatever the   *)
(* alignment, the reserve, the base address and the arguments.              *)
EXTENDS RuntimeArena, SequenceTheorems, WellFoundedInduction, TLAPS

(* Rounding up neither shrinks nor misaligns. *)
LEMMA AlignUpRounds ==
    ASSUME NEW n \in Nat
    PROVE  /\ AlignUp(n) \in Nat
           /\ AlignUp(n) >= n
           /\ AlignUp(n) % Align = 0
<1> DEFINE q == (n + Align - 1) \div Align
           m == n + Align - 1
<1>1. Align \in Nat /\ Align > 0 /\ m \in Nat
  BY AlignAssumption
<1>2. q \in Nat /\ m = Align * q + (m % Align) /\ m % Align \in 0 .. Align - 1
  BY <1>1, SMT
<1> HIDE DEF q
<1>3. q * Align \in Nat /\ q * Align = Align * q
  BY <1>1, <1>2, SMT
<1>4. q * Align >= n
  BY <1>1, <1>2, <1>3 DEF m
<1>5. (q * Align) % Align = 0
  BY <1>1, <1>2, SMT
<1> QED
  BY <1>3, <1>4, <1>5 DEF AlignUp, q

(* The search either fails or names a record of that address. *)
LEMMA FindRecordSound ==
    ASSUME NEW h, NEW a, FindRecord(h, a) # NoRecord, h \in Arena
    PROVE  /\ FindRecord(h, a) \in DOMAIN h.recs
           /\ h.recs[FindRecord(h, a)].addr = a
<1>1. h.recs \in Seq(Rec)
  BY DEF Arena
<1> DEFINE lo == LowerBound(h, a)
<1>2. lo \in 0 .. Len(h.recs) - 1 /\ h.recs[lo + 1].addr = a
  BY DEF FindRecord
<1>3. FindRecord(h, a) = lo + 1
  BY <1>2 DEF FindRecord
<1> HIDE DEF lo
<1>4. lo + 1 \in 1 .. Len(h.recs)
  BY <1>1, <1>2
<1> QED
  BY <1>1, <1>2, <1>3, <1>4

(* The first use of the heap leaves it well formed. *)
LEMMA InitHeapWellFormed ==
    ASSUME NEW h, WellFormed(h)
    PROVE  /\ WellFormed(InitHeap(h))
           /\ InitHeap(h).recs = h.recs /\ InitHeap(h).free = h.free
           /\ InitHeap(h).next = h.next /\ InitHeap(h).byte = h.byte
<1> DEFINE g == InitHeap(h)
<1>1. /\ g.recs = h.recs /\ g.free = h.free /\ g.next = h.next /\ g.byte = h.byte
      /\ g.len \in Nat /\ g.len >= h.len /\ g.len <= Reserve /\ g \in Arena
  BY ReserveAssumption DEF WellFormed, InReserve, InitHeap, Arena
<1> HIDE DEF g
<1>2. SortedRecs(g) /\ TailAtNext(g) /\ FreeExact(g)
  BY <1>1 DEF WellFormed, SortedRecs, TailAtNext, FreeExact
<1>3. InReserve(g)
  BY <1>1, BaseAssumption DEF WellFormed, InReserve, ProperBlock, Arena
<1> QED
  BY <1>1, <1>2, <1>3 DEF WellFormed, g

(* A set of naturals that is not empty has a least element. *)
LEMMA LeastNatural ==
    ASSUME NEW T, T \subseteq Nat, T # {}
    PROVE  \E m \in T : \A k \in T : m <= k
<1> DEFINE R == {ss \in Nat \X Nat : ss[1] < ss[2]}
<1>1. IsWellFoundedOn(R, Nat)
  BY NatLessThanWellFounded DEF OpToRel
<1> HIDE DEF R
<1>2. PICK m \in T : \A k \in T : ~(<<k, m>> \in R)
  BY <1>1, WFMin, Zenon
<1>3. \A k \in T : ~(k < m)
  BY <1>2 DEF R
<1> QED
  BY <1>2, <1>3

(* When a freed block fits, the scan ends at a slot that fits. *)
LEMMA BestSlotFits ==
    ASSUME NEW h, WellFormed(h), NEW need, FittingSlots(h, need) # {}
    PROVE  BestSlot(h, need) \in FittingSlots(h, need)
<1> DEFINE F == FittingSlots(h, need)
           n == Len(h.free)
<1>1. /\ n \in Nat /\ F \subseteq 1 .. n
      /\ \A s \in F : SlotSize(h, s) \in Nat
  <2>1. h.recs \in Seq(Rec) /\ h.free \in Seq(Nat)
    BY DEF WellFormed, Arena
  <2>2. \A s \in DOMAIN h.free : h.recs[h.free[s]] \in Rec
    BY <2>1 DEF WellFormed, FreeExact
  <2> QED
    BY <2>1, <2>2 DEF FittingSlots, SlotSize, Rec
<1> HIDE DEF F, n
<1>2. PICK small \in F : \A s \in F : SlotSize(h, small) <= SlotSize(h, s)
  <2> DEFINE T == {SlotSize(h, s) : s \in F}
  <2>1. T \subseteq Nat /\ T # {}
    BY <1>1 DEF F
  <2>2. PICK m \in T : \A k \in T : m <= k
    BY <2>1, LeastNatural
  <2> QED
    BY <2>2
<1>3. PICK best \in F : /\ SlotSize(h, best) = SlotSize(h, small)
                        /\ \A s \in F : SlotSize(h, s) = SlotSize(h, small) => best >= s
  <2> DEFINE E == {s \in F : SlotSize(h, s) = SlotSize(h, small)}
             T == {n - s : s \in E}
  <2>1. T \subseteq Nat /\ T # {}
    BY <1>1
  <2> HIDE DEF T
  <2>2. PICK m \in T : \A k \in T : m <= k
    BY <2>1, LeastNatural
  <2>3. PICK best \in E : m = n - best
    BY <2>2 DEF T
  <2>4. \A s \in E : n - best <= n - s
    BY <2>2, <2>3 DEF T
  <2>5. \A s \in E : best >= s
    BY <2>4, <1>1
  <2> QED
    BY <2>3, <2>5
<1>4. \A t \in F : \/ SlotSize(h, best) < SlotSize(h, t)
                   \/ SlotSize(h, best) = SlotSize(h, t) /\ best >= t
  BY <1>1, <1>2, <1>3
<1> QED
  BY <1>4 DEF BestSlot, F

(* A well-formed arena has these types, which the steps below cite. *)
LEMMA ArenaTypes ==
    ASSUME NEW h, h \in Arena
    PROVE  /\ h.len \in Nat /\ h.next \in Nat
           /\ h.recs \in Seq(Rec) /\ h.free \in Seq(Nat)
           /\ h.byte \in [Offset -> Byte]
           /\ Len(h.recs) \in Nat /\ DOMAIN h.recs = 1 .. Len(h.recs)
           /\ Len(h.free) \in Nat /\ DOMAIN h.free = 1 .. Len(h.free)
           /\ \A r \in DOMAIN h.recs : /\ h.recs[r] \in Rec
                                       /\ h.recs[r].addr \in Nat
                                       /\ h.recs[r].size \in Nat
                                       /\ h.recs[r].live \in BOOLEAN
<1>1. /\ h.len \in Nat /\ h.next \in Nat
      /\ h.recs \in Seq(Rec) /\ h.free \in Seq(Nat)
      /\ h.byte \in [Offset -> Byte]
  BY DEF Arena
<1>2. /\ Len(h.recs) \in Nat /\ DOMAIN h.recs = 1 .. Len(h.recs)
      /\ Len(h.free) \in Nat /\ DOMAIN h.free = 1 .. Len(h.free)
  BY <1>1
<1>3. ASSUME NEW r \in DOMAIN h.recs
      PROVE  /\ h.recs[r] \in Rec
             /\ h.recs[r].addr \in Nat /\ h.recs[r].size \in Nat
             /\ h.recs[r].live \in BOOLEAN
  <2>1. h.recs[r] \in Rec
    BY <1>1, <1>2
  <2> QED
    BY <2>1 DEF Rec
<1> QED
  BY <1>1, <1>2, <1>3

(* What a record number names does not change with the live flag. *)
LEMMA SetLiveKeeps ==
    ASSUME NEW recs \in Seq(Rec), NEW r \in DOMAIN recs, NEW b \in BOOLEAN
    PROVE  LET new == SetLive(recs, r, b) IN
           /\ new \in Seq(Rec)
           /\ Len(new) = Len(recs)
           /\ DOMAIN new = DOMAIN recs
           /\ \A i \in DOMAIN recs : new[i].addr = recs[i].addr /\ new[i].size = recs[i].size
           /\ \A i \in DOMAIN recs : i # r => new[i] = recs[i]
           /\ new[r].live = b
<1> DEFINE new == SetLive(recs, r, b)
           e   == [recs[r] EXCEPT !.live = b]
<1>1. recs[r] \in Rec /\ \A i \in DOMAIN recs : recs[i] \in Rec
  OBVIOUS
<1>2. e \in Rec /\ e.addr = recs[r].addr /\ e.size = recs[r].size /\ e.live = b
  BY <1>1 DEF Rec
<1>3. new = [recs EXCEPT ![r] = e]
  BY DEF SetLive
<1> HIDE DEF e
<1>4. /\ new \in Seq(Rec) /\ Len(new) = Len(recs) /\ DOMAIN new = DOMAIN recs
  BY <1>2, <1>3, ExceptSeq
<1>5. \A i \in DOMAIN recs : new[i] = IF i = r THEN e ELSE recs[i]
  BY <1>3
<1> QED
  BY <1>2, <1>4, <1>5

(* Taking a slot off the free list leaves every other slot's record in it. *)
LEMMA WithoutSlotKeepsOthers ==
    ASSUME NEW free \in Seq(Nat), NEW slot \in DOMAIN free,
           \A s, t \in DOMAIN free : free[s] = free[t] => s = t
    PROVE  LET new == WithoutSlot(free, slot)
           IN  /\ new \in Seq(Nat)
               /\ DOMAIN new = 1 .. Len(free) - 1
               /\ \A s \in DOMAIN new : \E t \in DOMAIN free \ {slot} : new[s] = free[t]
               /\ \A t \in DOMAIN free \ {slot} : \E s \in DOMAIN new : new[s] = free[t]
               /\ \A s, t \in DOMAIN new : new[s] = new[t] => s = t
<1> DEFINE n == Len(free)
           new == WithoutSlot(free, slot)
<1>1. n \in Nat /\ n > 0 /\ DOMAIN free = 1 .. n /\ \A s \in 1 .. n : free[s] \in Nat
  OBVIOUS
<1>2. /\ DOMAIN new = 1 .. n - 1
      /\ \A s \in 1 .. n - 1 : new[s] = IF s = slot THEN free[n] ELSE free[s]
  BY DEF WithoutSlot
<1>3. new \in Seq(Nat)
  BY <1>1, IsASeq DEF WithoutSlot
<1> HIDE DEF new, n
<1>4. ASSUME NEW s \in 1 .. n - 1
      PROVE  \E t \in (1 .. n) \ {slot} : new[s] = free[t]
  BY <1>1, <1>2
<1>5. ASSUME NEW t \in (1 .. n) \ {slot}
      PROVE  \E s \in 1 .. n - 1 : new[s] = free[t]
  <2>1. CASE t = n
    BY <1>1, <1>2, <2>1
  <2>2. CASE t # n
    BY <1>1, <1>2, <2>2
  <2> QED
    BY <2>1, <2>2
<1>6. ASSUME NEW s \in 1 .. n - 1, NEW t \in 1 .. n - 1, new[s] = new[t]
      PROVE  s = t
  <2>1. \A i, j \in 1 .. n : free[i] = free[j] => i = j
    BY <1>1
  <2> DEFINE from(i) == IF i = slot THEN n ELSE i
  <2>2. from(s) \in 1 .. n /\ from(t) \in 1 .. n
    BY <1>1
  <2>3. new[s] = free[from(s)] /\ new[t] = free[from(t)]
    BY <1>2
  <2>4. from(s) = from(t)
    BY <2>1, <2>2, <2>3, <1>6
  <2> QED
    BY <2>4, <1>1
<1> QED
  BY <1>1, <1>2, <1>3, <1>4, <1>5, <1>6 DEF new, n

(* Where the blocks lie does not depend on which of them are live. *)
LEMMA SameBlocks ==
    ASSUME NEW h, h \in Arena, SortedRecs(h), InReserve(h), TailAtNext(h),
           NEW g, g.next = h.next, g.len = h.len,
           Len(g.recs) = Len(h.recs), DOMAIN g.recs = DOMAIN h.recs,
           \A i \in DOMAIN h.recs : /\ g.recs[i].addr = h.recs[i].addr
                                   /\ g.recs[i].size = h.recs[i].size
    PROVE  SortedRecs(g) /\ InReserve(g) /\ TailAtNext(g)
<1>1. SortedRecs(g)
  BY DEF SortedRecs, BlockEnd
<1>2. InReserve(g)
  BY DEF InReserve, ProperBlock, BlockEnd
<1>3. TailAtNext(g)
  <2> DEFINE n == Len(h.recs)
  <2>1. n \in Nat /\ DOMAIN h.recs = 1 .. n
    BY ArenaTypes
  <2>2. CASE n = 0
    BY <2>2 DEF TailAtNext
  <2>3. CASE n # 0
    <3>1. n \in DOMAIN h.recs
      BY <2>1, <2>3
    <3>2. BlockEnd(g.recs[n]) = BlockEnd(h.recs[n])
      BY <3>1 DEF BlockEnd
    <3>3. BlockEnd(h.recs[n]) = Base + h.next
      BY <2>3 DEF TailAtNext
    <3> QED
      BY <2>3, <3>2, <3>3 DEF TailAtNext
  <2> QED
    BY <2>2, <2>3
<1> QED
  BY <1>1, <1>2, <1>3

(* Reusing a freed block makes its record live and takes it off the list. *)
LEMMA ReuseWellFormed ==
    ASSUME NEW h, WellFormed(h), NEW slot \in DOMAIN h.free
    PROVE  /\ WellFormed(Reuse(h, slot))
           /\ h.free[slot] \in DOMAIN h.recs
<1> DEFINE r == h.free[slot]
           g == Reuse(h, slot)
<1>1. /\ h \in Arena /\ SortedRecs(h) /\ InReserve(h) /\ TailAtNext(h) /\ FreeExact(h)
  BY DEF WellFormed
<1>2. r \in DOMAIN h.recs /\ ~h.recs[r].live
  BY <1>1 DEF FreeExact
<1>3. /\ g.recs = SetLive(h.recs, r, TRUE)
      /\ g.free = WithoutSlot(h.free, slot)
      /\ g.len = h.len /\ g.next = h.next /\ g.byte = h.byte
  BY <1>1 DEF Reuse, Arena
<1>4. /\ g.recs \in Seq(Rec)
      /\ Len(g.recs) = Len(h.recs)
      /\ DOMAIN g.recs = DOMAIN h.recs
      /\ \A i \in DOMAIN h.recs : /\ g.recs[i].addr = h.recs[i].addr
                                  /\ g.recs[i].size = h.recs[i].size
      /\ \A i \in DOMAIN h.recs : i # r => g.recs[i] = h.recs[i]
      /\ g.recs[r].live = TRUE
  <2> DEFINE new == SetLive(h.recs, r, TRUE)
  <2>1. h.recs \in Seq(Rec) /\ TRUE \in BOOLEAN
    BY <1>1, ArenaTypes
  <2> HIDE DEF g, r
  <2>2. /\ new \in Seq(Rec)
        /\ Len(new) = Len(h.recs)
        /\ DOMAIN new = DOMAIN h.recs
        /\ \A i \in DOMAIN h.recs : /\ new[i].addr = h.recs[i].addr
                                    /\ new[i].size = h.recs[i].size
        /\ \A i \in DOMAIN h.recs : i # r => new[i] = h.recs[i]
        /\ new[r].live = TRUE
    BY <2>1, <1>2, SetLiveKeeps, Zenon
  <2> HIDE DEF new
  <2> QED
    BY <2>2, <1>3 DEF new
<1>5. h.free \in Seq(Nat) /\ \A s, t \in DOMAIN h.free : h.free[s] = h.free[t] => s = t
  BY <1>1 DEF Arena, FreeExact
<1>6. /\ g.free \in Seq(Nat)
      /\ \A s \in DOMAIN g.free : \E t \in DOMAIN h.free \ {slot} : g.free[s] = h.free[t]
      /\ \A t \in DOMAIN h.free \ {slot} : \E s \in DOMAIN g.free : g.free[s] = h.free[t]
      /\ \A s, t \in DOMAIN g.free : g.free[s] = g.free[t] => s = t
  BY <1>3, <1>5, WithoutSlotKeepsOthers
<1>7. g \in Arena
  BY <1>1, <1>3, <1>4, <1>6 DEF Reuse, Arena
<1> HIDE DEF g, r
<1>8. SortedRecs(g) /\ InReserve(g) /\ TailAtNext(g)
  BY <1>1, <1>3, <1>4, SameBlocks
<1>9. FreeExact(g)
  <2>1. ASSUME NEW s \in DOMAIN g.free
        PROVE  g.free[s] \in DOMAIN g.recs /\ ~g.recs[g.free[s]].live
    <3>1. PICK t \in DOMAIN h.free \ {slot} : g.free[s] = h.free[t]
      BY <1>6
    <3>2. h.free[t] # h.free[slot]
      BY <1>5
    <3>3. h.free[t] \in DOMAIN h.recs /\ ~h.recs[h.free[t]].live
      BY <1>1 DEF FreeExact
    <3> QED
      BY <3>1, <3>2, <3>3, <1>4 DEF r
  <2>2. ASSUME NEW i \in DOMAIN g.recs, ~g.recs[i].live
        PROVE  \E s \in DOMAIN g.free : g.free[s] = i
    <3>1. ~h.recs[i].live /\ i # r /\ i \in DOMAIN h.recs
      BY <1>4, <2>2
    <3>2. PICK t \in DOMAIN h.free : h.free[t] = i
      BY <3>1, <1>1 DEF FreeExact
    <3> QED
      BY <3>1, <3>2, <1>6 DEF r
  <2> QED
    BY <2>1, <2>2, <1>6 DEF FreeExact
<1> QED
  BY <1>2, <1>7, <1>8, <1>9 DEF WellFormed, g, r

(* Appending to a sequence keeps what is in it. *)
LEMMA AppendKeeps ==
    ASSUME NEW S, NEW seq \in Seq(S), NEW e \in S
    PROVE  LET new == Append(seq, e) IN
           /\ new \in Seq(S)
           /\ Len(new) = Len(seq) + 1
           /\ DOMAIN new = 1 .. Len(seq) + 1
           /\ \A i \in 1 .. Len(seq) : new[i] = seq[i]
           /\ new[Len(seq) + 1] = e
OBVIOUS

(* Carving appends a block that starts where no block has ever been. *)
LEMMA CarveWellFormed ==
    ASSUME NEW h, WellFormed(h),
           NEW need \in Nat, need > 0, need % Align = 0,
           CarveStart(h) + need <= Reserve
    PROVE  /\ WellFormed(Carve(h, need))
           /\ CarveStart(h) \in Nat
<1> DEFINE n     == Len(h.recs)
           start == CarveStart(h)
           end   == start + need
           rec   == [addr |-> Base + start, size |-> need, live |-> TRUE]
           g     == Carve(h, need)
<1>1. /\ h \in Arena /\ SortedRecs(h) /\ InReserve(h) /\ TailAtNext(h) /\ FreeExact(h)
  BY DEF WellFormed
<1>2. /\ n \in Nat /\ DOMAIN h.recs = 1 .. n /\ h.recs \in Seq(Rec)
      /\ h.next \in Nat /\ h.len \in Nat
      /\ \A i \in 1 .. n : h.recs[i].addr \in Nat /\ h.recs[i].size \in Nat
  BY <1>1, ArenaTypes
<1>3. /\ start \in Nat /\ start >= h.next /\ (Base + start) % Align = 0
      /\ start + need <= Reserve
  <2>1. Base + h.next \in Nat
    BY <1>2, BaseAssumption
  <2>2. /\ AlignUp(Base + h.next) \in Nat
        /\ AlignUp(Base + h.next) >= Base + h.next
        /\ AlignUp(Base + h.next) % Align = 0
    BY <2>1, AlignUpRounds
  <2>3. Base + start = AlignUp(Base + h.next)
    BY <2>2, BaseAssumption DEF CarveStart
  <2> QED
    BY <2>2, <2>3, <1>2, BaseAssumption DEF CarveStart
<1>4. /\ g.recs = Append(h.recs, rec)
      /\ g.next = end /\ g.free = h.free /\ g.byte = h.byte
      /\ g.len = IF end > h.len THEN end ELSE h.len
      /\ g \in Arena
  <2>1. rec \in Rec
    BY <1>3, BaseAssumption DEF Rec
  <2>2. Append(h.recs, rec) \in Seq(Rec) /\ end \in Nat
    BY <1>2, <1>3, <2>1, AppendKeeps
  <2>3. Materialized(h, end) \in Arena
    BY <1>1, <2>2 DEF Materialized, Arena
  <2>4. /\ Materialized(h, end).free = h.free /\ Materialized(h, end).byte = h.byte
        /\ Materialized(h, end).len = IF end > h.len THEN end ELSE h.len
    BY <1>1 DEF Materialized, Arena
  <2> HIDE DEF rec, end, start
  <2>5. g = [Materialized(h, end) EXCEPT !.next = end, !.recs = Append(h.recs, rec)]
    BY DEF Carve, rec, end, start
  <2> QED
    BY <2>2, <2>3, <2>4, <2>5 DEF Arena
<1>5. /\ Len(g.recs) = n + 1 /\ DOMAIN g.recs = 1 .. n + 1
      /\ \A i \in 1 .. n : g.recs[i] = h.recs[i]
      /\ g.recs[n + 1] = rec
  <2>1. rec \in Rec
    BY <1>3, BaseAssumption DEF Rec
  <2> QED
    BY <1>2, <1>4, <2>1, AppendKeeps
<1>6. \A i \in 1 .. n : ProperBlock(h, h.recs[i])
  BY <1>1, <1>2 DEF InReserve
<1> HIDE DEF g, n, start
<1>7. SortedRecs(g)
  <2>1. ASSUME NEW i \in 1 .. n
        PROVE  BlockEnd(h.recs[i]) <= rec.addr
    <3>1. rec.addr = Base + start
      OBVIOUS
    <3>2. BlockEnd(h.recs[i]) <= Base + h.next /\ BlockEnd(h.recs[i]) \in Nat
      BY <1>2, <1>6, BaseAssumption DEF ProperBlock, BlockEnd
    <3> QED
      BY <3>1, <3>2, <1>2, <1>3, BaseAssumption
  <2>2. ASSUME NEW i \in DOMAIN g.recs, NEW j \in DOMAIN g.recs, i < j
        PROVE  BlockEnd(g.recs[i]) <= g.recs[j].addr
    <3>1. i \in 1 .. n /\ g.recs[i] = h.recs[i]
      BY <1>2, <1>5, <2>2
    <3>2. CASE j \in 1 .. n
      BY <3>1, <3>2, <1>1, <1>2, <1>5, <2>2 DEF SortedRecs
    <3>3. CASE j = n + 1
      BY <3>1, <3>3, <1>5, <2>1
    <3> QED
      BY <3>2, <3>3, <1>2, <1>5
  <2> QED
    BY <2>2 DEF SortedRecs
<1>8. InReserve(g)
  <2>1. g.next <= g.len /\ g.len <= Reserve
    BY <1>1, <1>2, <1>3, <1>4, ReserveAssumption DEF InReserve
  <2>2. ASSUME NEW i \in 1 .. n
        PROVE  ProperBlock(g, h.recs[i])
    <3> DEFINE b == h.recs[i]
    <3>1. h.next <= g.next /\ g.next \in Nat
      BY <1>2, <1>3, <1>4
    <3>2. b.addr \in Nat /\ b.size \in Nat /\ ProperBlock(h, b)
      BY <1>2, <1>6
    <3> HIDE DEF b
    <3>3. ProperBlock(g, b)
      BY <3>1, <3>2, <1>2, BaseAssumption DEF ProperBlock, BlockEnd
    <3> QED
      BY <3>3 DEF b
  <2>3. ProperBlock(g, rec)
    BY <1>3, <1>4, BaseAssumption DEF ProperBlock, BlockEnd
  <2> QED
    BY <1>2, <1>5, <2>1, <2>2, <2>3 DEF InReserve
<1>9. TailAtNext(g)
  BY <1>2, <1>3, <1>4, <1>5, BaseAssumption DEF TailAtNext, BlockEnd
<1>10. FreeExact(g)
  <2>1. \A s \in DOMAIN h.free : h.free[s] \in 1 .. n /\ ~h.recs[h.free[s]].live
    BY <1>1, <1>2 DEF FreeExact
  <2>2. \A s \in DOMAIN g.free : g.free[s] \in 1 .. n + 1 /\ ~g.recs[g.free[s]].live
    BY <1>2, <1>4, <1>5, <2>1
  <2>3. ASSUME NEW r \in 1 .. n + 1, ~g.recs[r].live
        PROVE  \E s \in DOMAIN g.free : g.free[s] = r
    <3>1. r # n + 1
      BY <1>5, <2>3
    <3>2. r \in 1 .. n /\ ~h.recs[r].live
      BY <1>2, <1>5, <3>1, <2>3
    <3> QED
      BY <1>1, <1>2, <1>4, <3>2 DEF FreeExact
  <2> QED
    BY <1>1, <1>4, <1>5, <2>2, <2>3 DEF FreeExact
<1> QED
  BY <1>3, <1>4, <1>7, <1>8, <1>9, <1>10 DEF WellFormed, g, start

(* Whatever the request, malloc leaves the heap well formed and returns     *)
(* NULL or the start of a live block.                                       *)
LEMMA MallocWellFormed ==
    ASSUME NEW h, WellFormed(h), NEW size \in Nat
    PROVE  /\ WellFormed(Malloc(h, size).arena)
           /\ Malloc(h, size).addr \in {NULL} \cup (Base .. Base + Reserve)
<1> DEFINE g    == InitHeap(h)
           need == AlignUp(size)
           slot == BestSlot(g, need)
           m    == Malloc(h, size)
<1>1. WellFormed(g)
  BY InitHeapWellFormed
<1>2. need \in Nat /\ need >= size /\ need % Align = 0
  BY AlignUpRounds
<1> HIDE DEF g, need
<1>3. CASE size = 0 \/ size > Reserve
  <2>1. m = Result(g, NULL)
    BY <1>3 DEF Malloc, g
  <2> QED
    BY <2>1, <1>1 DEF Result
<1>4. CASE ~(size = 0 \/ size > Reserve) /\ FittingSlots(g, need) # {}
  <2>1. m = Result(Reuse(g, slot), g.recs[g.free[slot]].addr)
    BY <1>4 DEF Malloc, g, need
  <2>2. slot \in DOMAIN g.free
    BY <1>1, <1>4, BestSlotFits DEF FittingSlots
  <2> HIDE DEF slot
  <2>3. WellFormed(Reuse(g, slot)) /\ g.free[slot] \in DOMAIN g.recs
    BY <1>1, <2>2, ReuseWellFormed
  <2>4. g.recs[g.free[slot]].addr \in Base .. Base + Reserve
    <3> DEFINE r == g.free[slot]
    <3>1. g \in Arena /\ InReserve(g)
      BY <1>1 DEF WellFormed
    <3>2. /\ g.recs[r].addr \in Nat /\ g.recs[r].size \in Nat
          /\ g.next \in Nat /\ g.len \in Nat
      BY <2>3, <3>1, ArenaTypes
    <3>3. ProperBlock(g, g.recs[r]) /\ g.next <= g.len /\ g.len <= Reserve
      BY <2>3, <3>1 DEF InReserve
    <3> QED
      BY <3>2, <3>3, BaseAssumption, ReserveAssumption DEF ProperBlock, BlockEnd
  <2> QED
    BY <2>1, <2>3, <2>4 DEF Result
<1>5. CASE /\ ~(size = 0 \/ size > Reserve) /\ FittingSlots(g, need) = {}
           /\ CarveStart(g) + need > Reserve
  <2>1. m = Result(g, NULL)
    BY <1>5 DEF Malloc, g, need
  <2> QED
    BY <2>1, <1>1 DEF Result
<1>6. CASE /\ ~(size = 0 \/ size > Reserve) /\ FittingSlots(g, need) = {}
           /\ ~(CarveStart(g) + need > Reserve)
  <2>1. m = Result(Carve(g, need), Base + CarveStart(g))
    BY <1>6 DEF Malloc, g, need
  <2>2. need > 0
    BY <1>2, <1>6
  <2>3. CarveStart(g) \in Nat
    <3>1. g.next \in Nat
      BY <1>1, ArenaTypes DEF WellFormed
    <3>2. Base + g.next \in Nat
      BY <3>1, BaseAssumption
    <3>3. AlignUp(Base + g.next) \in Nat /\ AlignUp(Base + g.next) >= Base + g.next
      BY <3>2, AlignUpRounds
    <3> QED
      BY <3>1, <3>3, BaseAssumption DEF CarveStart
  <2>4. CarveStart(g) + need <= Reserve
    BY <1>2, <1>6, <2>3, ReserveAssumption
  <2>5. WellFormed(Carve(g, need))
    BY <1>1, <1>2, <2>2, <2>4, CarveWellFormed
  <2>6. Base + CarveStart(g) \in Base .. Base + Reserve
    BY <1>2, <2>3, <2>4, BaseAssumption, ReserveAssumption
  <2> QED
    BY <2>1, <2>5, <2>6 DEF Result
<1> QED
  BY <1>3, <1>4, <1>5, <1>6

(* Freeing releases a live block once, and does nothing else. *)
LEMMA FreeWellFormed ==
    ASSUME NEW h, WellFormed(h), NEW a
    PROVE  WellFormed(Free(h, a))
<1> DEFINE r == FindRecord(h, a)
           g == Free(h, a)
           n == Len(h.free)
<1>1. /\ h \in Arena /\ SortedRecs(h) /\ InReserve(h) /\ TailAtNext(h) /\ FreeExact(h)
  BY DEF WellFormed
<1>2. CASE ~(r # NoRecord /\ h.recs[r].live)
  BY <1>2 DEF Free
<1>3. CASE r # NoRecord /\ h.recs[r].live
  <2>1. r \in DOMAIN h.recs
    BY <1>1, <1>3, FindRecordSound
  <2>2. /\ h.recs \in Seq(Rec) /\ DOMAIN h.recs = 1 .. Len(h.recs) /\ Len(h.recs) \in Nat
        /\ h.free \in Seq(Nat) /\ n \in Nat /\ DOMAIN h.free = 1 .. n
    BY <1>1, ArenaTypes
  <2>3. g = [h EXCEPT !.recs = SetLive(h.recs, r, FALSE), !.free = Append(h.free, r)]
    BY <1>3 DEF Free
  <2> HIDE DEF g, r, n
  <2>4. /\ g.recs = SetLive(h.recs, r, FALSE)
        /\ g.free = Append(h.free, r)
        /\ g.len = h.len /\ g.next = h.next /\ g.byte = h.byte
    BY <1>1, <2>3 DEF Arena
  <2>5. /\ g.recs \in Seq(Rec)
        /\ Len(g.recs) = Len(h.recs)
        /\ DOMAIN g.recs = DOMAIN h.recs
        /\ \A i \in DOMAIN h.recs : /\ g.recs[i].addr = h.recs[i].addr
                                    /\ g.recs[i].size = h.recs[i].size
        /\ \A i \in DOMAIN h.recs : i # r => g.recs[i] = h.recs[i]
        /\ g.recs[r].live = FALSE
    <3> DEFINE new == SetLive(h.recs, r, FALSE)
    <3>1. FALSE \in BOOLEAN
      OBVIOUS
    <3>2. /\ new \in Seq(Rec)
          /\ Len(new) = Len(h.recs)
          /\ DOMAIN new = DOMAIN h.recs
          /\ \A i \in DOMAIN h.recs : /\ new[i].addr = h.recs[i].addr
                                      /\ new[i].size = h.recs[i].size
          /\ \A i \in DOMAIN h.recs : i # r => new[i] = h.recs[i]
          /\ new[r].live = FALSE
      BY <2>1, <2>2, <3>1, SetLiveKeeps, Zenon
    <3> HIDE DEF new
    <3> QED
      BY <2>4, <3>2 DEF new
  <2>6. /\ g.free \in Seq(Nat) /\ DOMAIN g.free = 1 .. n + 1
        /\ \A s \in 1 .. n : g.free[s] = h.free[s]
        /\ g.free[n + 1] = r
    <3>1. r \in Nat
      BY <2>1, <2>2
    <3> QED
      BY <2>2, <2>4, <3>1, AppendKeeps DEF n
  <2>7. g \in Arena
    BY <1>1, <2>3, <2>4, <2>5, <2>6 DEF Arena
  <2>8. SortedRecs(g) /\ InReserve(g) /\ TailAtNext(g)
    BY <1>1, <2>4, <2>5, SameBlocks
  <2>9. FreeExact(g)
    <3>1. \A s \in 1 .. n : /\ h.free[s] \in DOMAIN h.recs /\ ~h.recs[h.free[s]].live
                            /\ h.free[s] # r
      BY <1>1, <1>3, <2>2 DEF FreeExact, r
    <3>2. ASSUME NEW s \in DOMAIN g.free
          PROVE  g.free[s] \in DOMAIN g.recs /\ ~g.recs[g.free[s]].live
      <4>1. CASE s = n + 1
        BY <4>1, <2>1, <2>5, <2>6
      <4>2. CASE s # n + 1
        <5>1. s \in 1 .. n
          BY <4>2, <2>2, <2>6
        <5>2. g.free[s] = h.free[s] /\ h.free[s] # r /\ h.free[s] \in DOMAIN h.recs
          BY <5>1, <2>6, <3>1
        <5> QED
          BY <5>1, <5>2, <2>5, <3>1
      <4> QED
        BY <4>1, <4>2
    <3>3. ASSUME NEW i \in DOMAIN g.recs, ~g.recs[i].live
          PROVE  \E s \in DOMAIN g.free : g.free[s] = i
      <4>1. CASE i = r
        <5>1. n + 1 \in DOMAIN g.free
          BY <2>2, <2>6
        <5> QED
          BY <5>1, <4>1, <2>6
      <4>2. CASE i # r
        <5>1. i \in DOMAIN h.recs /\ ~h.recs[i].live
          BY <4>2, <3>3, <2>5
        <5>2. PICK s \in DOMAIN h.free : h.free[s] = i
          BY <5>1, <1>1 DEF FreeExact
        <5>3. s \in 1 .. n /\ s \in 1 .. n + 1
          BY <2>2
        <5> QED
          BY <5>2, <5>3, <2>6
      <4> QED
        BY <4>1, <4>2
    <3>4. ASSUME NEW s \in DOMAIN g.free, NEW t \in DOMAIN g.free, g.free[s] = g.free[t]
          PROVE  s = t
      <4>1. \A i, j \in 1 .. n : h.free[i] = h.free[j] => i = j
        BY <1>1, <2>2 DEF FreeExact
      <4>2. CASE s \in 1 .. n /\ t \in 1 .. n
        BY <4>1, <4>2, <2>6, <3>4
      <4>3. CASE s = n + 1 /\ t \in 1 .. n
        BY <4>3, <2>6, <3>1, <3>4
      <4>4. CASE s \in 1 .. n /\ t = n + 1
        BY <4>4, <2>6, <3>1, <3>4
      <4> QED
        BY <4>2, <4>3, <4>4, <2>2, <2>6
    <3> QED
      BY <3>2, <3>3, <3>4 DEF FreeExact
  <2> QED
    BY <2>7, <2>8, <2>9 DEF WellFormed, g
<1> QED
  BY <1>2, <1>3

(* The bytes play no part in where the blocks lie. *)
LEMMA BytesWellFormed ==
    ASSUME NEW h, WellFormed(h), NEW b \in [Offset -> Byte]
    PROVE  WellFormed([h EXCEPT !.byte = b])
<1> DEFINE g == [h EXCEPT !.byte = b]
<1>1. /\ g \in Arena /\ g.len = h.len /\ g.next = h.next
      /\ g.recs = h.recs /\ g.free = h.free
  BY DEF WellFormed, Arena
<1> HIDE DEF g
<1>2. SortedRecs(g) /\ InReserve(g) /\ TailAtNext(g) /\ FreeExact(g)
  BY <1>1 DEF WellFormed, SortedRecs, InReserve, ProperBlock, TailAtNext, FreeExact
<1> QED
  BY <1>1, <1>2 DEF WellFormed, g

LEMMA MemSetWellFormed ==
    ASSUME NEW h, WellFormed(h), NEW dst, NEW v \in Byte, NEW count
    PROVE  WellFormed(MemSet(h, dst, v, count))
<1>1. h.byte \in [Offset -> Byte]
  BY ArenaTypes DEF WellFormed
<1>2. [o \in Offset |-> IF Base + o \in dst .. dst + count - 1 THEN v ELSE h.byte[o]]
          \in [Offset -> Byte]
  BY <1>1
<1> QED
  BY <1>2, BytesWellFormed DEF MemSet

(* Copying a range of the reserve reads no byte outside it. *)
LEMMA MemCpyWellFormed ==
    ASSUME NEW h, WellFormed(h), NEW dst \in Nat, NEW src \in Nat, NEW count \in Nat,
           src >= Base, src + count <= Base + Reserve
    PROVE  WellFormed(MemCpy(h, dst, src, count))
<1>1. h.byte \in [Offset -> Byte]
  BY ArenaTypes DEF WellFormed
<1>2. ASSUME NEW o \in Offset, Base + o \in dst .. dst + count - 1
      PROVE  o + src - dst \in Offset
  BY <1>2, BaseAssumption, ReserveAssumption DEF Offset
<1>3. [o \in Offset |-> IF Base + o \in dst .. dst + count - 1
                        THEN h.byte[o + src - dst] ELSE h.byte[o]]
          \in [Offset -> Byte]
  BY <1>1, <1>2
<1> QED
  BY <1>3, BytesWellFormed DEF MemCpy

(* A request of calloc, wrapped or not, leaves the heap well formed. *)
LEMMA CallocWellFormed ==
    ASSUME NEW h, WellFormed(h), NEW count \in Nat, NEW size \in Nat
    PROVE  /\ WellFormed(Calloc(h, count, size).arena)
           /\ Calloc(h, count, size).addr \in {NULL} \cup (Base .. Base + Reserve)
<1> DEFINE total == (count * size) % Word
           m     == Malloc(h, total)
<1>1. total \in Nat
  <2>1. count * size \in Nat
    OBVIOUS
  <2>2. Word \in Nat /\ Word > 0
    BY WordAssumption, BaseAssumption, ReserveAssumption, AlignAssumption
  <2> QED
    BY <2>1, <2>2
<1> HIDE DEF total
<1>2. WellFormed(m.arena) /\ m.addr \in {NULL} \cup (Base .. Base + Reserve)
  BY <1>1, MallocWellFormed
<1>3. CASE size # 0 /\ total \div size # count
  BY <1>3 DEF Calloc, Result, total
<1>4. CASE ~(size # 0 /\ total \div size # count) /\ m.addr = NULL
  BY <1>2, <1>4 DEF Calloc, total
<1>5. CASE ~(size # 0 /\ total \div size # count) /\ m.addr # NULL
  <2>1. Calloc(h, count, size) = Result(MemSet(m.arena, m.addr, 0, total), m.addr)
    BY <1>5 DEF Calloc, total
  <2>2. WellFormed(MemSet(m.arena, m.addr, 0, total))
    BY <1>2, MemSetWellFormed DEF Byte
  <2> QED
    BY <1>2, <2>1, <2>2 DEF Result
<1> QED
  BY <1>3, <1>4, <1>5

(* Setting a capacity keeps every other record and every address. *)
LEMMA SetSizeKeeps ==
    ASSUME NEW recs \in Seq(Rec), NEW r \in DOMAIN recs, NEW size \in Nat
    PROVE  LET new == SetSize(recs, r, size) IN
           /\ new \in Seq(Rec)
           /\ Len(new) = Len(recs)
           /\ DOMAIN new = DOMAIN recs
           /\ \A i \in DOMAIN recs : i # r => new[i] = recs[i]
           /\ new[r].addr = recs[r].addr
           /\ new[r].size = size
           /\ new[r].live = recs[r].live
<1> DEFINE new == SetSize(recs, r, size)
           e   == [recs[r] EXCEPT !.size = size]
<1>1. recs[r] \in Rec /\ \A i \in DOMAIN recs : recs[i] \in Rec
  OBVIOUS
<1>2. e \in Rec /\ e.addr = recs[r].addr /\ e.size = size /\ e.live = recs[r].live
  BY <1>1 DEF Rec
<1>3. new = [recs EXCEPT ![r] = e]
  BY DEF SetSize
<1> HIDE DEF e
<1>4. /\ new \in Seq(Rec) /\ Len(new) = Len(recs) /\ DOMAIN new = DOMAIN recs
  BY <1>2, <1>3, ExceptSeq
<1>5. \A i \in DOMAIN recs : new[i] = IF i = r THEN e ELSE recs[i]
  BY <1>3
<1> QED
  BY <1>2, <1>4, <1>5

(* A block that ends at the bump pointer is the last one. *)
LEMMA EndsAtNextIsLast ==
    ASSUME NEW h, WellFormed(h), NEW r \in DOMAIN h.recs,
           BlockEnd(h.recs[r]) = Base + h.next
    PROVE  r = Len(h.recs)
<1> DEFINE n == Len(h.recs)
<1>1. /\ h \in Arena /\ SortedRecs(h) /\ InReserve(h) /\ TailAtNext(h)
  BY DEF WellFormed
<1>2. n \in Nat /\ DOMAIN h.recs = 1 .. n /\ r \in 1 .. n
  BY <1>1, ArenaTypes
<1>3. n \in DOMAIN h.recs /\ n # 0
  BY <1>2
<1>4. /\ h.recs[n].addr \in Nat /\ h.recs[n].size \in Nat /\ h.recs[n].size > 0
      /\ h.next \in Nat
  BY <1>1, <1>3, ArenaTypes DEF InReserve, ProperBlock
<1>5. BlockEnd(h.recs[n]) = Base + h.next
  BY <1>1, <1>3 DEF TailAtNext
<1>6. CASE r < n
  <2>1. BlockEnd(h.recs[r]) <= h.recs[n].addr
    BY <1>1, <1>2, <1>3, <1>6 DEF SortedRecs
  <2> QED
    BY <2>1, <1>4, <1>5, BaseAssumption DEF BlockEnd
<1> QED
  BY <1>2, <1>6

(* Growing the last block in place moves the bump pointer with its end. *)
LEMMA GrowLastWellFormed ==
    ASSUME NEW h, WellFormed(h), NEW r \in DOMAIN h.recs,
           NEW need \in Nat, need % Align = 0, need > h.recs[r].size,
           h.recs[r].addr - Base + h.recs[r].size = h.next,
           h.recs[r].addr - Base + need <= Reserve
    PROVE  WellFormed(GrowLast(h, r, need))
<1> DEFINE n   == Len(h.recs)
           old == h.recs[r]
           end == old.addr - Base + need
           g   == GrowLast(h, r, need)
<1>1. /\ h \in Arena /\ SortedRecs(h) /\ InReserve(h) /\ TailAtNext(h) /\ FreeExact(h)
  BY DEF WellFormed
<1>2. /\ n \in Nat /\ DOMAIN h.recs = 1 .. n /\ h.recs \in Seq(Rec)
      /\ h.next \in Nat /\ h.len \in Nat
      /\ \A i \in 1 .. n : h.recs[i].addr \in Nat /\ h.recs[i].size \in Nat
      /\ \A i \in 1 .. n : ProperBlock(h, h.recs[i])
  BY <1>1, ArenaTypes DEF InReserve
<1>3. /\ old.addr \in Nat /\ old.size \in Nat /\ ProperBlock(h, old)
      /\ old.addr >= Base
  BY <1>2 DEF ProperBlock
<1>4. BlockEnd(old) = Base + h.next
  <2>1. old.addr - Base + old.size = h.next
    OBVIOUS
  <2> HIDE DEF old
  <2> QED
    BY <2>1, <1>2, <1>3, BaseAssumption DEF BlockEnd
<1>5. r = n
  BY <1>4, EndsAtNextIsLast
<1>6. /\ end \in Nat /\ end >= h.next /\ end <= Reserve
      /\ old.addr + need = Base + end
  <2>1. /\ old.addr - Base + old.size = h.next /\ need > old.size
        /\ end = old.addr - Base + need /\ end <= Reserve
    OBVIOUS
  <2> HIDE DEF old, end
  <2>2. h.next \in Nat /\ old.addr \in Nat /\ old.size \in Nat /\ old.addr >= Base
    BY <1>2, <1>3
  <2>3. end = h.next - old.size + need
    BY <2>1, <2>2, BaseAssumption
  <2>4. end \in Int /\ end > h.next
    BY <2>1, <2>2, <2>3
  <2>5. old.addr + need = Base + end
    BY <2>1, <2>2, BaseAssumption
  <2> QED
    BY <2>1, <2>2, <2>4, <2>5
<1> HIDE DEF end, g, old, n
<1>7. /\ g.recs = SetSize(h.recs, r, need)
      /\ g.next = end /\ g.free = h.free /\ g.byte = h.byte
      /\ g.len = IF end > h.len THEN end ELSE h.len
      /\ g \in Arena
  <2>1. SetSize(h.recs, r, need) \in Seq(Rec)
    BY <1>2, SetSizeKeeps
  <2>2. Materialized(h, end) \in Arena
    BY <1>1, <1>6 DEF Materialized, Arena
  <2>3. /\ Materialized(h, end).free = h.free /\ Materialized(h, end).byte = h.byte
        /\ Materialized(h, end).len = IF end > h.len THEN end ELSE h.len
    BY <1>1 DEF Materialized, Arena
  <2>4. g = [Materialized(h, end) EXCEPT !.next = end, !.recs = SetSize(h.recs, r, need)]
    BY DEF GrowLast, g, end, old
  <2> QED
    BY <2>1, <2>2, <2>3, <2>4, <1>6 DEF Arena
<1>8. /\ Len(g.recs) = n /\ DOMAIN g.recs = 1 .. n
      /\ \A i \in 1 .. n : i # n => g.recs[i] = h.recs[i]
      /\ g.recs[n].addr = old.addr /\ g.recs[n].size = need
      /\ g.recs[n].live = old.live
  <2> DEFINE new == SetSize(h.recs, r, need)
  <2>0. h.recs \in Seq(Rec)
    BY <1>2
  <2>1. /\ new \in Seq(Rec)
        /\ Len(new) = Len(h.recs)
        /\ DOMAIN new = DOMAIN h.recs
        /\ \A i \in DOMAIN h.recs : i # r => new[i] = h.recs[i]
        /\ new[r].addr = h.recs[r].addr
        /\ new[r].size = need
        /\ new[r].live = h.recs[r].live
    BY <2>0, SetSizeKeeps, Zenon
  <2> HIDE DEF new
  <2>2. g.recs = new
    BY <1>7 DEF new
  <2> QED
    BY <1>2, <1>5, <2>1, <2>2 DEF n, old
<1>9. n \in 1 .. n /\ n # 0
  BY <1>2, <1>5
<1>10. SortedRecs(g)
  <2>1. ASSUME NEW i \in 1 .. n, NEW j \in 1 .. n, i < j
        PROVE  BlockEnd(g.recs[i]) <= g.recs[j].addr
    <3>1. BlockEnd(h.recs[i]) <= h.recs[j].addr
      BY <1>1, <1>2, <2>1 DEF SortedRecs
    <3>2. i # n
      BY <1>2, <2>1
    <3>3. g.recs[i] = h.recs[i] /\ g.recs[j].addr = h.recs[j].addr
      BY <1>5, <1>8, <3>2 DEF old
    <3> QED
      BY <3>1, <3>3
  <2>2. DOMAIN g.recs = 1 .. n
    BY <1>8
  <2> HIDE DEF g, n
  <2> QED
    BY <2>1, <2>2 DEF SortedRecs
<1>11. InReserve(g)
  <2>1. g.next <= g.len /\ g.len <= Reserve
    BY <1>1, <1>2, <1>6, <1>7, ReserveAssumption DEF InReserve
  <2>2. ASSUME NEW i \in 1 .. n
        PROVE  ProperBlock(g, g.recs[i])
    <3>1. CASE i = n
      <4> DEFINE b == g.recs[n]
      <4>1. b.addr = old.addr /\ b.size = need /\ need > 0
        BY <1>2, <1>3, <1>8 DEF old, ProperBlock
      <4> HIDE DEF b
      <4>2. b.addr >= Base /\ b.addr % Align = 0
        BY <4>1, <1>3 DEF ProperBlock
      <4>3. BlockEnd(b) <= Base + g.next
        BY <4>1, <1>6, <1>7, BaseAssumption DEF BlockEnd
      <4>4. ProperBlock(g, b)
        BY <4>1, <4>2, <4>3 DEF ProperBlock
      <4> QED
        BY <4>4, <3>1 DEF b
    <3>2. CASE i # n
      <4> DEFINE b == h.recs[i]
      <4>1. b.addr \in Nat /\ b.size \in Nat /\ ProperBlock(h, b)
        BY <1>2
      <4> HIDE DEF b
      <4>2. ProperBlock(g, b)
        BY <4>1, <1>2, <1>6, <1>7, BaseAssumption DEF ProperBlock, BlockEnd
      <4> QED
        BY <4>2, <3>2, <1>8 DEF b
    <3> QED
      BY <3>1, <3>2
  <2> QED
    BY <1>8, <2>1, <2>2 DEF InReserve
<1>12. TailAtNext(g)
  BY <1>6, <1>7, <1>8, <1>9 DEF TailAtNext, BlockEnd
<1>13. FreeExact(g)
  <2>1. ASSUME NEW i \in 1 .. n
        PROVE  g.recs[i].live = h.recs[i].live
    BY <1>5, <1>8 DEF old
  <2> QED
    BY <2>1, <1>1, <1>2, <1>7, <1>8 DEF FreeExact
<1> QED
  BY <1>7, <1>10, <1>11, <1>12, <1>13 DEF WellFormed, g

(* A move reads only the old block, which lies in the reserve. *)
LEMMA MoveWellFormed ==
    ASSUME NEW h, WellFormed(h), NEW r \in DOMAIN h.recs, NEW size \in Nat
    PROVE  /\ WellFormed(Move(h, r, size).arena)
           /\ Move(h, r, size).addr \in {NULL} \cup (Base .. Base + Reserve)
<1> DEFINE old  == h.recs[r]
           m    == Malloc(h, size)
           copy == MemCpy(m.arena, m.addr, old.addr, old.size)
<1>1. WellFormed(m.arena) /\ m.addr \in {NULL} \cup (Base .. Base + Reserve)
  BY MallocWellFormed
<1>2. /\ old.addr \in Nat /\ old.size \in Nat
      /\ old.addr >= Base /\ old.addr + old.size <= Base + Reserve
  <2>1. h \in Arena /\ InReserve(h)
    BY DEF WellFormed
  <2>2. old.addr \in Nat /\ old.size \in Nat /\ h.next \in Nat /\ h.len \in Nat
    BY <2>1, ArenaTypes
  <2>3. ProperBlock(h, old) /\ h.next <= h.len /\ h.len <= Reserve
    BY <2>1 DEF InReserve
  <2> QED
    BY <2>2, <2>3, BaseAssumption, ReserveAssumption DEF ProperBlock, BlockEnd
<1>3. CASE m.addr = NULL
  BY <1>1, <1>3 DEF Move
<1>4. CASE m.addr # NULL
  <2>1. Move(h, r, size) = Result(Free(copy, old.addr), m.addr)
    BY <1>4 DEF Move
  <2>2. m.addr \in Nat
    BY <1>1, BaseAssumption, ReserveAssumption DEF NULL
  <2>3. WellFormed(copy)
    BY <1>1, <1>2, <2>2, MemCpyWellFormed
  <2>4. WellFormed(Free(copy, old.addr))
    BY <2>3, FreeWellFormed
  <2> QED
    BY <1>1, <2>1, <2>4 DEF Result
<1> QED
  BY <1>3, <1>4

(* realloc leaves the heap well formed, whatever address it is given. *)
LEMMA ReallocWellFormed ==
    ASSUME NEW h, WellFormed(h), NEW a \in Nat, NEW size \in Nat
    PROVE  /\ WellFormed(Realloc(h, a, size).arena)
           /\ Realloc(h, a, size).addr \in {NULL} \cup (Base .. Base + Reserve)
<1> DEFINE r == FindRecord(h, a)
           R == Realloc(h, a, size)
           OK(res) == /\ WellFormed(res.arena)
                      /\ res.addr \in {NULL} \cup (Base .. Base + Reserve)
<1>1. CASE a = NULL
  BY <1>1, MallocWellFormed DEF Realloc
<1>2. CASE a # NULL /\ size = 0
  <2>1. R = Result(Free(h, a), NULL)
    BY <1>2 DEF Realloc
  <2> QED
    BY <2>1, FreeWellFormed DEF Result
<1>3. CASE a # NULL /\ size # 0 /\ (r = NoRecord \/ ~h.recs[r].live)
  <2>1. R = Result(h, NULL)
    BY <1>3 DEF Realloc
  <2> QED
    BY <2>1 DEF Result
<1>4. CASE a # NULL /\ size # 0 /\ ~(r = NoRecord \/ ~h.recs[r].live)
  <2>1. h \in Arena /\ InReserve(h)
    BY DEF WellFormed
  <2>2. r \in DOMAIN h.recs /\ h.recs[r].addr = a
    BY <1>4, <2>1, FindRecordSound
  <2> DEFINE cap == h.recs[r].size
             need == AlignUp(size)
  <2>3. /\ h.next \in Nat /\ h.len \in Nat /\ cap \in Nat
        /\ h.recs[r].addr \in Nat /\ ProperBlock(h, h.recs[r])
        /\ h.next <= h.len /\ h.len <= Reserve
    BY <2>1, <2>2, ArenaTypes DEF InReserve
  <2>4. a \in Base .. Base + Reserve
    BY <2>2, <2>3, BaseAssumption, ReserveAssumption DEF ProperBlock, BlockEnd
  <2>5. need \in Nat /\ need >= size /\ need % Align = 0
    BY AlignUpRounds
  <2> HIDE DEF r, need
  <2>6. CASE size <= cap
    <3>1. R = Result(h, a)
      BY <1>4, <2>6 DEF Realloc, r
    <3> QED
      BY <3>1, <2>4 DEF Result
  <2>7. CASE ~(size <= cap)
    <3>1. R = Grow(h, r, size)
      BY <1>4, <2>7 DEF Realloc, r
    <3>2. CASE size > Reserve
      <4>1. R = Result(h, NULL)
        BY <3>1, <3>2 DEF Grow
      <4> QED
        BY <4>1 DEF Result
    <3>3. CASE /\ ~(size > Reserve)
               /\ h.recs[r].addr - Base + cap = h.next
               /\ h.recs[r].addr - Base + need <= Reserve
      <4>1. R = Result(GrowLast(h, r, need), h.recs[r].addr)
        BY <3>1, <3>3 DEF Grow, need
      <4>2. need > cap
        BY <2>3, <2>5, <2>7
      <4>3. WellFormed(GrowLast(h, r, need))
        BY <2>2, <2>5, <3>3, <4>2, GrowLastWellFormed
      <4> QED
        BY <4>1, <4>3, <2>2, <2>4 DEF Result
    <3>4. CASE /\ ~(size > Reserve)
               /\ ~(/\ h.recs[r].addr - Base + cap = h.next
                    /\ h.recs[r].addr - Base + need <= Reserve)
      <4>1. R = Move(h, r, size)
        BY <3>1, <3>4 DEF Grow, need
      <4> QED
        BY <4>1, <2>2, MoveWellFormed
    <3> QED
      BY <3>2, <3>3, <3>4
  <2> QED
    BY <2>6, <2>7
<1> QED
  BY <1>1, <1>2, <1>3, <1>4

(* Nothing of the blocks is left after a reset. *)
LEMMA ResetWellFormed ==
    ASSUME NEW h, WellFormed(h)
    PROVE  WellFormed(Reset(h))
<1> DEFINE g == Reset(h)
<1>1. h \in Arena /\ InReserve(h)
  BY DEF WellFormed
<1>2. /\ g \in Arena
      /\ g.len = h.len /\ g.next = 0 /\ g.recs = <<>> /\ g.free = <<>>
  <2>1. <<>> \in Seq(Rec) /\ <<>> \in Seq(Nat)
    BY EmptySeq
  <2> DEFINE e == <<>>
  <2> HIDE DEF e
  <2>2. g = [h EXCEPT !.next = 0, !.recs = e, !.free = e]
    BY DEF Reset, e
  <2>3. e \in Seq(Rec) /\ e \in Seq(Nat) /\ h.byte \in [Offset -> Byte]
    BY <1>1, <2>1, ArenaTypes DEF e
  <2>4. /\ g.len = h.len /\ g.byte = h.byte /\ g.next = 0 /\ g.recs = e /\ g.free = e
        /\ h.len \in Nat
    BY <1>1, <2>2 DEF Arena
  <2> HIDE DEF g
  <2>5. g \in Arena /\ g.len = h.len /\ g.next = 0 /\ g.recs = e /\ g.free = e
    BY <1>1, <2>2, <2>3, <2>4 DEF Arena
  <2> QED
    BY <2>5 DEF e
<1>3. h.next \in Nat /\ h.len \in Nat /\ h.len <= Reserve
  BY <1>1, ArenaTypes DEF InReserve
<1> HIDE DEF g
<1>4. DOMAIN g.recs = {} /\ DOMAIN g.free = {} /\ Len(g.recs) = 0
  BY <1>2
<1>5. SortedRecs(g) /\ InReserve(g) /\ TailAtNext(g) /\ FreeExact(g)
  BY <1>2, <1>3, <1>4 DEF SortedRecs, InReserve, TailAtNext, FreeExact
<1> QED
  BY <1>2, <1>5 DEF WellFormed, g

(* The heap before its first use. *)
LEMMA EmptyWellFormed == WellFormed(EmptyArena)
<1> DEFINE g == EmptyArena
<1>1. /\ g \in Arena
      /\ g.len = 0 /\ g.next = 0 /\ g.recs = <<>> /\ g.free = <<>>
  BY DEF EmptyArena, Arena, Byte
<1> HIDE DEF g
<1>2. DOMAIN g.recs = {} /\ DOMAIN g.free = {} /\ Len(g.recs) = 0
  BY <1>1
<1>3. SortedRecs(g) /\ InReserve(g) /\ TailAtNext(g) /\ FreeExact(g)
  BY <1>1, <1>2, ReserveAssumption DEF SortedRecs, InReserve, TailAtNext, FreeExact
<1> QED
  BY <1>1, <1>3 DEF WellFormed, g

-----------------------------------------------------------------------------
(* The search is complete: what the recursion of LowerBound computes, by the *)
(* least counterexample instead of an induction principle.                  *)

(* Of two records the one with the larger number lies higher. *)
LEMMA AddressesRise ==
    ASSUME NEW h, WellFormed(h), NEW i \in DOMAIN h.recs, NEW j \in DOMAIN h.recs
    PROVE  h.recs[i].addr < h.recs[j].addr <=> i < j
<1>1. /\ i \in Nat /\ j \in Nat /\ h.recs[i].addr \in Nat /\ h.recs[j].addr \in Nat
      /\ h.recs[i].size \in Nat /\ h.recs[j].size \in Nat
  BY ArenaTypes DEF WellFormed
<1>2. h.recs[i].size > 0 /\ h.recs[j].size > 0
  BY DEF WellFormed, InReserve, ProperBlock
<1>3. ASSUME NEW x \in DOMAIN h.recs, NEW y \in DOMAIN h.recs, x < y
      PROVE  h.recs[x].addr + h.recs[x].size <= h.recs[y].addr
  BY <1>3 DEF WellFormed, SortedRecs, BlockEnd
<1>4. i < j => h.recs[i].addr < h.recs[j].addr
  BY <1>1, <1>2, <1>3
<1>5. j < i => h.recs[j].addr < h.recs[i].addr
  BY <1>1, <1>2, <1>3
<1> QED
  BY <1>1, <1>4, <1>5

(* The binary search ends behind the records that lie below an address, if  *)
(* those come first.                                                        *)
LEMMA LowerBoundIs ==
    ASSUME NEW h, NEW S, h.recs \in Seq(S), NEW a, NEW k \in 0 .. Len(h.recs),
           \A r \in DOMAIN h.recs : h.recs[r].addr < a <=> r <= k
    PROVE  LowerBound(h, a) = k
<1> DEFINE n == Len(h.recs)
           D == (0 .. n) \X (0 .. n)
           Mid(lo, hi) == (lo + hi) \div 2
           Step(f, lo, hi) ==
               IF lo >= hi THEN lo
               ELSE IF h.recs[Mid(lo, hi) + 1].addr < a
                    THEN f[<<Mid(lo, hi) + 1, hi>>]
               ELSE f[<<lo, Mid(lo, hi)>>]
           Clamp(lo, hi) == IF lo >= hi \/ k <= lo THEN lo
                            ELSE IF k >= hi THEN hi ELSE k
           clamp == [lohi \in D |-> Clamp(lohi[1], lohi[2])]
           search == CHOOSE f : f = [lohi \in D |-> Step(f, lohi[1], lohi[2])]
<1>1. LowerBound(h, a) = search[<<0, n>>]
  BY DEF LowerBound
<1>2. n \in Nat /\ k \in 0 .. n /\ DOMAIN h.recs = 1 .. n
  OBVIOUS
<1>3. ASSUME NEW lo \in 0 .. n, NEW hi \in 0 .. n, lo < hi
      PROVE  Mid(lo, hi) \in 0 .. n - 1 /\ lo <= Mid(lo, hi) /\ Mid(lo, hi) < hi
  <2> HIDE DEF n
  <2> QED
    BY <1>2, <1>3, SMT
<1>4. ASSUME NEW m \in 0 .. n - 1
      PROVE  h.recs[m + 1].addr < a <=> m + 1 <= k
  <2>1. m + 1 \in DOMAIN h.recs
    <3> HIDE DEF n
    <3> QED
      BY <1>2
  <2> QED
    BY <2>1
<1>5. clamp = [lohi \in D |-> Step(clamp, lohi[1], lohi[2])]
  <2> SUFFICES ASSUME NEW lo \in 0 .. n, NEW hi \in 0 .. n
               PROVE  Clamp(lo, hi) = Step(clamp, lo, hi)
    <3> HIDE DEF Clamp, Step, n
    <3> QED
      OBVIOUS
  <2> HIDE DEF n
  <2>1. \A x, y \in 0 .. n : clamp[<<x, y>>] = Clamp(x, y)
    OBVIOUS
  <2>2. CASE lo >= hi
    BY <2>2
  <2>3. CASE lo < hi
    <3> PICK m \in 0 .. n - 1 : m = Mid(lo, hi) /\ lo <= m /\ m < hi
      BY <1>3, <2>3
    <3>1. h.recs[m + 1].addr < a <=> m + 1 <= k
      BY <1>4
    <3>2. Step(clamp, lo, hi) = IF m + 1 <= k THEN clamp[<<m + 1, hi>>] ELSE clamp[<<lo, m>>]
      BY <2>3, <3>1
    <3>3. m + 1 \in 0 .. n /\ m \in 0 .. n
      BY <1>2
    <3>4. Step(clamp, lo, hi) = IF m + 1 <= k THEN Clamp(m + 1, hi) ELSE Clamp(lo, m)
      <4> HIDE DEF Clamp, Step, clamp
      <4> QED
        BY <2>1, <3>2, <3>3
    <3>5. Clamp(lo, hi) = IF m + 1 <= k THEN Clamp(m + 1, hi) ELSE Clamp(lo, m)
      <4> HIDE DEF Step, clamp
      <4> QED
        BY <1>2, <2>3
    <3> QED
      BY <3>4, <3>5
  <2> QED
    BY <1>2, <2>2, <2>3
<1>6. search = [lohi \in D |-> Step(search, lohi[1], lohi[2])]
  <2> DEFINE Eq(f) == f = [lohi \in D |-> Step(f, lohi[1], lohi[2])]
  <2>1. search = CHOOSE f : Eq(f)
    OBVIOUS
  <2>2. Eq(clamp)
    BY <1>5
  <2> HIDE DEF Eq, search, clamp
  <2>3. Eq(search)
    BY <2>1, <2>2
  <2> QED
    BY <2>3 DEF Eq
<1> HIDE DEF search
<1> DEFINE Wrong(lo, hi) == search[<<lo, hi>>] # Clamp(lo, hi)
           T == {d \in Nat : \E lo, hi \in 0 .. n : Wrong(lo, hi) /\ hi = lo + d}
<1>7. T = {}
  <2> SUFFICES ASSUME T # {}
               PROVE  FALSE
    OBVIOUS
  <2>1. PICK d \in T : \A e \in T : d <= e
    <3>1. T \subseteq Nat
      OBVIOUS
    <3> HIDE DEF T
    <3> QED
      BY <3>1, LeastNatural
  <2>2. PICK lo \in 0 .. n, hi \in 0 .. n : Wrong(lo, hi) /\ hi = lo + d /\ d \in Nat
    BY <2>1
  <2>3. ASSUME NEW x \in 0 .. n, NEW y \in 0 .. n, x <= y, y - x < d
        PROVE  search[<<x, y>>] = Clamp(x, y)
    <3>1. y - x \in Nat /\ y = x + (y - x) /\ d \in Nat
      <4> HIDE DEF n, Wrong
      <4> QED
        BY <1>2, <2>1, <2>3
    <3>2. ~(y - x \in T)
      <4> HIDE DEF T
      <4> QED
        BY <2>1, <2>3, <3>1
    <3> QED
      BY <3>1, <3>2
  <2>4. search[<<lo, hi>>] = Step(search, lo, hi)
    <3> HIDE DEF Step, n
    <3> QED
      BY <1>6
  <2>5. Clamp(lo, hi) = Step(clamp, lo, hi)
    <3>1. clamp[<<lo, hi>>] = Clamp(lo, hi)
      <4> HIDE DEF Clamp, n
      <4> QED
        OBVIOUS
    <3> HIDE DEF Step, Clamp, n
    <3>2. clamp[<<lo, hi>>] = Step(clamp, lo, hi)
      <4> HIDE DEF clamp
      <4> QED
        BY <1>5
    <3> QED
      BY <3>1, <3>2
  <2>6. \A x, y \in 0 .. n : clamp[<<x, y>>] = Clamp(x, y)
    <3> HIDE DEF Clamp, n
    <3> QED
      OBVIOUS
  <2>7. CASE lo >= hi
    BY <2>2, <2>4, <2>7
  <2>8. CASE lo < hi
    <3> PICK m \in 0 .. n - 1 : m = Mid(lo, hi) /\ lo <= m /\ m < hi
      BY <1>3, <2>8
    <3> HIDE DEF n, T, Wrong
    <3>1. m + 1 \in 0 .. n /\ m \in 0 .. n /\ d \in Int
      BY <1>2, <2>2
    <3>2. m + 1 <= hi /\ hi - (m + 1) < d /\ lo <= m /\ m - lo < d
      BY <1>2, <2>2
    <3> HIDE DEF Clamp, clamp
    <3>3. search[<<m + 1, hi>>] = clamp[<<m + 1, hi>>] /\ search[<<lo, m>>] = clamp[<<lo, m>>]
      BY <2>3, <2>6, <3>1, <3>2
    <3>4. Step(search, lo, hi) = Step(clamp, lo, hi)
      BY <3>3
    <3> QED
      BY <2>2, <2>4, <2>5, <3>4 DEF Wrong
  <2> QED
    BY <1>2, <2>7, <2>8
<1>8. search[<<0, n>>] = Clamp(0, n)
  <2>1. n \in Nat /\ n = 0 + n /\ 0 \in 0 .. n /\ n \in 0 .. n
    BY <1>2
  <2>2. ~(n \in T)
    BY <1>7
  <2> HIDE DEF n, Clamp
  <2> QED
    BY <2>1, <2>2
<1>9. Clamp(0, n) = k
  <2> HIDE DEF n
  <2> QED
    BY <1>2
<1> QED
  BY <1>1, <1>8, <1>9

(* So it finds each record. *)
LEMMA LowerBoundFinds ==
    ASSUME NEW h, WellFormed(h), NEW r \in DOMAIN h.recs
    PROVE  LowerBound(h, h.recs[r].addr) = r - 1
<1>1. h.recs \in Seq(Rec) /\ r \in 1 .. Len(h.recs) /\ r - 1 \in 0 .. Len(h.recs)
  BY ArenaTypes DEF WellFormed
<1>2. \A i \in DOMAIN h.recs : h.recs[i].addr < h.recs[r].addr <=> i <= r - 1
  <2> TAKE i \in DOMAIN h.recs
  <2>1. i \in Nat /\ r \in Nat
    BY <1>1
  <2> QED
    BY <2>1, AddressesRise
<1> QED
  BY <1>1, <1>2, LowerBoundIs

LEMMA FindRecordFinds ==
    ASSUME NEW h, WellFormed(h), NEW r \in DOMAIN h.recs
    PROVE  FindRecord(h, h.recs[r].addr) = r
<1>1. LowerBound(h, h.recs[r].addr) = r - 1
  BY LowerBoundFinds
<1>2. Len(h.recs) \in Nat /\ r \in 1 .. Len(h.recs)
  BY ArenaTypes DEF WellFormed
<1>3. r - 1 \in 0 .. Len(h.recs) - 1 /\ (r - 1) + 1 = r
  BY <1>2
<1> QED
  BY <1>1, <1>3 DEF FindRecord

-----------------------------------------------------------------------------
(* What the functions do to the blocks the program holds: that of n bytes   *)
(* at a, whichever record it has.                                           *)
Holds(h, a, n) == \E r \in LiveRecords(h) : h.recs[r].addr = a /\ h.recs[r].size = n

SameHeld(h, g) == \A b, m : Holds(g, b, m) <=> Holds(h, b, m)

Gains(h, g, a, n) ==
    /\ \A b, m : Holds(g, b, m) <=> Holds(h, b, m) \/ (b = a /\ m = n)
    /\ \A m : ~Holds(h, a, m)

Loses(h, g, a) == \A b, m : Holds(g, b, m) <=> Holds(h, b, m) /\ b # a

LEMMA HoldsFacts ==
    ASSUME NEW h, WellFormed(h), NEW a, NEW n, Holds(h, a, n)
    PROVE  /\ a \in Nat /\ a >= Base /\ a > 0 /\ a # NULL /\ a % Align = 0
           /\ n \in Nat /\ n > 0 /\ a + n <= Base + Reserve
<1>1. PICK r \in DOMAIN h.recs : h.recs[r].addr = a /\ h.recs[r].size = n
  BY DEF Holds, LiveRecords
<1>2. a \in Nat /\ n \in Nat /\ h.next \in Nat /\ h.len \in Nat
  BY <1>1, ArenaTypes DEF WellFormed
<1>3. ProperBlock(h, h.recs[r]) /\ h.next <= h.len /\ h.len <= Reserve
  BY DEF WellFormed, InReserve
<1> QED
  BY <1>1, <1>2, <1>3, BaseAssumption, ReserveAssumption DEF ProperBlock, BlockEnd, NULL

LEMMA HoldsApart ==
    ASSUME NEW h, WellFormed(h), NEW a, NEW n, Holds(h, a, n), NEW b, NEW m, Holds(h, b, m)
    PROVE  (a = b /\ n = m) \/ a + n <= b \/ b + m <= a
<1>1. PICK r \in DOMAIN h.recs : h.recs[r].addr = a /\ h.recs[r].size = n
  BY DEF Holds, LiveRecords
<1>2. PICK s \in DOMAIN h.recs : h.recs[s].addr = b /\ h.recs[s].size = m
  BY DEF Holds, LiveRecords
<1>3. r \in Nat /\ s \in Nat
  BY ArenaTypes DEF WellFormed
<1>4. r < s => a + n <= b
  BY <1>1, <1>2 DEF WellFormed, SortedRecs, BlockEnd
<1>5. s < r => b + m <= a
  BY <1>1, <1>2 DEF WellFormed, SortedRecs, BlockEnd
<1>6. r = s => a = b /\ n = m
  BY <1>1, <1>2
<1>7. r < s \/ s < r \/ r = s
  BY <1>3
<1> QED
  BY <1>4, <1>5, <1>6, <1>7

(* At most one block starts at an address. *)
LEMMA HoldsOnce ==
    ASSUME NEW h, WellFormed(h), NEW a, NEW n, Holds(h, a, n), NEW m, Holds(h, a, m)
    PROVE  n = m
<1>1. a \in Nat /\ n \in Nat /\ n > 0 /\ m \in Nat /\ m > 0
  BY HoldsFacts
<1>2. n = m \/ a + n <= a \/ a + m <= a
  BY HoldsApart
<1> QED
  BY <1>1, <1>2

LEMMA SameRecordsHeld ==
    ASSUME NEW h, NEW g, g.recs = h.recs
    PROVE  SameHeld(h, g)
BY DEF SameHeld, Holds, LiveRecords

(* The record of a block is the one at its address. *)
LEMMA LiveRecordHeld ==
    ASSUME NEW h, WellFormed(h), NEW r \in DOMAIN h.recs, ~h.recs[r].live, NEW m
    PROVE  ~Holds(h, h.recs[r].addr, m)
<1> SUFFICES ASSUME Holds(h, h.recs[r].addr, m)
             PROVE  FALSE
  OBVIOUS
<1>1. PICK s \in LiveRecords(h) : h.recs[s].addr = h.recs[r].addr
  BY DEF Holds
<1>2. s \in DOMAIN h.recs /\ h.recs[s].live
  BY DEF LiveRecords
<1>3. FindRecord(h, h.recs[s].addr) = s /\ FindRecord(h, h.recs[r].addr) = r
  BY <1>2, FindRecordFinds
<1> QED
  BY <1>1, <1>2, <1>3

LEMMA ReuseGains ==
    ASSUME NEW h, WellFormed(h), NEW slot \in DOMAIN h.free
    PROVE  LET r == h.free[slot] IN
           /\ Gains(h, Reuse(h, slot), h.recs[r].addr, h.recs[r].size)
           /\ Reuse(h, slot).byte = h.byte
<1> DEFINE r == h.free[slot]
           g == Reuse(h, slot)
<1>1. r \in DOMAIN h.recs /\ ~h.recs[r].live /\ h.recs \in Seq(Rec) /\ TRUE \in BOOLEAN
  BY ArenaTypes DEF WellFormed, FreeExact
<1>2. g.recs = SetLive(h.recs, r, TRUE) /\ g.byte = h.byte
  BY DEF Reuse, WellFormed, Arena
<1> HIDE DEF g, r
<1>3. LET new == SetLive(h.recs, r, TRUE) IN
      /\ DOMAIN new = DOMAIN h.recs
      /\ \A i \in DOMAIN h.recs : /\ new[i].addr = h.recs[i].addr
                                  /\ new[i].size = h.recs[i].size
      /\ \A i \in DOMAIN h.recs : i # r => new[i] = h.recs[i]
      /\ new[r].live = TRUE
  BY <1>1, SetLiveKeeps, Zenon
<1>4. /\ DOMAIN g.recs = DOMAIN h.recs
      /\ \A i \in DOMAIN h.recs : /\ g.recs[i].addr = h.recs[i].addr
                                  /\ g.recs[i].size = h.recs[i].size
      /\ \A i \in DOMAIN h.recs : i # r => g.recs[i] = h.recs[i]
      /\ g.recs[r].live
  BY <1>2, <1>3
<1>5. \A i : i \in LiveRecords(g) <=> i \in LiveRecords(h) \/ i = r
  BY <1>1, <1>4 DEF LiveRecords
<1>6. \A b, m : Holds(g, b, m) <=> Holds(h, b, m) \/ (b = h.recs[r].addr /\ m = h.recs[r].size)
  <2>1. \A i \in LiveRecords(h) : i \in DOMAIN h.recs
    BY DEF LiveRecords
  <2> QED
    BY <1>1, <1>4, <1>5, <2>1 DEF Holds
<1>7. \A m : ~Holds(h, h.recs[r].addr, m)
  BY <1>1, LiveRecordHeld
<1> QED
  BY <1>2, <1>6, <1>7 DEF Gains, g, r

LEMMA CarveGains ==
    ASSUME NEW h, WellFormed(h), NEW need \in Nat, need > 0, CarveStart(h) \in Nat
    PROVE  /\ Gains(h, Carve(h, need), Base + CarveStart(h), need)
           /\ Carve(h, need).byte = h.byte
<1> DEFINE start == CarveStart(h)
           rec   == [addr |-> Base + start, size |-> need, live |-> TRUE]
           g     == Carve(h, need)
           n     == Len(h.recs)
<1>1. g.recs = Append(h.recs, rec) /\ g.byte = h.byte
  BY DEF Carve, Materialized, WellFormed, Arena
<1>2. h.recs \in Seq(Rec) /\ n \in Nat /\ DOMAIN h.recs = 1 .. n /\ h.next \in Nat
  BY ArenaTypes DEF WellFormed
<1>3. rec \in Rec /\ rec.addr = Base + start /\ rec.size = need /\ rec.live
  BY BaseAssumption DEF Rec
<1> HIDE DEF rec, g
<1>4. /\ DOMAIN g.recs = 1 .. n + 1 /\ g.recs[n + 1] = rec
      /\ \A i \in 1 .. n : g.recs[i] = h.recs[i]
  BY <1>1, <1>2, <1>3, AppendKeeps
<1> HIDE DEF n, start
<1>5. \A i : i \in LiveRecords(g) <=> i \in LiveRecords(h) \/ i = n + 1
  <2>1. \A i : i \in DOMAIN g.recs <=> i \in DOMAIN h.recs \/ i = n + 1
    BY <1>2, <1>4
  <2>2. \A i \in DOMAIN h.recs : g.recs[i] = h.recs[i]
    BY <1>2, <1>4
  <2>3. n + 1 \notin DOMAIN h.recs
    BY <1>2
  <2> QED
    BY <1>3, <1>4, <2>1, <2>2, <2>3 DEF LiveRecords
<1>6. \A b, m : Holds(g, b, m) <=> Holds(h, b, m) \/ (b = Base + start /\ m = need)
  <2>1. \A i \in LiveRecords(h) : g.recs[i] = h.recs[i]
    BY <1>2, <1>4 DEF LiveRecords
  <2> QED
    BY <1>3, <1>4, <1>5, <2>1 DEF Holds
<1>7. ASSUME NEW m, Holds(h, Base + start, m)
      PROVE  FALSE
  <2>1. PICK r \in DOMAIN h.recs : h.recs[r].addr = Base + start /\ h.recs[r].size = m
    BY <1>7 DEF Holds, LiveRecords
  <2>2. m \in Nat /\ m > 0 /\ Base + start + m <= Base + h.next
    BY <1>2, <2>1, ArenaTypes DEF WellFormed, InReserve, ProperBlock, BlockEnd
  <2>3. start >= h.next
    <3>1. Base + h.next \in Nat
      BY <1>2, BaseAssumption
    <3>2. AlignUp(Base + h.next) \in Nat /\ AlignUp(Base + h.next) >= Base + h.next
      BY <3>1, AlignUpRounds
    <3> QED
      BY <1>2, <3>1, <3>2, BaseAssumption DEF start, CarveStart
  <2> QED
    BY <1>2, <2>2, <2>3, BaseAssumption DEF start
<1> QED
  BY <1>1, <1>6, <1>7 DEF Gains, g, start

LEMMA MallocGains ==
    ASSUME NEW h, WellFormed(h), NEW size \in Nat
    PROVE  LET m == Malloc(h, size) IN
           /\ m.arena.byte = h.byte
           /\ \/ m.addr = NULL /\ SameHeld(h, m.arena)
              \/ \E n \in Nat : n >= size /\ Gains(h, m.arena, m.addr, n)
<1> DEFINE g    == InitHeap(h)
           need == AlignUp(size)
           slot == BestSlot(g, need)
           m    == Malloc(h, size)
<1>1. WellFormed(g) /\ g.byte = h.byte /\ g.recs = h.recs
  BY InitHeapWellFormed
<1>2. need \in Nat /\ need >= size
  BY AlignUpRounds
<1> HIDE DEF g, need
<1>3. SameHeld(h, g)
  BY <1>1, SameRecordsHeld
<1>4. ASSUME NEW k, NEW a, NEW n, Gains(g, k, a, n)
      PROVE  Gains(h, k, a, n)
  BY <1>3, <1>4 DEF Gains, SameHeld
<1>5. CASE m = Result(g, NULL)
  BY <1>1, <1>3, <1>5 DEF Result
<1>6. CASE /\ ~(size = 0 \/ size > Reserve) /\ FittingSlots(g, need) # {}
           /\ m = Result(Reuse(g, slot), g.recs[g.free[slot]].addr)
  <2>1. slot \in DOMAIN g.free /\ Fits(SlotSize(g, slot), need)
    BY <1>1, <1>6, BestSlotFits DEF FittingSlots
  <2> HIDE DEF slot
  <2> DEFINE r == g.free[slot]
  <2>2. Gains(g, Reuse(g, slot), g.recs[r].addr, g.recs[r].size) /\ Reuse(g, slot).byte = g.byte
    BY <1>1, <2>1, ReuseGains
  <2>3. g.recs[r].size \in Nat
    <3>1. r \in DOMAIN g.recs /\ g \in Arena
      BY <1>1, <2>1 DEF WellFormed, FreeExact
    <3> QED
      BY <3>1, ArenaTypes
  <2>4. g.recs[r].size >= size
    BY <1>2, <2>1, <2>3 DEF Fits, SlotSize
  <2> HIDE DEF r
  <2>5. m.arena = Reuse(g, slot) /\ m.addr = g.recs[r].addr
    BY <1>6 DEF Result, r
  <2> HIDE DEF m
  <2> QED
    BY <1>1, <1>4, <2>2, <2>3, <2>4, <2>5 DEF m
<1>7. CASE /\ ~(size = 0 \/ size > Reserve)
           /\ m = Result(Carve(g, need), Base + CarveStart(g))
  <2>1. need > 0
    BY <1>2, <1>7
  <2>2. CarveStart(g) \in Nat
    <3>1. g.next \in Nat
      BY <1>1, ArenaTypes DEF WellFormed
    <3>2. Base + g.next \in Nat
      BY <3>1, BaseAssumption
    <3>3. AlignUp(Base + g.next) \in Nat /\ AlignUp(Base + g.next) >= Base + g.next
      BY <3>2, AlignUpRounds
    <3> QED
      BY <3>1, <3>3, BaseAssumption DEF CarveStart
  <2>3. Gains(g, Carve(g, need), Base + CarveStart(g), need) /\ Carve(g, need).byte = g.byte
    BY <1>1, <1>2, <2>1, <2>2, CarveGains
  <2>4. m.arena = Carve(g, need) /\ m.addr = Base + CarveStart(g)
    BY <1>7 DEF Result
  <2> HIDE DEF m
  <2> QED
    BY <1>1, <1>2, <1>4, <2>3, <2>4 DEF m
<1>8. \/ m = Result(g, NULL)
      \/ /\ ~(size = 0 \/ size > Reserve) /\ FittingSlots(g, need) # {}
         /\ m = Result(Reuse(g, slot), g.recs[g.free[slot]].addr)
      \/ /\ ~(size = 0 \/ size > Reserve)
         /\ m = Result(Carve(g, need), Base + CarveStart(g))
  BY DEF Malloc, g, need
<1> QED
  BY <1>5, <1>6, <1>7, <1>8

LEMMA FreeLoses ==
    ASSUME NEW h, WellFormed(h), NEW a
    PROVE  Loses(h, Free(h, a), a) /\ Free(h, a).byte = h.byte
<1> DEFINE r == FindRecord(h, a)
           g == Free(h, a)
<1>1. CASE r # NoRecord /\ h.recs[r].live
  <2>1. r \in DOMAIN h.recs /\ h.recs[r].addr = a /\ h.recs \in Seq(Rec) /\ FALSE \in BOOLEAN
    BY <1>1, FindRecordSound, ArenaTypes DEF WellFormed
  <2>2. g.recs = SetLive(h.recs, r, FALSE) /\ g.byte = h.byte
    BY <1>1 DEF Free, WellFormed, Arena
  <2> HIDE DEF g, r
  <2>3. LET new == SetLive(h.recs, r, FALSE) IN
        /\ DOMAIN new = DOMAIN h.recs
        /\ \A i \in DOMAIN h.recs : /\ new[i].addr = h.recs[i].addr
                                    /\ new[i].size = h.recs[i].size
        /\ \A i \in DOMAIN h.recs : i # r => new[i] = h.recs[i]
        /\ new[r].live = FALSE
    <3> DEFINE new == SetLive(h.recs, r, FALSE)
    <3>1. /\ new \in Seq(Rec)
          /\ Len(new) = Len(h.recs)
          /\ DOMAIN new = DOMAIN h.recs
          /\ \A i \in DOMAIN h.recs : /\ new[i].addr = h.recs[i].addr
                                      /\ new[i].size = h.recs[i].size
          /\ \A i \in DOMAIN h.recs : i # r => new[i] = h.recs[i]
          /\ new[r].live = FALSE
      BY <2>1, SetLiveKeeps, Zenon
    <3> QED
      BY <3>1, Zenon
  <2>4. \A i : i \in LiveRecords(g) <=> i \in LiveRecords(h) /\ i # r
    BY <2>1, <2>2, <2>3 DEF LiveRecords
  <2>5. \A i \in DOMAIN h.recs : h.recs[i].addr = a => i = r
    BY <2>1, FindRecordFinds
  <2>6. \A i \in LiveRecords(h) : i # r => g.recs[i] = h.recs[i] /\ h.recs[i].addr # a
    BY <2>2, <2>3, <2>5 DEF LiveRecords
  <2>7. \A b, m : Holds(g, b, m) <=> Holds(h, b, m) /\ b # a
    BY <2>1, <2>4, <2>6 DEF Holds
  <2> QED
    BY <2>2, <2>7 DEF Loses, g
<1>2. CASE ~(r # NoRecord /\ h.recs[r].live)
  <2>1. g = h
    BY <1>2 DEF Free
  <2>2. ASSUME NEW m, Holds(h, a, m)
        PROVE  FALSE
    <3>1. PICK s \in DOMAIN h.recs : h.recs[s].addr = a /\ h.recs[s].live
      BY <2>2 DEF Holds, LiveRecords
    <3>2. r = s /\ s # NoRecord
      BY <3>1, FindRecordFinds, ArenaTypes DEF WellFormed, NoRecord
    <3> QED
      BY <1>2, <3>1, <3>2
  <2> QED
    BY <2>1, <2>2 DEF Loses
<1> QED
  BY <1>1, <1>2

(* A product that the division gives back did not wrap. *)
LEMMA ProductExact ==
    ASSUME NEW count \in Nat, NEW size \in Nat,
           size = 0 \/ ((count * size) % Word) \div size = count
    PROVE  (count * size) % Word = count * size
<1>1. Word \in Nat /\ Word > 0
  BY WordAssumption, BaseAssumption, ReserveAssumption, AlignAssumption
<1> DEFINE p == count * size
           t == p % Word
<1>2. p \in Nat
  OBVIOUS
<1>3. CASE size = 0
  <2>1. p = 0
    BY <1>3, SMT
  <2> HIDE DEF p
  <2> QED
    BY <1>1, <2>1, SMT DEF p
<1>4. CASE size # 0 /\ t \div size = count
  <2> HIDE DEF p
  <2>1. t \in Nat /\ t <= p
    <3>1. p = Word * (p \div Word) + t /\ t \in 0 .. Word - 1 /\ p \div Word \in Nat
      BY <1>1, <1>2, SMT
    <3>2. Word * (p \div Word) \in Nat
      BY <1>1, <3>1, SMT
    <3> QED
      BY <1>2, <3>1, <3>2, <1>1
  <2> HIDE DEF t
  <2>2. t = size * (t \div size) + (t % size) /\ t % size \in Nat
    BY <1>4, <2>1, SMT
  <2>3. t = size * count + (t % size)
    BY <1>4, <2>2
  <2>4. size * count = count * size /\ size * count \in Nat
    BY SMT
  <2>5. t >= p
    BY <1>2, <2>2, <2>3, <2>4 DEF p
  <2> QED
    BY <1>2, <2>1, <2>5 DEF t, p
<1> QED
  BY <1>3, <1>4

LEMMA CallocGains ==
    ASSUME NEW h, WellFormed(h), NEW count \in Nat, NEW size \in Nat
    PROVE  LET c == Calloc(h, count, size) IN
           \/ c.addr = NULL /\ SameHeld(h, c.arena) /\ c.arena.byte = h.byte
           \/ /\ \E n \in Nat : n >= count * size /\ Gains(h, c.arena, c.addr, n)
              /\ c.arena.byte = [o \in Offset |->
                     IF Base + o \in c.addr .. c.addr + count * size - 1 THEN 0 ELSE h.byte[o]]
<1> DEFINE total == (count * size) % Word
           m     == Malloc(h, total)
           c     == Calloc(h, count, size)
<1>1. total \in Nat
  <2>1. count * size \in Nat
    OBVIOUS
  <2>2. Word \in Nat /\ Word > 0
    BY WordAssumption, BaseAssumption, ReserveAssumption, AlignAssumption
  <2> QED
    BY <2>1, <2>2
<1>2. CASE size # 0 /\ total \div size # count
  <2>1. c = Result(h, NULL)
    BY <1>2 DEF Calloc
  <2> QED
    BY <2>1, SameRecordsHeld DEF Result
<1>3. CASE ~(size # 0 /\ total \div size # count)
  <2>1. total = count * size
    BY <1>3, ProductExact
  <2> HIDE DEF total
  <2>2. /\ m.arena.byte = h.byte
        /\ \/ m.addr = NULL /\ SameHeld(h, m.arena)
           \/ \E n \in Nat : n >= total /\ Gains(h, m.arena, m.addr, n)
    BY <1>1, MallocGains
  <2>3. CASE m.addr = NULL
    <3>1. c = m
      BY <1>3, <2>3 DEF Calloc, total
    <3>2. SameHeld(h, m.arena)
      <4>1. ASSUME NEW n, Gains(h, m.arena, NULL, n)
            PROVE  FALSE
        <5>1. Holds(m.arena, NULL, n)
          BY <4>1 DEF Gains
        <5>2. WellFormed(m.arena)
          BY <1>1, MallocWellFormed
        <5> QED
          BY <5>1, <5>2, HoldsFacts
      <4> QED
        BY <2>2, <2>3, <4>1
    <3> QED
      BY <2>2, <2>3, <3>1, <3>2
  <2>4. CASE m.addr # NULL
    <3>1. c = Result(MemSet(m.arena, m.addr, 0, total), m.addr)
      BY <1>3, <2>4 DEF Calloc, total
    <3>2. m.arena \in Arena
      BY <1>1, MallocWellFormed DEF WellFormed
    <3> HIDE DEF m
    <3>3. /\ c.addr = m.addr /\ c.arena.recs = m.arena.recs
          /\ c.arena.byte = [o \in Offset |->
                IF Base + o \in m.addr .. m.addr + total - 1 THEN 0 ELSE m.arena.byte[o]]
      <4>1. c.addr = m.addr /\ c.arena = MemSet(m.arena, m.addr, 0, total)
        BY <3>1 DEF Result
      <4> QED
        BY <4>1, <3>2 DEF MemSet, Arena
    <3>4. SameHeld(m.arena, c.arena)
      BY <3>3, SameRecordsHeld
    <3>5. PICK n \in Nat : n >= total /\ Gains(h, m.arena, m.addr, n)
      BY <2>2, <2>4
    <3> HIDE DEF c
    <3>6. Gains(h, c.arena, c.addr, n)
      BY <3>3, <3>4, <3>5 DEF Gains, SameHeld
    <3> QED
      BY <2>1, <2>2, <3>3, <3>5, <3>6 DEF c
  <2> QED
    BY <2>3, <2>4
<1> QED
  BY <1>2, <1>3

-----------------------------------------------------------------------------
LEMMA GrowLastHolds ==
    ASSUME NEW h, WellFormed(h), NEW r \in LiveRecords(h), NEW need \in Nat
    PROVE  LET a == h.recs[r].addr
               g == GrowLast(h, r, need)
           IN  /\ \A b, m : Holds(g, b, m) <=> (Holds(h, b, m) /\ b # a) \/ (b = a /\ m = need)
               /\ g.byte = h.byte
<1> DEFINE a == h.recs[r].addr
           g == GrowLast(h, r, need)
<1>1. r \in DOMAIN h.recs /\ h.recs[r].live /\ h.recs \in Seq(Rec)
  BY ArenaTypes DEF WellFormed, LiveRecords
<1>2. g.recs = SetSize(h.recs, r, need) /\ g.byte = h.byte
  BY DEF GrowLast, Materialized, WellFormed, Arena
<1> HIDE DEF g
<1>3. /\ DOMAIN g.recs = DOMAIN h.recs
      /\ \A i \in DOMAIN h.recs : i # r => g.recs[i] = h.recs[i]
      /\ g.recs[r].addr = h.recs[r].addr /\ g.recs[r].size = need
      /\ g.recs[r].live = h.recs[r].live
  <2> DEFINE new == SetSize(h.recs, r, need)
  <2>1. /\ new \in Seq(Rec)
        /\ Len(new) = Len(h.recs)
        /\ DOMAIN new = DOMAIN h.recs
        /\ \A i \in DOMAIN h.recs : i # r => new[i] = h.recs[i]
        /\ new[r].addr = h.recs[r].addr
        /\ new[r].size = need
        /\ new[r].live = h.recs[r].live
    BY <1>1, SetSizeKeeps, Zenon
  <2> HIDE DEF new
  <2>2. g.recs = new
    BY <1>2 DEF new
  <2> QED
    BY <2>1, <2>2
<1>4. /\ DOMAIN g.recs = DOMAIN h.recs
      /\ \A i \in DOMAIN h.recs : i # r => g.recs[i] = h.recs[i]
      /\ g.recs[r].addr = a /\ g.recs[r].size = need /\ g.recs[r].live
  BY <1>1, <1>3
<1>5. \A i \in DOMAIN h.recs : h.recs[i].addr = a => i = r
  BY <1>1, FindRecordFinds
<1> HIDE DEF a
<1>6. LiveRecords(g) = LiveRecords(h)
  <2>1. \A i \in DOMAIN h.recs : g.recs[i].live <=> h.recs[i].live
    BY <1>1, <1>4
  <2> QED
    BY <1>4, <2>1 DEF LiveRecords
<1>7. \A i \in LiveRecords(h) : i # r => g.recs[i] = h.recs[i] /\ h.recs[i].addr # a
  BY <1>4, <1>5 DEF LiveRecords
<1>8. \A b, m : Holds(g, b, m) <=> (Holds(h, b, m) /\ b # a) \/ (b = a /\ m = need)
  BY <1>4, <1>6, <1>7 DEF Holds, a
<1> QED
  BY <1>2, <1>8 DEF a, g

(* The bytes of a block, by their offsets. *)
ByteAt(h, a, o) == h.byte[a - Base + o]

LEMMA InOffset ==
    ASSUME NEW h, WellFormed(h), NEW a, NEW n, Holds(h, a, n), NEW o \in 0 .. n - 1
    PROVE  a - Base + o \in Offset /\ Base + (a - Base + o) = a + o
<1>1. a \in Nat /\ n \in Nat /\ a >= Base /\ a + n <= Base + Reserve
  BY HoldsFacts
<1> QED
  BY <1>1, BaseAssumption, ReserveAssumption DEF Offset

(* The block of old bytes at a is now n bytes at b; the others are as they  *)
(* were.                                                                    *)
Resizes(h, g, a, old, b, n) ==
    /\ \A x, m : Holds(g, x, m) <=> (Holds(h, x, m) /\ x # a) \/ (x = b /\ m = n)
    /\ \A m : Holds(h, b, m) => b = a
    /\ \A o \in 0 .. old - 1 : ByteAt(g, b, o) = ByteAt(h, a, o)
    /\ \A x, m : Holds(h, x, m) /\ x # a => \A o \in 0 .. m - 1 : ByteAt(g, x, o) = ByteAt(h, x, o)

LEMMA MoveHolds ==
    ASSUME NEW h, WellFormed(h), NEW r \in LiveRecords(h), NEW size \in Nat,
           size > h.recs[r].size
    PROVE  LET a == h.recs[r].addr
               k == Move(h, r, size)
           IN  \/ k.addr = NULL /\ SameHeld(h, k.arena) /\ k.arena.byte = h.byte
               \/ \E n \in Nat : n >= size /\ Resizes(h, k.arena, a, h.recs[r].size, k.addr, n)
<1> DEFINE a    == h.recs[r].addr
           old  == h.recs[r].size
           m    == Malloc(h, size)
           copy == MemCpy(m.arena, m.addr, a, old)
           k    == Move(h, r, size)
<1>1. r \in DOMAIN h.recs /\ Holds(h, a, old)
  BY DEF LiveRecords, Holds
<1>2. a \in Nat /\ old \in Nat /\ a >= Base /\ a + old <= Base + Reserve
  BY <1>1, HoldsFacts
<1>3. /\ m.arena.byte = h.byte
      /\ \/ m.addr = NULL /\ SameHeld(h, m.arena)
         \/ \E n \in Nat : n >= size /\ Gains(h, m.arena, m.addr, n)
  BY MallocGains
<1>4. WellFormed(m.arena)
  BY MallocWellFormed
<1>5. ASSUME NEW n, Gains(h, m.arena, m.addr, n)
      PROVE  m.addr # NULL /\ Holds(m.arena, m.addr, n)
  <2>1. Holds(m.arena, m.addr, n)
    BY <1>5 DEF Gains
  <2> QED
    BY <1>4, <2>1, HoldsFacts
<1>6. CASE m.addr = NULL
  <2>1. k = m
    BY <1>6 DEF Move
  <2>2. SameHeld(h, m.arena)
    BY <1>3, <1>5, <1>6
  <2> QED
    BY <1>3, <1>6, <2>1, <2>2
<1>7. CASE m.addr # NULL
  <2>1. k.arena = Free(copy, a) /\ k.addr = m.addr
    BY <1>7 DEF Move, Result
  <2>2. PICK n \in Nat : n >= size /\ Gains(h, m.arena, m.addr, n)
    BY <1>3, <1>7
  <2>3. m.addr \in Nat /\ m.addr >= Base /\ Holds(m.arena, m.addr, n)
        /\ m.addr + n <= Base + Reserve
    BY <1>4, <1>5, <2>2, HoldsFacts
  <2> PICK b \in Nat : b = m.addr
    BY <2>3
  <2>4. WellFormed(copy)
    BY <1>2, <1>4, <2>3, MemCpyWellFormed
  <2>5. /\ copy.recs = m.arena.recs
        /\ copy.byte = [o \in Offset |-> IF Base + o \in b .. b + old - 1
                                         THEN h.byte[o + a - b] ELSE h.byte[o]]
    <3>1. m.arena \in Arena
      BY <1>4 DEF WellFormed
    <3> HIDE DEF m
    <3> QED
      BY <1>3, <3>1 DEF MemCpy, Arena
  <2>6. Loses(copy, k.arena, a) /\ k.arena.byte = copy.byte
    BY <2>1, <2>4, FreeLoses
  <2>7. SameHeld(m.arena, copy)
    BY <2>5, SameRecordsHeld
  <2> HIDE DEF copy, k, m, a, old
  <2>8. b # a
    BY <1>1, <2>2 DEF Gains
  <2>9. \A x, y : Holds(k.arena, x, y) <=> (Holds(h, x, y) /\ x # a) \/ (x = b /\ y = n)
    BY <2>2, <2>6, <2>7, <2>8 DEF Gains, Loses, SameHeld
  <2>10. \A y : Holds(h, b, y) => b = a
    BY <2>2 DEF Gains
  <2>11. ASSUME NEW o \in 0 .. old - 1
         PROVE  ByteAt(k.arena, b, o) = ByteAt(h, a, o)
    <3>1. old < n
      BY <1>2, <2>2 DEF old
    <3>2. o \in 0 .. n - 1
      BY <1>2, <3>1
    <3>3. b - Base + o \in Offset /\ Base + (b - Base + o) = b + o
      BY <1>4, <2>3, <3>2, InOffset
    <3>4. b + o \in b .. b + old - 1 /\ (b - Base + o) + a - b = a - Base + o
      BY <1>2, BaseAssumption
    <3>5. k.arena.byte[b - Base + o] = h.byte[(b - Base + o) + a - b]
      BY <2>5, <2>6, <3>3, <3>4
    <3> QED
      BY <3>4, <3>5 DEF ByteAt
  <2>12. ASSUME NEW x, NEW y, Holds(h, x, y), x # a, NEW o \in 0 .. y - 1
         PROVE  ByteAt(k.arena, x, o) = ByteAt(h, x, o)
    <3>1. x - Base + o \in Offset /\ Base + (x - Base + o) = x + o
      BY <2>12, InOffset
    <3>2. Holds(m.arena, x, y) /\ Holds(m.arena, b, n) /\ x # b
      BY <2>2, <2>3, <2>12 DEF Gains
    <3>3. x + y <= b \/ b + n <= x
      BY <1>4, <3>2, HoldsApart
    <3>4. x \in Nat /\ y \in Nat
      BY <2>12, HoldsFacts
    <3>5. x + o \notin b .. b + old - 1
      BY <1>2, <2>2, <3>3, <3>4 DEF old
    <3> QED
      BY <2>5, <2>6, <3>1, <3>5 DEF ByteAt
  <2>13. Resizes(h, k.arena, a, old, k.addr, n)
    BY <2>1, <2>9, <2>10, <2>11, <2>12 DEF Resizes
  <2> QED
    BY <2>2, <2>13 DEF a, old, k
<1> QED
  BY <1>6, <1>7

(* realloc of an address that is not NULL to a size that is not 0.          *)
LEMMA ReallocHolds ==
    ASSUME NEW h, WellFormed(h), NEW a \in Nat, a # NULL, NEW size \in Nat, size # 0
    PROVE  LET k == Realloc(h, a, size) IN
           \/ k.addr = NULL /\ SameHeld(h, k.arena) /\ k.arena.byte = h.byte
           \/ \E old, n \in Nat : /\ Holds(h, a, old) /\ n >= size
                                  /\ Resizes(h, k.arena, a, old, k.addr, n)
<1> DEFINE r == FindRecord(h, a)
           k == Realloc(h, a, size)
<1>1. CASE r = NoRecord \/ ~h.recs[r].live
  <2>1. k = Result(h, NULL)
    BY <1>1 DEF Realloc
  <2> QED
    BY <2>1, SameRecordsHeld DEF Result
<1>2. CASE ~(r = NoRecord \/ ~h.recs[r].live)
  <2>1. r \in LiveRecords(h) /\ h.recs[r].addr = a
    BY <1>2, FindRecordSound DEF WellFormed, LiveRecords
  <2> DEFINE cap  == h.recs[r].size
             need == AlignUp(size)
  <2>2. Holds(h, a, cap)
    BY <2>1 DEF Holds
  <2>3. cap \in Nat
    BY <2>2, HoldsFacts
  <2>4. need \in Nat /\ need >= size
    BY AlignUpRounds
  <2>5. \A m : Holds(h, a, m) => m = cap
    BY <2>2, HoldsOnce
  <2> HIDE DEF r
  <2>6. CASE size <= cap
    <3>1. k = Result(h, a)
      BY <1>2, <2>6 DEF Realloc, r
    <3>2. Resizes(h, h, a, cap, a, cap)
      BY <2>2, <2>5 DEF Resizes
    <3> QED
      BY <2>2, <2>3, <2>6, <3>1, <3>2 DEF Result
  <2>7. CASE ~(size <= cap)
    <3>1. k = Grow(h, r, size)
      BY <1>2, <2>7 DEF Realloc, r
    <3>2. CASE size > Reserve
      <4>1. k = Result(h, NULL)
        BY <3>1, <3>2 DEF Grow
      <4> QED
        BY <4>1, SameRecordsHeld DEF Result
    <3>3. CASE /\ ~(size > Reserve)
               /\ h.recs[r].addr - Base + cap = h.next
               /\ h.recs[r].addr - Base + need <= Reserve
      <4> DEFINE g == GrowLast(h, r, need)
      <4>1. k = Result(g, a)
        BY <2>1, <3>1, <3>3 DEF Grow
      <4>2. /\ \A b, m : Holds(g, b, m) <=> (Holds(h, b, m) /\ b # a) \/ (b = a /\ m = need)
            /\ g.byte = h.byte
        <5> HIDE DEF need
        <5> QED
          BY <2>1, <2>4, GrowLastHolds
      <4> HIDE DEF g, k, need, cap
      <4>3. Resizes(h, g, a, cap, a, need)
        BY <4>2 DEF Resizes, ByteAt
      <4> QED
        BY <2>2, <2>3, <2>4, <4>1, <4>3 DEF Result, k
    <3>4. CASE /\ ~(size > Reserve)
               /\ ~(/\ h.recs[r].addr - Base + cap = h.next
                    /\ h.recs[r].addr - Base + need <= Reserve)
      <4>1. k = Move(h, r, size)
        BY <3>1, <3>4 DEF Grow
      <4>2. size > cap
        BY <2>3, <2>7
      <4>3. \/ k.addr = NULL /\ SameHeld(h, k.arena) /\ k.arena.byte = h.byte
            \/ \E n \in Nat : n >= size /\ Resizes(h, k.arena, a, cap, k.addr, n)
        BY <2>1, <4>1, <4>2, MoveHolds
      <4> QED
        BY <2>2, <2>3, <4>3
    <3> QED
      BY <3>2, <3>3, <3>4
  <2> QED
    BY <2>6, <2>7
<1> QED
  BY <1>1, <1>2
=============================================================================
