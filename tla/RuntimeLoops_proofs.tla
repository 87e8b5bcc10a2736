------------------------ MODULE RuntimeLoops_proofs ------------------------
(* The machines that are one loop each: two of the raw heap runtime, and the  *)
(* dispatch of a switch.                                                      *)
(* The byte functions compute what C's functions compute, for memories of     *)
(* every size, every byte type, every chunk that an int can count and every   *)
(* legal call.  The invariant of each loop says what the memory is after the  *)
(* iterations done so far, in terms of the memory at the call.                *)
(* The search and the scan of the raw heap are exact, for tables of every     *)
(* length that satisfy the invariants of RuntimeHeap.  The search keeps what  *)
(* it excluded on both sides of lo and hi; the scan keeps the best of the     *)
(* slots it has seen, which is never an exact fit while it runs.              *)
(* The flat back end's switch dispatch goes to the right arm.  First the sort *)
(* and the recursion of the tree, which has a solution and is followed one    *)
(* node at a time; then the invariant of the search: the cases under the node *)
(* that is left hold every case that has the scrutinee's value, and the       *)
(* labels of its tables have the numbers that follow `first`.                 *)
EXTENDS RuntimeBytes, RuntimeSearch, SwitchSearch, RuntimeArena_proofs, Functions,
        WellFoundedInduction, FiniteSetTheorems, TLAPS

(* The bytes from `from` to `to` of the destination are done. *)
Filled(from, to) ==
    \A a \in Addr : mem[a] = IF call.dst + from <= a /\ a < call.dst + to
                             THEN call.value ELSE was[a]

Moved(from, to) ==
    \A a \in Addr : mem[a] = IF call.dst + from <= a /\ a < call.dst + to
                             THEN was[a + call.src - call.dst] ELSE was[a]

Disjoint == call.dst <= call.src \/ call.src + call.count <= call.dst

(* What the loop has done when its counter is i. *)
Progress ==
    /\ call.fn = "memset" => Filled(0, i)
    /\ call.fn \in {"memcpy", "memmove"} /\ ~Backward(call) /\ Disjoint => Moved(0, i)
    /\ Backward(call) => Moved(i, call.count)
    /\ call.fn \in {"memcmp", "memchr"} => mem = was
    /\ call.fn = "memcmp" => Same(i)
    /\ call.fn = "memchr" => Absent(i)

Inv ==
    /\ TypeOK
    /\ pc = "ready" => mem = was
    /\ pc = "running" => Progress
    /\ SetFills /\ CopiesOriginal /\ ComparesFirst /\ FindsFirst

-----------------------------------------------------------------------------
(* A call's arguments, typed and within the memory. *)
LEMMA CallFacts ==
    ASSUME TypeOK
    PROVE  /\ call.dst \in Nat /\ call.src \in Nat /\ call.count \in Nat
           /\ call.dst >= 1 /\ call.src >= 1
           /\ call.dst + call.count - 1 <= Size /\ call.src + call.count - 1 <= Size
           /\ call.value \in Bytes /\ call.fn \in Functions
           /\ i \in Nat /\ i <= call.count
           /\ \A k \in 0 .. call.count - 1 :
                  call.dst + k \in Addr /\ call.src + k \in Addr
  BY SizeAssumption DEF TypeOK, Legal, Owned, Calls, Addr

LEMMA EnterKeeps == ASSUME Inv, Enter PROVE Inv'
<1>1. /\ pc' = "running" /\ pc = "ready" /\ mem = was
      /\ call' = call /\ mem' = mem /\ was' = was /\ ret' = ret
      /\ i' = IF Backward(call) THEN call.count ELSE 0
  BY DEF Enter, Inv
<1>2. TypeOK'
  BY <1>1, CallFacts DEF Inv, TypeOK
<1>3. Filled(0, 0)' /\ Moved(0, 0)' /\ Same(0)' /\ Absent(0)'
  <2>1. \A a \in Addr : ~(call.dst + 0 <= a /\ a < call.dst + 0)
    BY CallFacts DEF Inv, Addr
  <2> QED
    BY <2>1, <1>1 DEF Filled, Moved, Same, Absent
<1>4. Moved(call.count, call.count)'
  <2>1. \A a \in Addr : ~(call.dst + call.count <= a /\ a < call.dst + call.count)
    BY CallFacts DEF Inv, Addr
  <2> QED
    BY <2>1, <1>1 DEF Moved
<1>5. Progress'
  <2>1. CASE Backward(call)
    <3>1. Backward(call)' /\ i' = call'.count /\ call.fn = "memmove"
      BY <2>1, <1>1 DEF Backward
    <3> QED
      BY <3>1, <1>1, <1>4 DEF Progress
  <2>2. CASE ~Backward(call)
    <3>1. ~Backward(call)' /\ i' = 0
      BY <2>2, <1>1 DEF Backward
    <3> QED
      BY <3>1, <1>1, <1>3 DEF Progress
  <2> QED
    BY <2>1, <2>2
<1> QED
  BY <1>1, <1>2, <1>5 DEF Inv, SetFills, CopiesOriginal, ComparesFirst, FindsFirst, Returned

LEMMA LeaveKeeps == ASSUME Inv, Leave PROVE Inv'
<1>1. /\ pc = "running" /\ pc' = "returned" /\ ~Loops /\ Progress /\ TypeOK
      /\ call' = call /\ mem' = mem /\ was' = was /\ i' = i
      /\ ret' = IF call.fn \in {"memcmp", "memchr"} THEN 0 ELSE call.dst
  BY DEF Leave, Returns, Inv
<1>2. TypeOK'
  <2>1. call.dst \in Nat /\ 1 <= call.dst /\ call.dst <= Size
    BY <1>1, SizeAssumption DEF TypeOK, Calls, Addr
  <2>2. ret' \in -1 .. Size
    BY <2>1, <1>1, SizeAssumption
  <2> QED
    BY <2>2, <1>1 DEF TypeOK
<1>3. IF Backward(call) THEN i = 0 ELSE i = call.count
  BY <1>1, CallFacts DEF Loops
<1>4. SetFills'
  BY <1>1, <1>3, CallFacts DEF SetFills, Returned, Within, Progress, Filled, Backward, TypeOK
<1>5. CopiesOriginal'
  BY <1>1, <1>3, CallFacts DEF CopiesOriginal, Returned, Within, Copied, Progress, Moved,
                               Disjoint, Backward, TypeOK
<1>6. ComparesFirst'
  BY <1>1, <1>3, CallFacts DEF ComparesFirst, Returned, Same, Progress, Backward
<1>7. FindsFirst'
  BY <1>1, <1>3, CallFacts DEF FindsFirst, Returned, Absent, Progress, Backward, Null
<1> QED
  BY <1>1, <1>2, <1>4, <1>5, <1>6, <1>7 DEF Inv

LEMMA SetChunkKeeps == ASSUME Inv, SetChunk PROVE Inv'
<1> DEFINE n == ChunkLength
<1>1. /\ pc = "running" /\ pc' = "running" /\ call.fn = "memset" /\ Loops
      /\ Progress /\ TypeOK
      /\ call' = call /\ was' = was /\ ret' = ret /\ i' = i + n
      /\ mem' = Memset8(call.dst + i, call.value, ToInt(n))
  BY DEF SetChunk, Inv
<1>2. ~Backward(call) /\ i < call.count
  BY <1>1 DEF Backward, Loops
<1>3. n \in Nat /\ i + n <= call.count /\ ToInt(n) = n
  BY <1>2, <1>1, CallFacts, ChunkAssumption DEF ChunkLength, ToInt
<1> HIDE DEF n
<1>4. mem' \in [Addr -> Bytes] /\ Filled(0, i)'
  <2>1. \A a \in Addr : mem'[a] = IF call.dst + i <= a /\ a < call.dst + i + n
                                  THEN call.value ELSE mem[a]
    BY <1>1, <1>3 DEF Memset8
  <2>2. \A a \in Addr : mem[a] = IF call.dst <= a /\ a < call.dst + i
                                 THEN call.value ELSE was[a]
    BY <1>1, CallFacts DEF Progress, Filled
  <2>3. mem' \in [Addr -> Bytes]
    BY <1>1, <1>3, CallFacts DEF Memset8, TypeOK
  <2>4. Filled(0, i)'
    BY <2>1, <2>2, <1>1, <1>3, CallFacts DEF Filled, Addr
  <2> QED
    BY <2>3, <2>4
<1>5. TypeOK'
  BY <1>1, <1>3, <1>4, CallFacts DEF TypeOK
<1> QED
  BY <1>1, <1>2, <1>4, <1>5
     DEF Inv, Progress, Backward, SetFills, CopiesOriginal, ComparesFirst, FindsFirst, Returned

(* One byte is copied: the range that is done grows by byte k.              *)
LEMMA CopyByteTypes ==
    ASSUME TypeOK, NEW k \in 0 .. call.count - 1, CopyByte(k)
    PROVE  /\ call.dst + k \in Addr /\ call.src + k \in Addr
           /\ mem' \in [Addr -> Bytes]
           /\ \A a \in Addr : mem'[a] = IF a = call.dst + k THEN mem[call.src + k]
                                         ELSE mem[a]
<1>1. call.dst + k \in Addr /\ call.src + k \in Addr
  BY CallFacts
<1> QED
  BY <1>1 DEF CopyByte, TypeOK

LEMMA CopyForwardKeeps == ASSUME Inv, CopyForward PROVE Inv'
<1>1. /\ pc = "running" /\ pc' = "running" /\ call.fn \in {"memcpy", "memmove"}
      /\ ~Backward(call) /\ Loops /\ Progress /\ TypeOK
      /\ call' = call /\ was' = was /\ ret' = ret /\ i' = i + 1 /\ CopyByte(i)
  BY DEF CopyForward, Inv
<1>2. i \in 0 .. call.count - 1
  BY <1>1, CallFacts DEF Loops
<1>3. /\ call.dst + i \in Addr /\ call.src + i \in Addr
      /\ mem' \in [Addr -> Bytes]
      /\ \A a \in Addr : mem'[a] = IF a = call.dst + i THEN mem[call.src + i] ELSE mem[a]
  BY <1>1, <1>2, CopyByteTypes
<1>4. TypeOK'
  BY <1>1, <1>2, <1>3, CallFacts DEF TypeOK
<1>5. ASSUME Disjoint PROVE Moved(0, i)'
  <2>1. Moved(0, i)
    BY <1>1, <1>5 DEF Progress
  <2>2. ~(call.dst <= call.src + i /\ call.src + i < call.dst + i)
    BY <1>1, <1>2, <1>5, CallFacts DEF Disjoint
  <2>3. mem[call.src + i] = was[call.src + i]
    BY <2>1, <2>2, <1>1, <1>3, CallFacts DEF Moved
  <2>4. ASSUME NEW a \in Addr
        PROVE  mem'[a] = IF call.dst + 0 <= a /\ a < call.dst + (i + 1)
                         THEN was[a + call.src - call.dst] ELSE was[a]
    <3>1. CASE a = call.dst + i
      <4>1. a + call.src - call.dst = call.src + i
        BY <3>1, <1>1, CallFacts
      <4>2. call.dst + 0 <= a /\ a < call.dst + (i + 1)
        BY <3>1, <1>1, CallFacts
      <4> QED
        BY <3>1, <4>1, <4>2, <1>3, <2>3
    <3>2. CASE a # call.dst + i
      <4>1. a \in Nat
        BY <2>4, SizeAssumption DEF Addr
      <4>2. (call.dst + 0 <= a /\ a < call.dst + (i + 1))
            <=> (call.dst + 0 <= a /\ a < call.dst + i)
        BY <3>2, <4>1, <1>1, CallFacts
      <4>3. mem'[a] = mem[a]
        BY <3>2, <1>3, <2>4
      <4> QED
        BY <4>2, <4>3, <2>1, <2>4 DEF Moved
    <3> QED
      BY <3>1, <3>2
  <2> QED
    BY <2>4, <1>1 DEF Moved
<1>6. Progress'
  BY <1>1, <1>5 DEF Progress, Backward, Disjoint
<1> QED
  BY <1>1, <1>4, <1>6
     DEF Inv, SetFills, CopiesOriginal, ComparesFirst, FindsFirst, Returned

LEMMA CopyBackwardKeeps == ASSUME Inv, CopyBackward PROVE Inv'
<1> DEFINE k == i - 1
<1>1. /\ pc = "running" /\ pc' = "running" /\ Backward(call)
      /\ Loops /\ Progress /\ TypeOK
      /\ call' = call /\ was' = was /\ ret' = ret /\ i' = k /\ CopyByte(k)
  BY DEF CopyBackward, Inv
<1>2. k \in 0 .. call.count - 1 /\ i = k + 1
  BY <1>1, CallFacts DEF Loops
<1> HIDE DEF k
<1>3. /\ call.dst + k \in Addr /\ call.src + k \in Addr
      /\ mem' \in [Addr -> Bytes]
      /\ \A a \in Addr : mem'[a] = IF a = call.dst + k THEN mem[call.src + k] ELSE mem[a]
  BY <1>1, <1>2, CopyByteTypes
<1>4. TypeOK'
  BY <1>1, <1>2, <1>3, CallFacts DEF TypeOK
<1>5. Moved(i, call.count)'
  <2>1. Moved(i, call.count)
    BY <1>1 DEF Progress
  <2>2. ~(call.dst + i <= call.src + k /\ call.src + k < call.dst + call.count)
    BY <1>1, <1>2, CallFacts DEF Backward
  <2>3. mem[call.src + k] = was[call.src + k]
    BY <2>1, <2>2, <1>3 DEF Moved
  <2>4. ASSUME NEW a \in Addr
        PROVE  mem'[a] = IF call.dst + k <= a /\ a < call.dst + call.count
                         THEN was[a + call.src - call.dst] ELSE was[a]
    <3>1. CASE a = call.dst + k
      <4>1. a + call.src - call.dst = call.src + k
        BY <3>1, <1>1, <1>2, CallFacts
      <4>2. call.dst + k <= a /\ a < call.dst + call.count
        BY <3>1, <1>1, <1>2, CallFacts
      <4> QED
        BY <3>1, <4>1, <4>2, <1>3, <2>3
    <3>2. CASE a # call.dst + k
      <4>1. a \in Nat
        BY <2>4, SizeAssumption DEF Addr
      <4>2. (call.dst + k <= a /\ a < call.dst + call.count)
            <=> (call.dst + i <= a /\ a < call.dst + call.count)
        BY <3>2, <4>1, <1>1, <1>2, CallFacts
      <4>3. mem'[a] = mem[a]
        BY <3>2, <1>3, <2>4
      <4> QED
        BY <4>2, <4>3, <2>1, <2>4 DEF Moved
    <3> QED
      BY <3>1, <3>2
  <2> QED
    BY <2>4, <1>1 DEF Moved
<1>6. Progress'
  BY <1>1, <1>5 DEF Progress, Backward
<1> QED
  BY <1>1, <1>4, <1>6
     DEF Inv, SetFills, CopiesOriginal, ComparesFirst, FindsFirst, Returned

(* One more index of which a fact holds below. *)
LEMMA OneMore ==
    ASSUME NEW n \in Nat, NEW k \in 0 .. n
    PROVE  k \in 0 .. n - 1 \/ k = n
  OBVIOUS

LEMMA CompareBytesKeeps == ASSUME Inv, CompareBytes PROVE Inv'
<1>1. /\ pc = "running" /\ call.fn = "memcmp" /\ Loops /\ ~Backward(call)
      /\ mem = was /\ Same(i) /\ TypeOK
      /\ call' = call /\ was' = was /\ mem' = mem
      /\ i < call.count
  BY DEF CompareBytes, Inv, Progress, Returns, Step, Backward, Loops
<1>2. Left \in Nat /\ Right \in Nat
  <2>1. call.dst + i \in Addr /\ call.src + i \in Addr
    BY <1>1, CallFacts
  <2> QED
    BY <2>1, <1>1, SizeAssumption DEF Left, Right, TypeOK
<1>3. i \in 0 .. call.count - 1
  BY <1>1, CallFacts
<1>4. CASE Step /\ Left = Right
  <2>1. TypeOK'
    BY <1>1, <1>3, <1>4, CallFacts DEF TypeOK, Step
  <2>2. ASSUME NEW k \in 0 .. i PROVE mem[call.dst + k] = mem[call.src + k]
    BY <2>2, <1>1, <1>4, CallFacts, OneMore DEF Same, Left, Right
  <2>3. 0 .. (i + 1) - 1 = 0 .. i
    BY <1>1, CallFacts
  <2>4. Same(i)'
    BY <2>2, <2>3, <1>1, <1>4 DEF Same, Step
  <2> QED
    BY <2>1, <2>4, <1>1, <1>4
       DEF Inv, Progress, Step, Backward, SetFills, CopiesOriginal, ComparesFirst,
           FindsFirst, Returned
<1>5. ASSUME NEW r \in {-1, 1}, Returns(r), r = -1 <=> Left < Right,
             r = 1 <=> Left > Right
      PROVE  Inv'
  <2>1. pc' = "returned" /\ ret' = r /\ i' = i
    BY <1>5 DEF Returns
  <2>2. TypeOK'
    BY <2>1, <1>1, <1>5, SizeAssumption DEF TypeOK, Calls, Addr
  <2>3. ~Same(call.count)'
    BY <1>1, <1>2, <1>3, <1>5 DEF Same, Left, Right
  <2>4. Same(i)'
    BY <1>1, <2>1 DEF Same
  <2>5. ComparesFirst'
    BY <2>1, <2>3, <2>4, <1>1, <1>3, <1>5 DEF ComparesFirst, Left, Right, Same
  <2> QED
    BY <2>1, <2>2, <2>5, <1>1
       DEF Inv, SetFills, CopiesOriginal, FindsFirst, Returned
<1>6. \/ Returns(-1) /\ Left < Right
      \/ Returns(1) /\ Left > Right
      \/ Step /\ Left = Right
  BY <1>2 DEF CompareBytes
<1> QED
  BY <1>2, <1>4, <1>5, <1>6

LEMMA FindByteKeeps == ASSUME Inv, FindByte PROVE Inv'
<1>1. /\ pc = "running" /\ call.fn = "memchr" /\ Loops /\ ~Backward(call)
      /\ mem = was /\ Absent(i) /\ TypeOK
      /\ call' = call /\ was' = was /\ mem' = mem
      /\ i < call.count
  BY DEF FindByte, Inv, Progress, Returns, Step, Backward, Loops
<1>2. i \in 0 .. call.count - 1
  BY <1>1, CallFacts
<1>3. CASE Right = call.value /\ Returns(call.src + i)
  <2>1. pc' = "returned" /\ ret' = call.src + i /\ i' = i
    BY <1>3 DEF Returns
  <2>2. call.src + i \in -1 .. Size
    BY <1>1, <1>2, CallFacts, SizeAssumption
  <2>3. TypeOK'
    BY <2>1, <2>2, <1>1 DEF TypeOK
  <2>4. Absent(i)'
    BY <1>1, <2>1 DEF Absent
  <2>5. FindsFirst'
    BY <2>1, <2>4, <1>1, <1>2, <1>3 DEF FindsFirst, Right, Absent
  <2> QED
    BY <2>1, <2>3, <2>5, <1>1
       DEF Inv, SetFills, CopiesOriginal, ComparesFirst, Returned
<1>4. CASE Right # call.value /\ Step
  <2>1. TypeOK'
    BY <1>1, <1>2, <1>4, CallFacts DEF TypeOK, Step
  <2>2. ASSUME NEW k \in 0 .. i PROVE mem[call.src + k] # call.value
    BY <2>2, <1>1, <1>4, CallFacts, OneMore DEF Absent, Right
  <2>3. 0 .. (i + 1) - 1 = 0 .. i
    BY <1>1, CallFacts
  <2>4. Absent(i)'
    BY <2>2, <2>3, <1>1, <1>4 DEF Absent, Step
  <2> QED
    BY <2>1, <2>4, <1>1, <1>4
       DEF Inv, Progress, Step, Backward, SetFills, CopiesOriginal, ComparesFirst,
           FindsFirst, Returned
<1> QED
  BY <1>3, <1>4 DEF FindByte

-----------------------------------------------------------------------------
LEMMA InvInitially == Init => Inv
<1> SUFFICES ASSUME Init PROVE Inv
  OBVIOUS
<1>1. call.count \in Nat
  BY SizeAssumption DEF Init, Calls
<1> QED
  BY <1>1, SizeAssumption
     DEF Init, Inv, TypeOK, Null, SetFills, CopiesOriginal, ComparesFirst, FindsFirst, Returned

LEMMA InvInductive == Inv /\ [Next]_vars => Inv'
<1> SUFFICES ASSUME Inv, [Next]_vars PROVE Inv'
  OBVIOUS
<1>1. CASE Enter
  BY <1>1, EnterKeeps
<1>2. CASE Leave
  BY <1>2, LeaveKeeps
<1>3. CASE SetChunk
  BY <1>3, SetChunkKeeps
<1>4. CASE CopyForward
  BY <1>4, CopyForwardKeeps
<1>5. CASE CopyBackward
  BY <1>5, CopyBackwardKeeps
<1>6. CASE CompareBytes
  BY <1>6, CompareBytesKeeps
<1>7. CASE FindByte
  BY <1>7, FindByteKeeps
<1>8. CASE UNCHANGED vars
  BY <1>8
     DEF vars, Inv, TypeOK, Progress, Backward, Legal, Disjoint, Filled, Moved, Same, Absent,
         SetFills, CopiesOriginal, Copied, ComparesFirst, FindsFirst, Returned, Within
<1> QED
  BY <1>1, <1>2, <1>3, <1>4, <1>5, <1>6, <1>7, <1>8 DEF Next

LEMMA InvHolds == Spec => []Inv
<1>1. QED
  BY InvInitially, InvInductive, PTL DEF Spec

(* The loops stay within the counts and the memory they were given. *)
THEOREM TypeCorrect == Spec => []TypeOK
<1>1. Inv => TypeOK
  BY DEF Inv
<1> QED
  BY <1>1, InvHolds, PTL

(* memset fills exactly its range, however the count splits into chunks that *)
(* an int can hold.                                                          *)
THEOREM SetCorrect == Spec => []SetFills
<1>1. Inv => SetFills
  BY DEF Inv
<1> QED
  BY <1>1, InvHolds, PTL

(* memmove copies the original bytes under every overlap, and memcpy does so *)
(* when the destination does not begin inside the source.                    *)
THEOREM CopyCorrect == Spec => []CopiesOriginal
<1>1. Inv => CopiesOriginal
  BY DEF Inv
<1> QED
  BY <1>1, InvHolds, PTL

(* memcmp is decided by the first difference, memchr finds the first         *)
(* occurrence.                                                               *)
THEOREM SearchCorrect == Spec => []StopsAtFirst
<1>1. Inv => StopsAtFirst
  BY DEF Inv, StopsAtFirst
<1> QED
  BY <1>1, InvHolds, PTL

-----------------------------------------------------------------------------
SizeOf(s) == recs[freeWas[s]].size

FitsAt(s) == Fits(SizeOf(s), arg)

(* Slot s is at least as good as slot t. *)
AsGood(s, t) == SizeOf(s) < SizeOf(t) \/ (SizeOf(s) = SizeOf(t) /\ s >= t)

(* Slot b is the best of the slots after the k-th. *)
BestAfter(b, k) ==
    /\ b \in DOMAIN freeWas /\ b > k /\ FitsAt(b)
    /\ \A s \in DOMAIN freeWas : s > k /\ FitsAt(s) => AsGood(b, s)

NoneAfter(k) == \A s \in DOMAIN freeWas : s > k => ~FitsAt(s)

TablesInv ==
    /\ SearchTypeOK
    /\ SortedRecs(Tables)
    /\ \A s \in DOMAIN freeWas : freeWas[s] \in DOMAIN recs
    /\ at # "returned" => free = freeWas

FindInv ==
    task = "find" /\ at # "returned" =>
        /\ lo <= hi
        /\ \A r \in DOMAIN recs : r <= lo => recs[r].addr < arg
        /\ \A r \in DOMAIN recs : r > hi => recs[r].addr >= arg

TakeInv ==
    task = "take" =>
        /\ best = -1 => bestSlot = -1
        /\ best >= 0 => bestSlot >= 0 /\ best + 1 = freeWas[bestSlot + 1]
        /\ at = "running" =>
               IF best = -1 THEN NoneAfter(slot + 1)
               ELSE BestAfter(bestSlot + 1, slot + 1) /\ SizeOf(bestSlot + 1) # arg
        /\ at = "done" => best >= 0 /\ BestAfter(bestSlot + 1, 0)
        /\ freeWas # <<>> /\ SizeOf(Len(freeWas)) = arg => slot = Len(freeWas) - 1

SearchInv == TablesInv /\ FindInv /\ TakeInv /\ FindsRecord /\ TakesBestFit

-----------------------------------------------------------------------------
LEMMA RecordFacts ==
    ASSUME SearchTypeOK, NEW r \in DOMAIN recs
    PROVE  recs[r].addr \in Nat /\ recs[r].size \in Nat
<1>1. recs[r] \in Rec
  BY DEF SearchTypeOK
<1> QED
  BY <1>1 DEF Rec

LEMMA SlotFacts ==
    ASSUME TablesInv, NEW s \in DOMAIN freeWas
    PROVE  /\ s \in 1 .. Len(freeWas) /\ freeWas[s] \in 1 .. Len(recs)
           /\ SizeOf(s) \in Nat /\ SizeOf(s) = SlotSize(Called, s)
<1>1. freeWas \in Seq(Nat) /\ recs \in Seq(Rec)
  BY DEF TablesInv, SearchTypeOK
<1>2. s \in 1 .. Len(freeWas) /\ freeWas[s] \in 1 .. Len(recs) /\ freeWas[s] \in DOMAIN recs
  BY <1>1 DEF TablesInv
<1>3. SizeOf(s) \in Nat
  BY <1>2, RecordFacts DEF TablesInv, SizeOf
<1> QED
  BY <1>2, <1>3 DEF SizeOf, SlotSize, Called

LEMMA SortedAddresses ==
    ASSUME TablesInv, NEW m \in DOMAIN recs, NEW n \in DOMAIN recs, m <= n
    PROVE  recs[m].addr <= recs[n].addr
<1>1. m \in Nat /\ n \in Nat
  <2>1. recs \in Seq(Rec)
    BY DEF TablesInv, SearchTypeOK
  <2> QED
    BY <2>1
<1>2. m < n => recs[m].addr + recs[m].size <= recs[n].addr
  BY DEF TablesInv, SortedRecs, Tables, BlockEnd
<1>3. recs[m].addr \in Nat /\ recs[n].addr \in Nat /\ recs[m].size \in Nat
  BY RecordFacts DEF TablesInv
<1> QED
  BY <1>1, <1>2, <1>3

(* A slot that is the best of all is the one take_free is specified to take. *)
LEMMA BestIsChosen ==
    ASSUME TablesInv, NEW b, BestAfter(b, 0)
    PROVE  BestSlot(Called, arg) = b /\ FittingSlots(Called, arg) # {}
<1> DEFINE best0(s) == \A t \in FittingSlots(Called, arg) :
                           \/ SlotSize(Called, s) < SlotSize(Called, t)
                           \/ SlotSize(Called, s) = SlotSize(Called, t) /\ s >= t
<1>1. \A s \in DOMAIN freeWas : s \in Nat /\ s > 0 /\ SizeOf(s) \in Nat
                            /\ SizeOf(s) = SlotSize(Called, s)
  BY SlotFacts
<1>2. FittingSlots(Called, arg) = {s \in DOMAIN freeWas : FitsAt(s)}
  BY <1>1 DEF FittingSlots, Called, FitsAt
<1>3. b \in FittingSlots(Called, arg) /\ best0(b)
  BY <1>1, <1>2 DEF BestAfter, AsGood
<1>4. ASSUME NEW s \in FittingSlots(Called, arg), best0(s) PROVE s = b
  BY <1>1, <1>2, <1>3, <1>4
<1> HIDE DEF best0
<1>5. (CHOOSE s \in FittingSlots(Called, arg) : best0(s)) = b
  BY <1>3, <1>4
<1> QED
  BY <1>3, <1>5 DEF BestSlot, best0

LEMMA NoneIsEmpty ==
    ASSUME TablesInv, NoneAfter(0)
    PROVE  FittingSlots(Called, arg) = {}
<1>1. \A s \in DOMAIN freeWas : s > 0 /\ SizeOf(s) = SlotSize(Called, s)
  BY SlotFacts
<1> QED
  BY <1>1 DEF FittingSlots, Called, NoneAfter, FitsAt

-----------------------------------------------------------------------------
LEMMA SearchInvInitially == SearchInit => SearchInv
<1> SUFFICES ASSUME SearchInit PROVE SearchInv
  OBVIOUS
<1>1. PICK r \in Seq(Rec), f \in Seq(Nat), t \in {"find", "take"}, a \in Nat :
          IsCall(r, f, t, a) /\ Starts(r, f, t, a)
  BY DEF SearchInit
<1>2. /\ recs \in Seq(Rec) /\ free \in Seq(DOMAIN recs) /\ freeWas = free
      /\ SortedRecs([recs |-> recs])
      /\ lo = 0 /\ hi = Len(recs) /\ slot = Len(freeWas) - 1
      /\ task \in {"find", "take"} /\ arg \in Nat /\ best = -1 /\ bestSlot = -1
      /\ found = -1 /\ at = "running"
  BY <1>1 DEF IsCall, Starts
<1>3. Len(recs) \in Nat /\ DOMAIN recs = 1 .. Len(recs)
  BY <1>2
<1>4. /\ freeWas \in Seq(Nat) /\ Len(freeWas) \in Nat /\ DOMAIN freeWas = 1 .. Len(freeWas)
      /\ \A s \in DOMAIN freeWas : freeWas[s] \in DOMAIN recs
  <2>1. freeWas \in Seq(1 .. Len(recs))
    BY <1>2, <1>3
  <2> QED
    BY <2>1, <1>3
<1>6. SearchTypeOK
  BY <1>2, <1>3, <1>4 DEF SearchTypeOK
<1>7. TablesInv
  BY <1>2, <1>4, <1>6 DEF TablesInv, SortedRecs, Tables
<1>8. FindInv
  BY <1>2, <1>3 DEF FindInv
<1>9. TakeInv
  BY <1>2, <1>4 DEF TakeInv, NoneAfter
<1> QED
  BY <1>2, <1>7, <1>8, <1>9 DEF SearchInv, FindsRecord, TakesBestFit, Answered

LEMMA ProbeKeeps == ASSUME SearchInv, Probe PROVE SearchInv'
<1>1. /\ at = "running" /\ task = "find" /\ lo < hi
      /\ recs' = recs /\ free' = free /\ freeWas' = freeWas /\ task' = task /\ arg' = arg
      /\ slot' = slot /\ best' = best /\ bestSlot' = bestSlot /\ found' = found /\ at' = at
  BY DEF Probe, tables, taking
<1>2. /\ SearchTypeOK /\ TablesInv
      /\ lo \in 0 .. Len(recs) /\ hi \in 0 .. Len(recs) /\ Len(recs) \in Nat
      /\ DOMAIN recs = 1 .. Len(recs) /\ arg \in Nat
  BY DEF SearchInv, TablesInv, SearchTypeOK
<1>3. Mid \in Nat /\ lo <= Mid /\ Mid < hi
  BY <1>1, <1>2 DEF Mid
<1>4. Mid + 1 \in DOMAIN recs
  BY <1>2, <1>3
<1>5. \A r \in DOMAIN recs : recs[r].addr \in Nat
  BY <1>2, RecordFacts
<1>6. /\ \A r \in DOMAIN recs : r <= lo => recs[r].addr < arg
      /\ \A r \in DOMAIN recs : r > hi => recs[r].addr >= arg
  BY <1>1 DEF SearchInv, FindInv
<1>7. CASE recs[Mid + 1].addr < arg
  <2>1. lo' = Mid + 1 /\ hi' = hi
    BY <1>7 DEF Probe
  <2>2. \A r \in DOMAIN recs : r <= Mid + 1 => recs[r].addr < arg
    BY <1>2, <1>4, <1>5, <1>7, SortedAddresses
  <2>3. FindInv'
    BY <2>1, <2>2, <1>1, <1>2, <1>3, <1>6 DEF FindInv
  <2>4. SearchTypeOK'
    BY <2>1, <1>1, <1>2, <1>3 DEF SearchTypeOK
  <2> QED
    BY <2>3, <2>4, <1>1, <1>2
       DEF SearchInv, TablesInv, Tables, TakeInv, FindsRecord, TakesBestFit, Answered
<1>8. CASE ~(recs[Mid + 1].addr < arg)
  <2>1. lo' = lo /\ hi' = Mid
    BY <1>8 DEF Probe
  <2>2. \A r \in DOMAIN recs : r > Mid => recs[r].addr >= arg
    <3> TAKE r \in DOMAIN recs
    <3> HAVE r > Mid
    <3>1. Mid + 1 <= r
      BY <1>2, <1>3
    <3>2. recs[Mid + 1].addr <= recs[r].addr
      BY <3>1, <1>2, <1>4, SortedAddresses
    <3> QED
      BY <3>2, <1>2, <1>4, <1>5, <1>8
  <2>3. FindInv'
    BY <2>1, <2>2, <1>1, <1>2, <1>3, <1>6 DEF FindInv
  <2>4. SearchTypeOK'
    BY <2>1, <1>1, <1>2, <1>3 DEF SearchTypeOK
  <2> QED
    BY <2>3, <2>4, <1>1, <1>2
       DEF SearchInv, TablesInv, Tables, TakeInv, FindsRecord, TakesBestFit, Answered
<1> QED
  BY <1>7, <1>8

(* Where the loop ends, so does the recursion of RuntimeArena's LowerBound. *)
LEMMA LoopEndsAtRecord ==
    ASSUME SearchTypeOK, \A r \in DOMAIN recs : r <= lo => recs[r].addr < arg,
           \A r \in DOMAIN recs : r > lo => recs[r].addr >= arg
    PROVE  FindRecord(Tables, arg) = (IF lo < Len(recs) /\ recs[lo + 1].addr = arg THEN lo ELSE -1) + 1
<1>1. /\ recs \in Seq(Rec) /\ arg \in Nat /\ lo \in 0 .. Len(recs) /\ Tables.recs = recs
      /\ \A r \in DOMAIN recs : r \in Nat /\ recs[r].addr \in Nat
  BY RecordFacts DEF SearchTypeOK, Tables
<1>2. \A r \in DOMAIN recs : recs[r].addr < arg <=> r <= lo
  BY <1>1
<1>3. LowerBound(Tables, arg) = lo
  <2>1. PICK h : h = Tables /\ h.recs = recs
    BY <1>1
  <2> QED
    BY <1>1, <1>2, <2>1, LowerBoundIs
<1>4. lo \in 0 .. Len(recs) - 1 <=> lo < Len(recs)
  BY <1>1
<1> QED
  BY <1>1, <1>3, <1>4 DEF FindRecord, NoRecord

LEMMA FoundKeeps == ASSUME SearchInv, Found PROVE SearchInv'
<1>1. /\ at = "running" /\ at' = "returned" /\ task = "find" /\ lo >= hi
      /\ recs' = recs /\ free' = free /\ freeWas' = freeWas /\ task' = task /\ arg' = arg
      /\ slot' = slot /\ best' = best /\ bestSlot' = bestSlot /\ lo' = lo /\ hi' = hi
      /\ found' = IF lo < Len(recs) /\ recs[lo + 1].addr = arg THEN lo ELSE -1
  BY DEF Found, tables, taking, finding
<1>2. /\ SearchTypeOK /\ TablesInv
      /\ lo \in 0 .. Len(recs) /\ hi \in 0 .. Len(recs) /\ Len(recs) \in Nat
      /\ DOMAIN recs = 1 .. Len(recs) /\ arg \in Nat
  BY DEF SearchInv, TablesInv, SearchTypeOK
<1>3. /\ lo = hi
      /\ \A r \in DOMAIN recs : r <= lo => recs[r].addr < arg
      /\ \A r \in DOMAIN recs : r > hi => recs[r].addr >= arg
  BY <1>1, <1>2 DEF SearchInv, FindInv
<1>4. \A r \in DOMAIN recs : recs[r].addr \in Nat
  BY <1>2, RecordFacts
<1>5. SearchTypeOK'
  <2>1. found' \in -1 .. Len(recs) - 1
    BY <1>1, <1>2
  <2> QED
    BY <2>1, <1>1, <1>2 DEF SearchTypeOK
<1>6. FindsRecord'
  <2>0. (found + 1 = FindRecord(Tables, arg))'
    BY <1>1, <1>2, <1>3, LoopEndsAtRecord DEF Tables
  <2>1. CASE lo < Len(recs) /\ recs[lo + 1].addr = arg
    BY <2>0, <2>1, <1>1, <1>2 DEF FindsRecord, Answered
  <2>2. CASE ~(lo < Len(recs) /\ recs[lo + 1].addr = arg)
    <3>1. ASSUME NEW r \in DOMAIN recs PROVE recs[r].addr # arg
      <4>1. CASE r <= lo
        BY <4>1, <1>2, <1>3, <1>4
      <4>2. CASE r > lo
        <5>1. lo + 1 \in DOMAIN recs /\ lo + 1 <= r /\ lo < Len(recs)
          BY <4>2, <1>2
        <5>2. recs[lo + 1].addr <= recs[r].addr /\ recs[lo + 1].addr >= arg
          BY <5>1, <1>2, <1>3, SortedAddresses
        <5> QED
          BY <5>1, <5>2, <2>2, <1>2, <1>4
      <4> QED
        BY <4>1, <4>2, <1>2
    <3>2. found' = -1
      BY <2>2, <1>1
    <3> QED
      BY <2>0, <3>1, <3>2, <1>1 DEF FindsRecord, Answered
  <2> QED
    BY <2>1, <2>2
<1> QED
  BY <1>1, <1>2, <1>5, <1>6
     DEF SearchInv, TablesInv, Tables, FindInv, TakeInv, TakesBestFit, Answered

(* While the scan runs, the slot it reads is a slot of the list it was given. *)
LEMMA ScanFacts ==
    ASSUME SearchInv, at = "running", task = "take", slot >= 0
    PROVE  /\ slot + 1 \in DOMAIN freeWas /\ slot \in Nat /\ slot < Len(freeWas)
           /\ Record + 1 = freeWas[slot + 1] /\ Record \in 0 .. Len(recs) - 1
           /\ Capacity = SizeOf(slot + 1) /\ Capacity \in Nat /\ arg \in Nat
           /\ Fits(Capacity, arg) <=> FitsAt(slot + 1)
<1>1. /\ TablesInv /\ SearchTypeOK /\ free = freeWas /\ freeWas \in Seq(Nat) /\ arg \in Nat
      /\ slot \in -1 .. Len(freeWas) - 1 /\ Len(freeWas) \in Nat
  BY DEF SearchInv, TablesInv, SearchTypeOK
<1>2. slot + 1 \in DOMAIN freeWas /\ slot \in Nat /\ slot < Len(freeWas)
  BY <1>1
<1>3. freeWas[slot + 1] \in 1 .. Len(recs) /\ SizeOf(slot + 1) \in Nat
  BY <1>1, <1>2, SlotFacts
<1>4. Record = freeWas[slot + 1] - 1
  BY <1>1 DEF Record
<1>5. Record + 1 = freeWas[slot + 1] /\ Record \in 0 .. Len(recs) - 1
  BY <1>3, <1>4
<1>6. Capacity = SizeOf(slot + 1)
  BY <1>5 DEF Capacity, SizeOf
<1> QED
  BY <1>1, <1>2, <1>3, <1>5, <1>6 DEF FitsAt

(* The best slot seen so far. *)
LEMMA BestFacts ==
    ASSUME SearchInv, task = "take", best >= 0
    PROVE  /\ bestSlot + 1 \in DOMAIN freeWas /\ best + 1 = freeWas[bestSlot + 1]
           /\ recs[best + 1].size = SizeOf(bestSlot + 1) /\ SizeOf(bestSlot + 1) \in Nat
<1>1. /\ TablesInv /\ freeWas \in Seq(Nat) /\ Len(freeWas) \in Nat
      /\ bestSlot \in -1 .. Len(freeWas) - 1
  BY DEF SearchInv, TablesInv, SearchTypeOK
<1>2. bestSlot >= 0 /\ best + 1 = freeWas[bestSlot + 1]
  BY DEF SearchInv, TakeInv
<1>3. bestSlot + 1 \in DOMAIN freeWas
  BY <1>1, <1>2
<1> QED
  BY <1>1, <1>2, <1>3, SlotFacts DEF SizeOf

LEMMA ScanKeeps == ASSUME SearchInv, Scan PROVE SearchInv'
<1>1. /\ at = "running" /\ task = "take" /\ slot >= 0
      /\ recs' = recs /\ free' = free /\ freeWas' = freeWas /\ task' = task /\ arg' = arg
      /\ lo' = lo /\ hi' = hi /\ found' = found
  BY DEF Scan, tables, finding
<1>2. /\ slot + 1 \in DOMAIN freeWas /\ slot \in Nat /\ slot < Len(freeWas)
      /\ Record + 1 = freeWas[slot + 1] /\ Record \in 0 .. Len(recs) - 1
      /\ Capacity = SizeOf(slot + 1) /\ Capacity \in Nat /\ arg \in Nat
      /\ Fits(Capacity, arg) <=> FitsAt(slot + 1)
  BY <1>1, ScanFacts
<1>3. /\ SearchTypeOK /\ TablesInv /\ TakeInv /\ freeWas \in Seq(Nat)
      /\ best \in -1 .. Len(recs) - 1 /\ bestSlot \in -1 .. Len(freeWas) - 1
      /\ \A s \in DOMAIN freeWas : s \in Nat /\ SizeOf(s) \in Nat
      /\ Len(freeWas) \in Nat /\ at # "returned"
  BY <1>1, SlotFacts DEF SearchInv, TablesInv, SearchTypeOK
<1>4. \A s : /\ SizeOf(s)' = SizeOf(s)
             /\ FitsAt(s)' = FitsAt(s)
             /\ \A t : AsGood(s, t)' = AsGood(s, t)
  BY <1>1 DEF SizeOf, FitsAt, AsGood
<1>5. CASE FitsAt(slot + 1) /\ Capacity = arg
  <2>1. Better
    BY <1>1, <1>2, <1>3, <1>5, BestFacts
       DEF Better, TakeInv, BestAfter, FitsAt, Fits
  <2>2. best' = Record /\ bestSlot' = slot /\ slot' = slot /\ at' = "done"
    BY <1>2, <1>5, <2>1 DEF Scan
  <2>3. SearchTypeOK'
    BY <2>2, <1>1, <1>2, <1>3 DEF SearchTypeOK
  <2>4. BestAfter(bestSlot + 1, 0)'
    <3>1. ASSUME NEW s \in DOMAIN freeWas, FitsAt(s) PROVE AsGood(slot + 1, s)
      <4>1. SizeOf(s) \in Nat /\ s \in Nat /\ SizeOf(s) >= arg
        BY <3>1, <1>3 DEF FitsAt, Fits
      <4>2. SizeOf(slot + 1) = arg
        BY <1>2, <1>5
      <4>3. CASE SizeOf(s) > arg
        BY <4>1, <4>2, <4>3 DEF AsGood
      <4>4. CASE SizeOf(s) = arg
        <5>1. slot + 1 >= s
          <6> SUFFICES ASSUME s > slot + 1 PROVE FALSE
            BY <4>1, <1>2
          <6>1. CASE best = -1
            BY <6>1, <3>1, <1>1, <1>3 DEF TakeInv, NoneAfter
          <6>2. CASE best # -1
            <7>1. /\ best >= 0 /\ bestSlot + 1 \in DOMAIN freeWas
                  /\ SizeOf(bestSlot + 1) # arg /\ FitsAt(bestSlot + 1)
                  /\ AsGood(bestSlot + 1, s)
              BY <6>2, <3>1, <1>1, <1>3 DEF TakeInv, BestAfter
            <7>2. SizeOf(bestSlot + 1) \in Nat /\ SizeOf(bestSlot + 1) >= arg
              BY <7>1, <1>3 DEF FitsAt, Fits
            <7> QED
              BY <7>1, <7>2, <4>4, <1>2 DEF AsGood
          <6> QED
            BY <6>1, <6>2
        <5> QED
          BY <5>1, <4>2, <4>4 DEF AsGood
      <4> QED
        BY <4>1, <4>3, <4>4, <1>2
    <3> QED
      BY <3>1, <2>2, <1>1, <1>2, <1>4, <1>5 DEF BestAfter
  <2>5. TakeInv'
    BY <2>2, <2>4, <1>1, <1>2, <1>3, <1>4 DEF TakeInv
  <2> QED
    BY <2>2, <2>3, <2>5, <1>1, <1>3
       DEF SearchInv, TablesInv, Tables, FindInv, FindsRecord, TakesBestFit, Answered
<1>6. CASE ~(FitsAt(slot + 1) /\ Capacity = arg)
  <2>1. slot' = slot - 1 /\ at' = "running" /\ slot' + 1 = slot
    BY <1>1, <1>2, <1>6 DEF Scan
  <2>2. \A s \in DOMAIN freeWas : s > slot => s = slot + 1 \/ s > slot + 1
    BY <1>2, <1>3
  <2>3. freeWas # <<>> /\ SizeOf(Len(freeWas)) = arg => FALSE
    <3> SUFFICES ASSUME freeWas # <<>>, SizeOf(Len(freeWas)) = arg PROVE FALSE
      OBVIOUS
    <3>1. slot = Len(freeWas) - 1
      BY <1>1, <1>3 DEF TakeInv
    <3>2. SizeOf(slot + 1) = arg
      BY <3>1, <1>3
    <3> QED
      BY <3>2, <1>2, <1>6 DEF FitsAt, Fits
  <2>4. CASE FitsAt(slot + 1) /\ Better
    <3>1. best' = Record /\ bestSlot' = slot
      BY <2>4, <1>2 DEF Scan
    <3>2. SizeOf(slot + 1) # arg
      BY <2>4, <1>2, <1>6
    <3>3. ASSUME NEW s \in DOMAIN freeWas, s > slot, FitsAt(s) PROVE AsGood(slot + 1, s)
      <4>1. CASE s = slot + 1
        BY <4>1, <1>2 DEF AsGood
      <4>2. CASE s > slot + 1
        <5>1. best # -1
          BY <4>2, <3>3, <1>1, <1>3 DEF TakeInv, NoneAfter
        <5>2. AsGood(bestSlot + 1, s) /\ best >= 0
          BY <5>1, <4>2, <3>3, <1>1, <1>3 DEF TakeInv, BestAfter
        <5>3. /\ recs[best + 1].size = SizeOf(bestSlot + 1)
              /\ SizeOf(bestSlot + 1) \in Nat
          BY <5>2, <1>1, BestFacts
        <5>4. SizeOf(slot + 1) < SizeOf(bestSlot + 1)
          BY <5>2, <5>3, <2>4, <1>2, <1>3 DEF Better
        <5>5. SizeOf(s) \in Nat /\ SizeOf(slot + 1) \in Nat
          BY <3>3, <1>2, <1>3
        <5> QED
          BY <5>2, <5>3, <5>4, <5>5 DEF AsGood
      <4> QED
        BY <4>1, <4>2, <2>2, <3>3
    <3>4. BestAfter(bestSlot + 1, slot + 1)' /\ (SizeOf(bestSlot + 1) # arg)'
      BY <3>1, <3>2, <3>3, <2>1, <2>4, <1>1, <1>2, <1>4 DEF BestAfter
    <3>5. SearchTypeOK'
      BY <3>1, <2>1, <1>1, <1>2, <1>3 DEF SearchTypeOK
    <3>6. TakeInv'
      BY <3>1, <3>4, <2>1, <2>3, <1>1, <1>2, <1>4 DEF TakeInv
    <3> QED
      BY <2>1, <3>5, <3>6, <1>1, <1>3
         DEF SearchInv, TablesInv, Tables, FindInv, FindsRecord, TakesBestFit, Answered
  <2>5. CASE ~(FitsAt(slot + 1) /\ Better)
    <3>1. best' = best /\ bestSlot' = bestSlot
      BY <2>5, <1>2 DEF Scan
    <3>2. ASSUME best = -1 PROVE TakeInv'
      <4>1. ~FitsAt(slot + 1)
        BY <2>5, <3>2 DEF Better
      <4>2. NoneAfter(slot + 1)'
        <5>1. \A s \in DOMAIN freeWas : s > slot + 1 => ~FitsAt(s)
          BY <3>2, <1>1, <1>3 DEF TakeInv, NoneAfter
        <5>2. \A s \in DOMAIN freeWas : s > slot => ~FitsAt(s)
          BY <5>1, <4>1, <2>2
        <5> QED
          BY <5>2, <2>1, <1>1, <1>4 DEF NoneAfter
      <4> QED
        BY <4>2, <3>1, <3>2, <2>1, <2>3, <1>1, <1>3, <1>4 DEF TakeInv
    <3>3. ASSUME best # -1 PROVE TakeInv'
      <4>1. /\ best >= 0 /\ BestAfter(bestSlot + 1, slot + 1)
            /\ SizeOf(bestSlot + 1) # arg
        BY <3>3, <1>1, <1>3 DEF TakeInv
      <4>2. /\ recs[best + 1].size = SizeOf(bestSlot + 1)
            /\ SizeOf(bestSlot + 1) \in Nat /\ bestSlot + 1 > slot + 1
        BY <4>1, <1>1, BestFacts DEF BestAfter
      <4>3. FitsAt(slot + 1) => AsGood(bestSlot + 1, slot + 1)
        <5> SUFFICES ASSUME FitsAt(slot + 1) PROVE AsGood(bestSlot + 1, slot + 1)
          OBVIOUS
        <5>1. SizeOf(bestSlot + 1) <= SizeOf(slot + 1)
          BY <2>5, <4>1, <4>2, <1>2 DEF Better
        <5> QED
          BY <5>1, <4>2, <1>2, <1>3 DEF AsGood
      <4>4. \A s \in DOMAIN freeWas : s > slot /\ FitsAt(s) => AsGood(bestSlot + 1, s)
        BY <4>1, <4>3, <2>2 DEF BestAfter
      <4>5. BestAfter(bestSlot + 1, slot + 1)'
        <5>1. bestSlot + 1 > slot
          BY <4>2, <1>2, <1>3
        <5>2. bestSlot + 1 \in DOMAIN freeWas /\ FitsAt(bestSlot + 1)
          BY <4>1 DEF BestAfter
        <5> QED
          BY <5>1, <5>2, <4>4, <3>1, <2>1, <1>1, <1>4 DEF BestAfter
      <4> QED
        <5>1. best' >= 0 /\ best' # -1 /\ bestSlot' >= 0 /\ best' + 1 = freeWas'[bestSlot' + 1]
          BY <4>1, <3>1, <1>1, <1>3 DEF TakeInv
        <5>2. (SizeOf(bestSlot + 1) # arg)'
          BY <4>1, <3>1, <1>1, <1>4
        <5>3. (freeWas # <<>> /\ SizeOf(Len(freeWas)) = arg => slot = Len(freeWas) - 1)'
          BY <2>3, <1>1, <1>4
        <5> QED
          BY <5>1, <5>2, <5>3, <4>5, <2>1 DEF TakeInv
    <3>4. SearchTypeOK'
      BY <3>1, <2>1, <1>1, <1>2, <1>3 DEF SearchTypeOK
    <3> QED
      BY <3>2, <3>3, <3>4, <2>1, <1>1, <1>3
         DEF SearchInv, TablesInv, Tables, FindInv, FindsRecord, TakesBestFit, Answered
  <2> QED
    BY <2>4, <2>5
<1> QED
  BY <1>5, <1>6

LEMMA TakenKeeps == ASSUME SearchInv, Taken PROVE SearchInv'
<1>1. /\ task = "take"
      /\ at = "done" \/ (at = "running" /\ slot < 0)
      /\ recs' = recs /\ freeWas' = freeWas /\ task' = task /\ arg' = arg
      /\ lo' = lo /\ hi' = hi /\ slot' = slot /\ best' = best /\ bestSlot' = bestSlot
      /\ found' = best /\ at' = "returned"
      /\ free' = IF best >= 0 THEN WithoutSlot(free, bestSlot + 1) ELSE free
  BY DEF Taken, finding, taking
<1>2. /\ SearchTypeOK /\ TablesInv /\ TakeInv /\ free = freeWas /\ freeWas \in Seq(Nat)
      /\ best \in -1 .. Len(recs) - 1 /\ bestSlot \in -1 .. Len(freeWas) - 1
      /\ slot \in -1 .. Len(freeWas) - 1 /\ Len(freeWas) \in Nat
  BY <1>1 DEF SearchInv, TablesInv, SearchTypeOK
<1>3. CASE best = -1
  <2>1. NoneAfter(0)
    <3>1. slot + 1 = 0
      BY <1>1, <1>2, <1>3 DEF TakeInv
    <3> QED
      BY <3>1, <1>1, <1>2, <1>3 DEF TakeInv
  <2>2. FittingSlots(Called, arg) = {}
    BY <2>1, <1>2, NoneIsEmpty
  <2>3. free' = freeWas /\ found' = -1
    BY <1>1, <1>2, <1>3
  <2>4. TakesBestFit'
    BY <2>2, <2>3, <1>1 DEF TakesBestFit, Called
  <2>5. SearchTypeOK'
    BY <2>3, <1>1, <1>2 DEF SearchTypeOK
  <2> QED
    BY <2>4, <2>5, <1>1, <1>2, <1>3
       DEF SearchInv, TablesInv, Tables, FindInv, TakeInv, FindsRecord, Answered, SizeOf
<1>4. CASE best # -1
  <2>1. best >= 0
    BY <1>2, <1>4
  <2>2. BestAfter(bestSlot + 1, 0)
    <3>1. CASE at = "done"
      BY <3>1, <1>1, <1>2 DEF TakeInv
    <3>2. CASE at = "running" /\ slot < 0
      <4>1. slot + 1 = 0
        BY <3>2, <1>2
      <4>2. BestAfter(bestSlot + 1, slot + 1)
        BY <3>2, <1>1, <1>2, <1>4 DEF TakeInv
      <4> QED
        BY <4>1, <4>2 DEF BestAfter
    <3> QED
      BY <3>1, <3>2, <1>1
  <2>3. BestSlot(Called, arg) = bestSlot + 1 /\ FittingSlots(Called, arg) # {}
    BY <2>2, <1>2, BestIsChosen
  <2>4. /\ found' = best /\ best + 1 = freeWas[bestSlot + 1] /\ bestSlot + 1 \in 1 .. Len(freeWas)
        /\ free' = WithoutSlot(freeWas, bestSlot + 1)
    <3>1. best + 1 = freeWas[bestSlot + 1] /\ bestSlot >= 0
      BY <2>1, <1>1, <1>2 DEF TakeInv
    <3>2. bestSlot + 1 \in 1 .. Len(freeWas)
      BY <3>1, <1>2
    <3> QED
      BY <3>1, <3>2, <2>1, <1>1, <1>2
  <2>5. Reuse(Called, bestSlot + 1).free = WithoutSlot(freeWas, bestSlot + 1)
    BY DEF Reuse, Called
  <2>6. TakesBestFit'
    BY <2>3, <2>4, <2>5, <1>1 DEF TakesBestFit, Called
  <2>7. free' \in Seq(Nat)
    <3>1. freeWas[Len(freeWas)] \in Nat /\ \A s \in 1 .. Len(freeWas) - 1 : freeWas[s] \in Nat
      BY <2>4, <1>2
    <3> QED
      BY <3>1, <2>4, <1>2 DEF WithoutSlot
  <2>8. SearchTypeOK'
    BY <2>4, <2>7, <1>1, <1>2 DEF SearchTypeOK
  <2>9. TakeInv'
    <3>1. \A s : SizeOf(s)' = SizeOf(s)
      BY <1>1 DEF SizeOf
    <3>2. freeWas # <<>> /\ SizeOf(Len(freeWas)) = arg => slot = Len(freeWas) - 1
      BY <1>1, <1>2 DEF TakeInv
    <3>3. best' >= 0 /\ best' # -1 /\ bestSlot' >= 0 /\ best' + 1 = freeWas'[bestSlot' + 1]
      BY <2>1, <2>4, <1>1, <1>2, <1>4
    <3> QED
      BY <3>1, <3>2, <3>3, <1>1 DEF TakeInv
  <2> QED
    <3>1. TablesInv'
      BY <2>8, <1>1, <1>2 DEF TablesInv, Tables, SortedRecs, BlockEnd
    <3>2. FindInv' /\ FindsRecord'
      BY <1>1 DEF FindInv, FindsRecord, Answered
    <3> QED
      BY <2>6, <2>9, <3>1, <3>2 DEF SearchInv
<1> QED
  BY <1>3, <1>4

-----------------------------------------------------------------------------
LEMMA SearchInvInductive == SearchInv /\ [SearchNext]_searchVars => SearchInv'
<1> SUFFICES ASSUME SearchInv, [SearchNext]_searchVars PROVE SearchInv'
  OBVIOUS
<1>1. CASE Probe
  BY <1>1, ProbeKeeps
<1>2. CASE Found
  BY <1>2, FoundKeeps
<1>3. CASE Scan
  BY <1>3, ScanKeeps
<1>4. CASE Taken
  BY <1>4, TakenKeeps
<1>5. CASE UNCHANGED searchVars
  BY <1>5 DEF searchVars, SearchInv, TablesInv, SearchTypeOK, Tables, FindInv, TakeInv, FindsRecord,
              TakesBestFit, Called, Answered, SizeOf, FitsAt, AsGood, BestAfter, NoneAfter
<1> QED
  BY <1>1, <1>2, <1>3, <1>4, <1>5 DEF SearchNext

LEMMA SearchInvHolds == SearchSpec => []SearchInv
<1>1. QED
  BY SearchInvInitially, SearchInvInductive, PTL DEF SearchSpec

(* The loop counters stay within the tables, whatever their length. *)
THEOREM SearchTypeCorrect == SearchSpec => []SearchTypeOK
<1>1. SearchInv => SearchTypeOK
  BY DEF SearchInv, TablesInv
<1> QED
  BY <1>1, SearchInvHolds, PTL

(* The binary search of find_record finds a block wherever it is, and says   *)
(* there is none only when there is none.                                    *)
THEOREM SearchExact == SearchSpec => []FindsRecord
<1>1. SearchInv => FindsRecord
  BY DEF SearchInv
<1> QED
  BY <1>1, SearchInvHolds, PTL

(* The scan of take_free takes the slot that RuntimeArena's BestSlot chooses *)
(* and leaves the free list that its Reuse leaves.                           *)
THEOREM ScanExact == SearchSpec => []TakesBestFit
<1>1. SearchInv => TakesBestFit
  BY DEF SearchInv
<1> QED
  BY <1>1, SearchInvHolds, PTL

(* When the newest freed block fits exactly the scan looks at no other slot. *)
THEOREM ExactFitIsConstantTime == SearchSpec => []PairIsConstantTime
<1>1. SearchInv => PairIsConstantTime
  <2> SUFFICES ASSUME SearchInv, Answered("take"), freeWas # <<>>, recs[freeWas[Len(freeWas)]].size = arg
               PROVE  slot = Len(freeWas) - 1
    BY DEF PairIsConstantTime
  <2> QED
    BY DEF SearchInv, TakeInv, Answered, SizeOf
<1> QED
  BY <1>1, SearchInvHolds, PTL

-----------------------------------------------------------------------------
(* The dispatch of a switch (SwitchSearch). *)

(* The integer types. *)
LEMMA TypeFacts ==
    ASSUME NEW t \in Types
    PROVE  /\ Modulus(t) \in Nat \ {0}
           /\ Lowest(t) \in Int /\ Lowest(t) <= 0
           /\ Highest(t) = Lowest(t) + Modulus(t) - 1
           /\ Highest("int") \in Nat /\ Highest(t) \in Int /\ Highest("int") <= Highest(t)
           /\ t \in {"uint", "uint64"} => Lowest(t) = 0
<1> DEFINE M == IntModulus
           L == LongModulus
<1>1. /\ M \in Nat \ {0} /\ L \in Nat /\ L > M
  BY DispatchAssumption
<1> HIDE DEF M, L
<1>2. /\ M \div 2 \in Nat /\ L \div 2 \in Nat /\ M \div 2 <= M - 1 /\ L \div 2 <= L - 1
      /\ M - (M \div 2) <= L - (L \div 2)
  BY <1>1
<1>3. /\ Lowest("int") = -(M \div 2) /\ Lowest("int64") = -(L \div 2)
      /\ Lowest("uint") = 0 /\ Lowest("uint64") = 0
      /\ Modulus("int") = M /\ Modulus("uint") = M /\ Modulus("int64") = L /\ Modulus("uint64") = L
  BY DEF Lowest, Modulus, M, L
<1>4. t = "int" \/ t = "uint" \/ t = "int64" \/ t = "uint64"
  BY DEF Types
<1> QED
  BY <1>1, <1>2, <1>3, <1>4 DEF Highest

LEMMA WrapFacts ==
    ASSUME NEW t \in Types, NEW n \in Int
    PROVE  /\ Wrap(n, t) \in Lowest(t) .. Highest(t)
           /\ n \in Lowest(t) .. Highest(t) => Wrap(n, t) = n
<1> DEFINE low == Lowest(t)
           M == Modulus(t)
<1>1. low \in Int /\ M \in Nat \ {0} /\ Highest(t) = low + M - 1
  BY TypeFacts
<1>2. Wrap(n, t) = low + ((n - low) % M)
  BY DEF Wrap
<1> HIDE DEF low, M
<1>3. (n - low) % M \in 0 .. M - 1
  BY <1>1
<1>4. n - low \in 0 .. M - 1 => (n - low) % M = n - low
  BY <1>1, SMT
<1> QED
  BY <1>1, <1>2, <1>3, <1>4 DEF low

-----------------------------------------------------------------------------
(* The sort: the ranks are the places, each once. *)
Before(keys, w, j) == keys[w] < keys[j] \/ (keys[w] = keys[j] /\ w <= j)

LEMMA RankFacts ==
    ASSUME NEW n \in Nat, NEW keys \in [1 .. n -> Int]
    PROVE  /\ \A w \in 1 .. n : Rank(keys, w) \in 1 .. n
           /\ \A w, j \in 1 .. n : w # j /\ Before(keys, w, j) => Rank(keys, w) < Rank(keys, j)
<1> DEFINE Low(w) == {j \in 1 .. n : keys[j] < keys[w] \/ (keys[j] = keys[w] /\ j <= w)}
<1>1. IsFiniteSet(1 .. n) /\ Cardinality(1 .. n) = n
  BY FS_Interval
<1>2. \A w \in 1 .. n : Rank(keys, w) = Cardinality(Low(w))
  BY DEF Rank
<1>3. \A w \in 1 .. n : Low(w) \subseteq 1 .. n /\ w \in Low(w)
  OBVIOUS
<1>4. ASSUME NEW w \in 1 .. n, NEW j \in 1 .. n, w # j, Before(keys, w, j)
      PROVE  Low(w) \subseteq Low(j) /\ j \notin Low(w)
  <2>1. keys[w] \in Int /\ keys[j] \in Int
    OBVIOUS
  <2> SUFFICES ASSUME NEW k \in Low(w) PROVE k \in Low(j) /\ k # j
    OBVIOUS
  <2>2. keys[k] \in Int
    OBVIOUS
  <2> QED
    BY <1>4, <2>1, <2>2 DEF Before
<1> HIDE DEF Low
<1>5. ASSUME NEW w \in 1 .. n
      PROVE  /\ IsFiniteSet(Low(w)) /\ Cardinality(Low(w)) \in 1 .. n
  <2>1. IsFiniteSet(Low(w)) /\ Cardinality(Low(w)) <= n
    BY <1>1, <1>3, FS_Subset
  <2>2. Cardinality(Low(w)) \in Nat /\ Cardinality(Low(w)) # 0
    BY <1>3, <2>1, FS_CardinalityType, FS_EmptySet
  <2> QED
    BY <2>1, <2>2
<1>6. ASSUME NEW w \in 1 .. n, NEW j \in 1 .. n, w # j, Before(keys, w, j)
      PROVE  Cardinality(Low(w)) < Cardinality(Low(j))
  <2>1. Low(w) \in SUBSET Low(j) /\ Low(w) # Low(j)
    BY <1>3, <1>4, <1>6
  <2>2. Cardinality(Low(w)) <= Cardinality(Low(j)) /\ Cardinality(Low(w)) # Cardinality(Low(j))
    BY <1>5, <2>1, FS_Subset
  <2> QED
    BY <1>5, <2>2
<1> QED
  BY <1>2, <1>5, <1>6

LEMMA RankOnto ==
    ASSUME NEW n \in Nat, NEW keys \in [1 .. n -> Int]
    PROVE  /\ \A k \in 1 .. n : \E w \in 1 .. n : Rank(keys, w) = k
           /\ \A w, j \in 1 .. n : Rank(keys, w) = Rank(keys, j) => w = j
<1> DEFINE r == [w \in 1 .. n |-> Rank(keys, w)]
<1>1. \A w, j \in 1 .. n : w # j => Before(keys, w, j) \/ Before(keys, j, w)
  BY DEF Before
<1>2. r \in [1 .. n -> 1 .. n] /\ \A w \in 1 .. n : r[w] = Rank(keys, w)
  BY RankFacts
<1>3. \A w, j \in 1 .. n : w # j => Rank(keys, w) # Rank(keys, j)
  <2> SUFFICES ASSUME NEW w \in 1 .. n, NEW j \in 1 .. n, w # j
               PROVE  Rank(keys, w) # Rank(keys, j)
    OBVIOUS
  <2>1. Rank(keys, w) \in 1 .. n /\ Rank(keys, j) \in 1 .. n
    BY RankFacts
  <2>2. Before(keys, w, j) => Rank(keys, w) < Rank(keys, j)
    BY RankFacts
  <2>3. Before(keys, j, w) => Rank(keys, j) < Rank(keys, w)
    BY RankFacts
  <2> QED
    BY <1>1, <2>1, <2>2, <2>3
<1> HIDE DEF r
<1>4. r \in Injection(1 .. n, 1 .. n)
  BY <1>2, <1>3 DEF Injection, IsInjective
<1>5. r \in Surjection(1 .. n, 1 .. n)
  BY <1>4, FS_Interval, FS_Injection
<1> QED
  BY <1>2, <1>3, <1>5 DEF Surjection

(* A switch that is not refused is sorted by its keys, and loses nothing. *)
Rising(s) == \A w, j \in DOMAIN s : w < j => s[w].key < s[j].key

LEMMA SortedFacts ==
    ASSUME NEW values \in Seq(Int), NEW t \in Types, Distinct(WithArms(values), t)
    PROVE  LET c == WithArms(values)
               s == Sorted(c, t)
           IN  /\ s \in Seq(KeyedCase) /\ Len(s) = Len(values) /\ Rising(s)
               /\ \A k \in DOMAIN s : \E w \in DOMAIN c : s[k] = [key |-> Key(c[w], t), arm |-> w]
               /\ \A w \in DOMAIN c : \E k \in DOMAIN s : s[k] = [key |-> Key(c[w], t), arm |-> w]
<1> DEFINE c == WithArms(values)
           n == Len(values)
           s == Sorted(c, t)
           keys == [w \in 1 .. n |-> Key(c[w], t)]
           At(k) == CHOOSE w \in 1 .. n : Rank(keys, w) = k
<1>1. n \in Nat /\ DOMAIN c = 1 .. n /\ \A w \in 1 .. n : c[w] = [value |-> values[w], arm |-> w] /\ values[w] \in Int
  BY DEF WithArms
<1> HIDE DEF c
<1>2. \A w \in 1 .. n : Key(c[w], t) \in Int /\ c[w].arm = w
  <2>1. ASSUME NEW w \in 1 .. n PROVE Key(c[w], t) \in Int
    <3>1. c[w].value \in Int
      BY <1>1
    <3> HIDE DEF n
    <3>2. Wrap(c[w].value, t) \in Lowest(t) .. Highest(t)
      BY <3>1, WrapFacts
    <3>3. Lowest(t) \in Int /\ Highest(t) \in Int
      BY TypeFacts
    <3> QED
      BY <3>2, <3>3 DEF Key
  <2> QED
    BY <1>1, <2>1
<1>3. s = [k \in 1 .. n |-> [key |-> keys[At(k)], arm |-> c[At(k)].arm]]
  <2> DEFINE ranks == [w \in 1 .. n |-> Rank(keys, w)]
             Of(k) == CHOOSE w \in 1 .. n : ranks[w] = k
  <2>1. s = [k \in 1 .. n |-> [key |-> keys[Of(k)], arm |-> c[Of(k)].arm]]
    <3> HIDE DEF n
    <3> QED
      BY <1>1 DEF Sorted
  <2>2. \A w \in 1 .. n : ranks[w] = Rank(keys, w)
    OBVIOUS
  <2> HIDE DEF n, keys, ranks
  <2>3. \A k : Of(k) = At(k)
    BY <2>2
  <2> HIDE DEF Of, At, s
  <2> QED
    BY <2>1, <2>3
<1>4. keys \in [1 .. n -> Int] /\ \A w \in 1 .. n : keys[w] = Key(c[w], t)
  BY <1>2
<1> HIDE DEF s, keys, n
<1>5. \A k \in 1 .. n : At(k) \in 1 .. n /\ Rank(keys, At(k)) = k
  BY <1>1, <1>4, RankOnto
<1>6. \A w \in 1 .. n : Rank(keys, w) \in 1 .. n /\ At(Rank(keys, w)) = w
  <2> TAKE w \in 1 .. n
  <2>1. Rank(keys, w) \in 1 .. n
    BY <1>1, <1>4, RankFacts
  <2> QED
    BY <1>1, <1>4, <1>5, <2>1, RankOnto
<1> HIDE DEF At
<1>7. \A k \in 1 .. n : s[k] = [key |-> Key(c[At(k)], t), arm |-> At(k)]
  BY <1>2, <1>3, <1>4, <1>5
<1>8. s \in Seq(KeyedCase) /\ Len(s) = n /\ DOMAIN s = 1 .. n
  <2>1. s \in [1 .. n -> KeyedCase]
    <3>1. ASSUME NEW k \in 1 .. n PROVE s[k] \in KeyedCase
      <4>1. At(k) \in 1 .. n /\ At(k) \in Int /\ Key(c[At(k)], t) \in Int
        BY <1>1, <1>2, <1>5
      <4>2. s[k] = [key |-> Key(c[At(k)], t), arm |-> At(k)]
        BY <1>7
      <4> HIDE DEF At
      <4>3. \A q, a \in Int : [key |-> q, arm |-> a] \in KeyedCase
        BY DEF KeyedCase
      <4> QED
        BY <4>1, <4>2, <4>3
    <3> QED
      BY <1>3, <3>1
  <2> QED
    BY <1>1, <2>1
<1>9. Rising(s)
  <2> SUFFICES ASSUME NEW k \in 1 .. n, NEW m \in 1 .. n, k < m PROVE s[k].key < s[m].key
    BY <1>8 DEF Rising
  <2> DEFINE w == At(k)
             j == At(m)
  <2>1. w \in 1 .. n /\ j \in 1 .. n /\ Rank(keys, w) = k /\ Rank(keys, j) = m
    BY <1>5
  <2> HIDE DEF w, j
  <2>2. ~(Before(keys, j, w) /\ w # j) /\ w # j
    <3>1. w # j
      BY <2>1, <1>1
    <3>2. j # w /\ Before(keys, j, w) => Rank(keys, j) < Rank(keys, w)
      BY <1>1, <1>4, <2>1, RankFacts
    <3>3. k \in Int /\ m \in Int
      BY <1>1
    <3> QED
      BY <2>1, <3>1, <3>2, <3>3
  <2>3. keys[w] # keys[j]
    <3>1. Distinct(c, t) /\ DOMAIN c = 1 .. n
      BY <1>1 DEF c
    <3> QED
      BY <1>4, <2>1, <2>2, <3>1 DEF Distinct
  <2>4. keys[w] < keys[j]
    BY <1>4, <2>1, <2>2, <2>3 DEF Before
  <2> QED
    <3>1. s[k] = [key |-> Key(c[w], t), arm |-> w] /\ s[m] = [key |-> Key(c[j], t), arm |-> j]
      BY <1>7 DEF w, j
    <3>2. s[k].key = Key(c[w], t) /\ s[m].key = Key(c[j], t)
      BY <3>1
    <3>3. Key(c[w], t) = keys[w] /\ Key(c[j], t) = keys[j]
      BY <1>4, <2>1
    <3> QED
      BY <2>4, <3>2, <3>3
<1> QED
  BY <1>1, <1>5, <1>6, <1>7, <1>8, <1>9 DEF s, c, n

-----------------------------------------------------------------------------
(* The recursion of Build, on slices that get shorter. *)
Slices == Seq(KeyedCase)

Half(s)      == Len(s) \div 2
LowerHalf(s) == SubSeq(s, 1, Half(s))
UpperHalf(s) == SubSeq(s, Half(s) + 1, Len(s))

BuildStep(build, s, d) ==
    IF Len(s) <= TestsMax THEN Tests(s)
    ELSE IF Dense(s) THEN Table(s, d)
    ELSE SplitNode(s[Half(s) + 1].key, build[LowerHalf(s)], build[UpperHalf(s)])

LEMMA HalfFacts ==
    ASSUME NEW s \in Slices, ~(Len(s) <= TestsMax)
    PROVE  /\ Half(s) \in 1 .. Len(s) - 1
           /\ LowerHalf(s) \in Slices /\ Len(LowerHalf(s)) = Half(s)
           /\ \A k \in 1 .. Half(s) : LowerHalf(s)[k] = s[k]
           /\ UpperHalf(s) \in Slices /\ Len(UpperHalf(s)) = Len(s) - Half(s)
           /\ \A k \in 1 .. Len(s) - Half(s) : UpperHalf(s)[k] = s[Half(s) + k]
           /\ Len(s) \in Nat /\ DOMAIN s = 1 .. Len(s)
<1>1. Len(s) \in Nat /\ Len(s) > 1
  BY DispatchAssumption DEF Slices
<1>2. Half(s) \in 1 .. Len(s) - 1
  BY <1>1 DEF Half
<1> DEFINE h == Half(s)
           n == Len(s)
<1>3. s \in Seq(KeyedCase) /\ DOMAIN s = 1 .. n /\ \A k \in 1 .. n : s[k] \in KeyedCase
  BY DEF Slices
<1>4. n \in Nat /\ n > 1 /\ h \in 1 .. n - 1
  BY <1>1, <1>2
<1>5. LowerHalf(s) = SubSeq(s, 1, h) /\ UpperHalf(s) = SubSeq(s, h + 1, n)
  BY DEF LowerHalf, UpperHalf
<1> HIDE DEF h, n
<1>6. /\ LowerHalf(s) = [k \in 1 .. h |-> s[k]]
  <2>1. LowerHalf(s) = [k \in 1 .. (h - 1) + 1 |-> s[(1 + k) - 1]]
    BY <1>3, <1>4, <1>5
  <2> QED
    BY <1>4, <2>1
<1>7. UpperHalf(s) = [k \in 1 .. n - h |-> s[h + k]]
  <2>1. UpperHalf(s) = [k \in 1 .. (n - (h + 1)) + 1 |-> s[((h + 1) + k) - 1]]
    BY <1>3, <1>4, <1>5
  <2> QED
    BY <1>4, <2>1
<1>9. LowerHalf(s) \in [1 .. h -> KeyedCase] /\ UpperHalf(s) \in [1 .. n - h -> KeyedCase]
  <2>1. \A k \in 1 .. h : s[k] \in KeyedCase
    BY <1>3, <1>4
  <2>2. \A k \in 1 .. n - h : s[h + k] \in KeyedCase
    BY <1>3, <1>4
  <2> QED
    BY <1>6, <1>7, <2>1, <2>2
<1>10. /\ LowerHalf(s) \in Slices /\ Len(LowerHalf(s)) = h
       /\ UpperHalf(s) \in Slices /\ Len(UpperHalf(s)) = n - h
  <2>1. h \in Nat /\ n - h \in Nat
    BY <1>4
  <2> QED
    BY <1>9, <2>1 DEF Slices
<1> QED
  BY <1>3, <1>4, <1>6, <1>7, <1>10 DEF h, n

(* What a step computes depends on the halves alone. *)
LEMMA StepLocal ==
    ASSUME NEW f, NEW g, NEW s \in Slices, NEW d,
           ~(Len(s) <= TestsMax) => f[LowerHalf(s)] = g[LowerHalf(s)] /\ f[UpperHalf(s)] = g[UpperHalf(s)]
    PROVE  BuildStep(f, s, d) = BuildStep(g, s, d)
BY DEF BuildStep

(* The trees of the slices up to a length. *)
Builds(g, n, d) == g = [s \in {t \in Slices : Len(t) <= n} |-> BuildStep(g, s, d)]

LEMMA BuildsAgree ==
    ASSUME NEW f, NEW g, NEW m \in Nat, NEW n \in Nat, NEW d, Builds(f, m, d), Builds(g, n, d),
           NEW s \in Slices, Len(s) <= m, Len(s) <= n
    PROVE  f[s] = g[s]
<1> DEFINE Wrong(t) == t \in Slices /\ Len(t) <= m /\ Len(t) <= n /\ f[t] # g[t]
           T == {k \in Nat : \E t \in Slices : Wrong(t) /\ Len(t) = k}
<1>1. SUFFICES ASSUME Wrong(s) PROVE FALSE
  OBVIOUS
<1>2. \A t \in Slices : Len(t) \in Nat
  BY DEF Slices
<1>3. T \subseteq Nat /\ T # {}
  BY <1>1, <1>2
<1>4. PICK k \in T : \A j \in T : k <= j
  <2> HIDE DEF T
  <2> QED
    BY <1>3, LeastNatural
<1>5. PICK t \in Slices : Wrong(t) /\ Len(t) = k
  BY <1>4
<1>6. f[t] = BuildStep(f, t, d) /\ g[t] = BuildStep(g, t, d)
  <2>1. t \in {u \in Slices : Len(u) <= m} /\ t \in {u \in Slices : Len(u) <= n}
    BY <1>5
  <2> QED
    BY <2>1 DEF Builds
<1>7. ASSUME ~(Len(t) <= TestsMax)
      PROVE  f[LowerHalf(t)] = g[LowerHalf(t)] /\ f[UpperHalf(t)] = g[UpperHalf(t)]
  <2>1. ASSUME NEW u \in Slices, Len(u) < Len(t) PROVE f[u] = g[u]
    <3>1. Len(u) \notin T /\ Len(u) \in Nat
      <4>1. Len(u) \in Nat /\ Len(t) \in Nat /\ k = Len(t)
        BY <1>2, <1>5
      <4> HIDE DEF T
      <4> QED
        BY <1>4, <2>1, <4>1
    <3>2. ~Wrong(u)
      <4> HIDE DEF Wrong
      <4> QED
        BY <3>1
    <3>3. Len(u) <= m /\ Len(u) <= n
      BY <1>2, <1>5, <2>1
    <3> QED
      BY <3>2, <3>3
  <2>2. Len(LowerHalf(t)) < Len(t) /\ Len(UpperHalf(t)) < Len(t) /\ LowerHalf(t) \in Slices /\ UpperHalf(t) \in Slices
    BY <1>7, HalfFacts
  <2> QED
    BY <2>1, <2>2
<1>8. BuildStep(f, t, d) = BuildStep(g, t, d)
  <2>1. ~(Len(t) <= TestsMax) => f[LowerHalf(t)] = g[LowerHalf(t)] /\ f[UpperHalf(t)] = g[UpperHalf(t)]
    BY <1>7
  <2> HIDE DEF T, Wrong
  <2> QED
    BY <2>1 DEF BuildStep
<1> QED
  BY <1>5, <1>6, <1>8

LEMMA BuildsExist ==
    ASSUME NEW d, NEW n \in Nat
    PROVE  \E g : Builds(g, n, d)
<1> DEFINE T == {k \in Nat : ~\E g : Builds(g, k, d)}
<1>1. SUFFICES ASSUME T # {} PROVE FALSE
  OBVIOUS
<1>2. PICK k \in T : \A j \in T : k <= j
  <2>1. T \subseteq Nat
    OBVIOUS
  <2> HIDE DEF T
  <2> QED
    BY <1>1, <2>1, LeastNatural
<1>3. PICK f : k > 0 => Builds(f, k - 1, d)
  <2>1. CASE k > 0
    <3>1. k - 1 \in Nat /\ k - 1 \notin T
      BY <1>2, <2>1
    <3>2. \E g : Builds(g, k - 1, d)
      BY <3>1
    <3> QED
      BY <3>2
  <2> QED
    BY <2>1
<1> DEFINE D == {t \in Slices : Len(t) <= k}
           g == [s \in D |-> BuildStep(f, s, d)]
<1>4. ASSUME NEW s \in D PROVE BuildStep(f, s, d) = BuildStep(g, s, d)
  <2>0. k \in Nat /\ s \in Slices /\ Len(s) <= k
    BY <1>2
  <2>1. ASSUME ~(Len(s) <= TestsMax)
        PROVE  f[LowerHalf(s)] = g[LowerHalf(s)] /\ f[UpperHalf(s)] = g[UpperHalf(s)]
    <3>1. /\ LowerHalf(s) \in Slices /\ UpperHalf(s) \in Slices
          /\ Len(LowerHalf(s)) <= k - 1 /\ Len(UpperHalf(s)) <= k - 1 /\ k > 0
      BY <2>0, <2>1, HalfFacts
    <3>2. ASSUME NEW u \in Slices, Len(u) <= k - 1 PROVE f[u] = g[u]
      <4>1. u \in {t \in Slices : Len(t) <= k - 1}
        BY <3>2
      <4>2. Builds(f, k - 1, d)
        BY <1>3, <3>1
      <4>3. f[u] = BuildStep(f, u, d)
        BY <4>1, <4>2 DEF Builds
      <4>4. u \in D
        BY <2>0, <3>2 DEF Slices
      <4> HIDE DEF D
      <4>5. g[u] = BuildStep(f, u, d)
        BY <4>4
      <4> QED
        BY <4>3, <4>5
    <3> HIDE DEF g
    <3> QED
      BY <3>1, <3>2
  <2> HIDE DEF g
  <2> QED
    BY <2>0, <2>1, StepLocal
<1>5. Builds(g, k, d)
  <2>1. g = [s \in D |-> BuildStep(g, s, d)]
    <3> DEFINE e == [s \in D |-> BuildStep(g, s, d)]
    <3>1. e = [s \in D |-> BuildStep(f, s, d)]
      <4> HIDE DEF g, D
      <4> QED
        BY <1>4
    <3> QED
      BY <3>1
  <2> HIDE DEF g
  <2> QED
    BY <2>1 DEF Builds
<1> QED
  BY <1>2, <1>5

(* So the definition of Build has a solution, and a slice's tree is made of  *)
(* those of its halves.                                                      *)
LEMMA BuildIs ==
    ASSUME NEW s \in Slices, NEW d
    PROVE  Build(s, d) = IF Len(s) <= TestsMax THEN Tests(s)
                         ELSE IF Dense(s) THEN Table(s, d)
                         ELSE SplitNode(s[Half(s) + 1].key, Build(LowerHalf(s), d), Build(UpperHalf(s), d))
<1> DEFINE Eq(b) == b = [t \in Slices |-> BuildStep(b, t, d)]
           build == CHOOSE b : Eq(b)
           upto(n) == CHOOSE g : Builds(g, n, d)
           all == [t \in Slices |-> upto(Len(t))[t]]
<1>1. \A t : Build(t, d) = build[t]
  BY DEF Build, BuildStep, Slices, Half, LowerHalf, UpperHalf
<1>2. \A n \in Nat : Builds(upto(n), n, d)
  BY BuildsExist
<1> HIDE DEF upto
<1>3. ASSUME NEW t \in Slices PROVE upto(Len(t))[t] = BuildStep(all, t, d)
  <2>1. Len(t) \in Nat
    BY DEF Slices
  <2>2. upto(Len(t))[t] = BuildStep(upto(Len(t)), t, d)
    <3>1. t \in {u \in Slices : Len(u) <= Len(t)}
      BY <2>1
    <3> QED
      BY <1>2, <2>1, <3>1 DEF Builds
  <2>3. ASSUME ~(Len(t) <= TestsMax)
        PROVE  /\ upto(Len(t))[LowerHalf(t)] = all[LowerHalf(t)]
               /\ upto(Len(t))[UpperHalf(t)] = all[UpperHalf(t)]
    <3>1. /\ LowerHalf(t) \in Slices /\ UpperHalf(t) \in Slices
          /\ Len(LowerHalf(t)) <= Len(t) /\ Len(UpperHalf(t)) <= Len(t)
      BY <2>3, HalfFacts
    <3>2. ASSUME NEW u \in Slices, Len(u) <= Len(t) PROVE upto(Len(t))[u] = all[u]
      <4>1. Len(u) \in Nat /\ Len(u) <= Len(u)
        BY DEF Slices
      <4>2. upto(Len(t))[u] = upto(Len(u))[u]
        BY <1>2, <2>1, <3>2, <4>1, BuildsAgree
      <4> QED
        BY <4>2
    <3> HIDE DEF all
    <3> QED
      BY <3>1, <3>2
  <2> HIDE DEF all
  <2>4. BuildStep(upto(Len(t)), t, d) = BuildStep(all, t, d)
    BY <2>3, StepLocal
  <2> QED
    BY <2>2, <2>4
<1>4. Eq(all)
  <2> DEFINE e == [t \in Slices |-> BuildStep(all, t, d)]
  <2>1. e = [t \in Slices |-> upto(Len(t))[t]]
    <3> HIDE DEF all
    <3> QED
      BY <1>3
  <2> QED
    BY <2>1
<1>5. Eq(build)
  <2> HIDE DEF Eq, all
  <2> QED
    BY <1>4
<1> HIDE DEF build, all
<1>6. build[s] = BuildStep(build, s, d)
  <2> HIDE DEF Slices
  <2> QED
    BY <1>5
<1> HIDE DEF Eq
<1> QED
  BY <1>1, <1>6 DEF BuildStep

-----------------------------------------------------------------------------
(* The labels of a tree's tables are at most SpanPerCase for a case. *)
LEMMA RisingHalves ==
    ASSUME NEW s \in Slices, ~(Len(s) <= TestsMax), Rising(s)
    PROVE  Rising(LowerHalf(s)) /\ Rising(UpperHalf(s))
<1>1. /\ DOMAIN s = 1 .. Len(s) /\ Half(s) \in 1 .. Len(s) - 1 /\ Len(s) \in Nat
      /\ DOMAIN LowerHalf(s) = 1 .. Half(s) /\ DOMAIN UpperHalf(s) = 1 .. Len(s) - Half(s)
      /\ \A k \in 1 .. Half(s) : LowerHalf(s)[k] = s[k]
      /\ \A k \in 1 .. Len(s) - Half(s) : UpperHalf(s)[k] = s[Half(s) + k]
  <2>1. \A u \in Slices : DOMAIN u = 1 .. Len(u)
    BY DEF Slices
  <2> QED
    BY <2>1, HalfFacts
<1>2. Rising(LowerHalf(s))
  BY <1>1 DEF Rising
<1>3. Rising(UpperHalf(s))
  <2> SUFFICES ASSUME NEW w \in 1 .. Len(s) - Half(s), NEW j \in 1 .. Len(s) - Half(s), w < j
               PROVE  s[Half(s) + w].key < s[Half(s) + j].key
    BY <1>1 DEF Rising
  <2>1. Half(s) + w \in DOMAIN s /\ Half(s) + j \in DOMAIN s /\ Half(s) + w < Half(s) + j
    BY <1>1
  <2> QED
    BY <2>1 DEF Rising
<1> QED
  BY <1>2, <1>3

LEMMA KeyFacts ==
    ASSUME NEW s \in Slices, NEW k \in DOMAIN s
    PROVE  s[k].key \in Int /\ s[k].arm \in Int /\ k \in 1 .. Len(s) /\ Len(s) \in Nat
<1>1. Len(s) \in Nat /\ k \in 1 .. Len(s) /\ s[k] \in KeyedCase
  BY DEF Slices
<1> QED
  BY <1>1 DEF KeyedCase

(* A table spans from the first key to the last. *)
LEMMA SpanFacts ==
    ASSUME NEW s \in Slices, Len(s) >= 1, Rising(s)
    PROVE  /\ LowKey(s) \in Int /\ HighKey(s) \in Int /\ LowKey(s) <= HighKey(s)
           /\ Span(s) = HighKey(s) - LowKey(s) + 1 /\ Span(s) \in Nat
           /\ \A k \in DOMAIN s : s[k].key \in LowKey(s) .. HighKey(s)
<1>1. DOMAIN s = 1 .. Len(s) /\ Len(s) \in Nat
  BY DEF Slices
<1>2. 1 \in DOMAIN s /\ Len(s) \in DOMAIN s
  BY <1>1
<1>3. LowKey(s) \in Int /\ HighKey(s) \in Int
  BY <1>2, KeyFacts DEF LowKey, HighKey
<1>4. \A k \in DOMAIN s : s[k].key \in LowKey(s) .. HighKey(s)
  <2> TAKE k \in DOMAIN s
  <2>1. s[k].key \in Int /\ k \in 1 .. Len(s)
    BY KeyFacts
  <2>2. 1 < k => LowKey(s) < s[k].key
    BY <1>2 DEF Rising, LowKey
  <2>3. k < Len(s) => s[k].key < HighKey(s)
    BY <1>2 DEF Rising, HighKey
  <2>4. k = 1 => s[k].key = LowKey(s)
    BY DEF LowKey
  <2>5. k = Len(s) => s[k].key = HighKey(s)
    BY DEF HighKey
  <2> QED
    BY <1>1, <1>3, <2>1, <2>2, <2>3, <2>4, <2>5
<1> QED
  BY <1>2, <1>3, <1>4 DEF Span

LEMMA ArmOfType ==
    ASSUME NEW s \in Slices, NEW key, NEW d \in Int
    PROVE  ArmOf(s, key, d) \in Int
<1>1. CASE \E w \in DOMAIN s : s[w].key = key
  BY <1>1, KeyFacts DEF ArmOf
<1>2. CASE ~\E w \in DOMAIN s : s[w].key = key
  BY <1>2 DEF ArmOf
<1> QED
  BY <1>1, <1>2

LEMMA TableLabelsAre ==
    ASSUME NEW s \in Slices, Len(s) >= 1, Rising(s), NEW d \in Int
    PROVE  /\ Table(s, d).labels \in Seq(Int) /\ Len(Table(s, d).labels) = Span(s)
           /\ \A w \in 1 .. Span(s) : Table(s, d).labels[w] = ArmOf(s, LowKey(s) + w - 1, d)
           /\ Table(s, d).low = LowKey(s) /\ Table(s, d).high = HighKey(s) /\ Table(s, d).kind = "table"
<1> DEFINE l == [w \in 1 .. Span(s) |-> ArmOf(s, LowKey(s) + w - 1, d)]
<1>1. Span(s) \in Nat
  BY SpanFacts
<1>2. Table(s, d) = [kind |-> "table", low |-> LowKey(s), high |-> HighKey(s), labels |-> l]
  BY DEF Table
<1>3. l \in [1 .. Span(s) -> Int]
  BY ArmOfType
<1>4. \A w \in 1 .. Span(s) : l[w] = ArmOf(s, LowKey(s) + w - 1, d)
  OBVIOUS
<1> HIDE DEF l
<1>5. l \in Seq(Int) /\ Len(l) = Span(s)
  BY <1>1, <1>3
<1> QED
  BY <1>2, <1>4, <1>5

LEMMA SplitIs ==
    ASSUME NEW s \in Slices, NEW d, ~(Len(s) <= TestsMax), ~Dense(s)
    PROVE  LET n == Build(s, d)
               a == Build(LowerHalf(s), d)
               b == Build(UpperHalf(s), d)
           IN  /\ n.kind = "split" /\ n.pivot = s[Half(s) + 1].key /\ n.below = a /\ n.above = b
               /\ n.labels = a.labels \o b.labels
<1>1. PICK n, a, b, p : /\ n = Build(s, d) /\ p = s[Half(s) + 1].key
                        /\ a = Build(LowerHalf(s), d) /\ b = Build(UpperHalf(s), d)
  OBVIOUS
<1>2. n = SplitNode(p, a, b)
  BY <1>1, BuildIs
<1>3. /\ n.kind = "split" /\ n.pivot = p /\ n.below = a /\ n.above = b
      /\ n.labels = a.labels \o b.labels
  <2>1. n = [kind |-> "split", pivot |-> p, below |-> a, above |-> b, labels |-> a.labels \o b.labels]
    BY <1>2 DEF SplitNode
  <2> QED
    BY <2>1
<1> QED
  BY <1>1, <1>3

LEMMA LabelCount ==
    ASSUME NEW s \in Slices, Rising(s), NEW d \in Int
    PROVE  Build(s, d).labels \in Seq(Int) /\ Len(Build(s, d).labels) <= SpanPerCase * Len(s)
<1> DEFINE Good(t) == Build(t, d).labels \in Seq(Int) /\ Len(Build(t, d).labels) <= SpanPerCase * Len(t)
           T == {k \in Nat : \E t \in Slices : Rising(t) /\ ~Good(t) /\ Len(t) = k}
<1>1. SUFFICES ASSUME ~Good(s) PROVE FALSE
  OBVIOUS
<1>2. \A t \in Slices : Len(t) \in Nat
  BY DEF Slices
<1>3. T \subseteq Nat /\ T # {}
  <2> HIDE DEF Good
  <2> QED
    BY <1>1, <1>2
<1>4. PICK k \in T : \A j \in T : k <= j
  <2> HIDE DEF T
  <2> QED
    BY <1>3, LeastNatural
<1>5. PICK t \in Slices : Rising(t) /\ ~Good(t) /\ Len(t) = k
  <2> HIDE DEF Good
  <2> QED
    BY <1>4
<1>6. ASSUME NEW u \in Slices, Rising(u), Len(u) < Len(t) PROVE Good(u)
  <2>1. Len(u) \in Nat /\ Len(t) \in Nat /\ k = Len(t)
    BY <1>2, <1>5
  <2>2. Len(u) \notin T
    <3> HIDE DEF T
    <3> QED
      BY <1>4, <1>6, <2>1
  <2> HIDE DEF Good
  <2> QED
    BY <1>6, <2>1, <2>2
<1>7. SpanPerCase \in Nat /\ TestsMax \in Nat /\ TestsMax >= 1 /\ Len(t) \in Nat
  BY <1>2, DispatchAssumption
<1> HIDE DEF T
<1>8. CASE Len(t) <= TestsMax
  <2>1. Build(t, d).labels = <<>>
    BY <1>8, BuildIs DEF Tests
  <2>2. SpanPerCase * Len(t) \in Nat
    BY <1>7
  <2> QED
    BY <1>5, <2>1, <2>2
<1>9. CASE ~(Len(t) <= TestsMax) /\ Dense(t)
  <2>1. Build(t, d) = Table(t, d)
    BY <1>9, BuildIs
  <2>2. Span(t) <= SpanPerCase * Len(t)
    BY <1>9 DEF Dense
  <2>3. Len(t) >= 1
    BY <1>7, <1>9
  <2> QED
    BY <1>5, <2>1, <2>2, <2>3, TableLabelsAre
<1>10. CASE ~(Len(t) <= TestsMax) /\ ~Dense(t)
  <2> DEFINE a == Build(LowerHalf(t), d)
             b == Build(UpperHalf(t), d)
             h == Half(t)
  <2>1. Build(t, d).labels = a.labels \o b.labels
    BY <1>10, SplitIs
  <2>2. /\ LowerHalf(t) \in Slices /\ UpperHalf(t) \in Slices /\ h \in 1 .. Len(t) - 1
        /\ Len(LowerHalf(t)) = h /\ Len(UpperHalf(t)) = Len(t) - h
    BY <1>10, HalfFacts
  <2>3. Rising(LowerHalf(t)) /\ Rising(UpperHalf(t))
    BY <1>5, <1>10, RisingHalves
  <2>4. Good(LowerHalf(t)) /\ Good(UpperHalf(t))
    <3> HIDE DEF Good, h
    <3> QED
      BY <1>6, <1>7, <2>2, <2>3
  <2>5. a.labels \in Seq(Int) /\ Len(a.labels) <= SpanPerCase * h
    BY <2>2, <2>4
  <2>6. b.labels \in Seq(Int) /\ Len(b.labels) <= SpanPerCase * (Len(t) - h)
    BY <2>2, <2>4
  <2> HIDE DEF a, b, h
  <2>7. SpanPerCase * h + SpanPerCase * (Len(t) - h) = SpanPerCase * Len(t)
    BY <1>7, <2>2, SMT
  <2>8. SpanPerCase * h \in Nat /\ SpanPerCase * (Len(t) - h) \in Nat
    BY <1>7, <2>2
  <2>9. Build(t, d).labels \in Seq(Int) /\ Len(Build(t, d).labels) = Len(a.labels) + Len(b.labels)
    BY <2>1, <2>5, <2>6
  <2>10. Len(a.labels) \in Nat /\ Len(b.labels) \in Nat
    BY <2>5, <2>6
  <2> DEFINE n == Len(a.labels)
             m == Len(b.labels)
             p == SpanPerCase * h
             q == SpanPerCase * (Len(t) - h)
             r == SpanPerCase * Len(t)
  <2>11. n \in Nat /\ m \in Nat /\ p \in Nat /\ q \in Nat /\ n <= p /\ m <= q /\ p + q = r
    BY <2>5, <2>6, <2>7, <2>8, <2>10
  <2>12. Len(Build(t, d).labels) = n + m
    BY <2>9
  <2> HIDE DEF n, m, p, q, r
  <2>13. Len(Build(t, d).labels) <= r
    BY <2>11, <2>12
  <2>14. Good(t)
    BY <2>9, <2>13 DEF r
  <2> QED
    BY <1>5, <2>14
<1> QED
  BY <1>8, <1>9, <1>10

(* The number of a value's label, when it is an int. *)
LEMMA TableNumberIs ==
    ASSUME NEW t \in Types, NEW table, table.low \in Int, NEW v \in Int, NEW base \in Nat,
           table.low <= v, base + (v - table.low) <= Highest("int")
    PROVE  TableNumber(table, base, v, t) = base + (v - table.low)
<1> DEFINE low == table.low
           o == v - low
<1>1. /\ low \in Int /\ o \in Nat /\ o <= Highest("int") /\ base + o <= Highest("int")
      /\ Highest("int") \in Nat
  BY TypeFacts
<1>2. /\ "int" \in Types /\ Lowest("int") \in Int /\ Lowest("int") <= 0
      /\ Lowest(t) \in Int /\ Lowest(t) <= 0 /\ Highest(t) \in Int /\ Highest("int") <= Highest(t)
  BY TypeFacts DEF Types
<1>3. o \in Lowest(t) .. Highest(t) /\ o \in Lowest("int") .. Highest("int")
      /\ base + o \in Lowest("int") .. Highest("int")
  <2> HIDE DEF low
  <2> QED
    BY <1>1, <1>2
<1>4. Wrap(o, t) = o /\ Wrap(o, "int") = o /\ Wrap(base + o, "int") = base + o
  <2> HIDE DEF o
  <2> QED
    BY <1>1, <1>2, <1>3, WrapFacts
<1>5. v + (base - low) = base + o /\ o + base = base + o
  <2> HIDE DEF low
  <2> QED
    BY <1>1
<1>6. TableNumber(table, base, v, t) =
        IF t = "int" /\ Wrap(base - low, "int") = base - low
        THEN Wrap(v + (base - low), "int")
        ELSE Wrap(Wrap(Wrap(o, t), "int") + base, "int")
  BY DEF TableNumber
<1> HIDE DEF low, o
<1>7. TableNumber(table, base, v, t) = base + o
  BY <1>4, <1>5, <1>6
<1> QED
  BY <1>7 DEF o, low

LEMMA NodeKinds ==
    ASSUME NEW s \in Slices, NEW d
    PROVE  /\ Build(s, d).kind = "tests" => Build(s, d) = Tests(s)
           /\ Build(s, d).kind = "table" => Build(s, d) = Table(s, d) /\ Len(s) >= 1
           /\ Build(s, d).kind = "split" => ~(Len(s) <= TestsMax) /\ ~Dense(s)
<1>1. Tests(s).kind = "tests" /\ Table(s, d).kind = "table"
  BY DEF Tests, Table
<1>2. Len(s) \in Nat /\ TestsMax \in Nat \ {0}
  BY DispatchAssumption DEF Slices
<1>3. CASE Len(s) <= TestsMax
  BY <1>1, <1>3, BuildIs
<1>4. CASE ~(Len(s) <= TestsMax) /\ Dense(s)
  BY <1>1, <1>2, <1>4, BuildIs
<1>5. CASE ~(Len(s) <= TestsMax) /\ ~Dense(s)
  BY <1>5, SplitIs
<1> QED
  BY <1>3, <1>4, <1>5

-----------------------------------------------------------------------------
(* The invariant: the cases under a node are cases of the switch, and those  *)
(* with the scrutinee's value are all among them; the labels of its tables   *)
(* have the numbers that follow `first`.                                     *)
Keyed(w) == [key |-> Key(cases[w], type), arm |-> w]

Covers(s) ==
    /\ \A k \in DOMAIN s : \E w \in DOMAIN cases : s[k] = Keyed(w)
    /\ \A w \in DOMAIN cases : Key(cases[w], type) = x => \E k \in DOMAIN s : s[k].key = x

Numbers(tree, f) ==
    /\ f \in Nat /\ f >= NextId /\ f - NextId + Len(tree.labels) <= Len(Root.labels)
    /\ \A j \in 1 .. Len(tree.labels) : Root.labels[f - NextId + j] = tree.labels[j]

Remains(n, f, s) ==
    \/ n = Tests(s)
    \/ Rising(s) /\ n = Build(s, Default) /\ Numbers(n, f)

Accepted == \E values \in Seq(Int) : IsSwitch(values, type) /\ cases = WithArms(values)

SwitchInv ==
    /\ type \in Types /\ x \in Lowest(type) .. Highest(type) /\ Accepted
    /\ arm = Searching => \E s \in Slices : Covers(s) /\ Remains(node, first, s)
    /\ GoesToItsArm

LEMMA CaseFacts ==
    ASSUME Accepted
    PROVE  \A w \in DOMAIN cases : w \in Nat /\ w >= 1
BY DEF Accepted, WithArms

(* Every label of the tree has a number that is an int. *)
LEMMA RootFacts ==
    ASSUME type \in Types, Accepted
    PROVE  \E s \in Slices : /\ Rising(s) /\ Root = Build(s, Default) /\ Covers(s)
                        /\ Root.labels \in Seq(Int) /\ NextId + Len(Root.labels) <= Highest("int")
<1>1. PICK values \in Seq(Int) : IsSwitch(values, type) /\ cases = WithArms(values)
  BY DEF Accepted
<1> DEFINE s == Sorted(WithArms(values), type)
<1>2. Distinct(WithArms(values), type) /\ NextId + SpanPerCase * Len(values) <= Highest("int")
  BY <1>1 DEF IsSwitch
<1>3. /\ s \in Slices /\ Len(s) = Len(values) /\ Rising(s)
      /\ \A k \in DOMAIN s : \E w \in DOMAIN cases : s[k] = Keyed(w)
      /\ \A w \in DOMAIN cases : \E k \in DOMAIN s : s[k] = Keyed(w)
  BY <1>1, <1>2, SortedFacts DEF Slices, Keyed
<1>4. Root = Build(s, Default)
  BY <1>1 DEF Root, Tree
<1> HIDE DEF s
<1>5. Root.labels \in Seq(Int) /\ Len(Root.labels) <= SpanPerCase * Len(s)
  BY <1>3, <1>4, LabelCount DEF Default
<1>6. Covers(s)
  <2>1. \A w \in DOMAIN cases : Keyed(w).key = Key(cases[w], type)
    BY DEF Keyed
  <2> QED
    BY <1>3, <2>1 DEF Covers
<1>7. NextId + Len(Root.labels) <= Highest("int")
  <2> DEFINE p == SpanPerCase * Len(s)
             n == Len(Root.labels)
  <2>1. p \in Nat /\ n \in Nat /\ n <= p /\ NextId + p <= Highest("int")
    BY <1>2, <1>3, <1>5, DispatchAssumption DEF Slices
  <2>2. Highest("int") \in Int /\ NextId \in Nat
    BY TypeFacts, NextIdAssumption
  <2> HIDE DEF p, n
  <2>3. NextId + n <= Highest("int")
    BY <2>1, <2>2
  <2> QED
    BY <2>3 DEF n
<1> QED
  BY <1>3, <1>4, <1>5, <1>6, <1>7

(* A step that goes on keeps the invariant when the node it leaves does. *)
LEMMA GoesOn ==
    ASSUME SwitchInv, UNCHANGED <<cases, type, x>>, arm = Searching, arm' = arm,
           NEW s \in Slices, Covers(s), Remains(node', first', s)
    PROVE  SwitchInv'
<1>1. (type \in Types /\ x \in Lowest(type) .. Highest(type) /\ Accepted)'
  BY DEF SwitchInv, Accepted
<1>2. Covers(s)'
  BY DEF Covers, Keyed
<1>3. Remains(node, first, s)'
  <2>1. Root' = Root
    BY DEF Root
  <2> HIDE DEF Root
  <2> QED
    BY <2>1 DEF Remains, Numbers
<1>4. GoesToItsArm'
  BY DEF GoesToItsArm
<1> QED
  BY <1>1, <1>2, <1>3, <1>4 DEF SwitchInv

(* A step that leaves for an arm keeps it when the arm is right. *)
LEMMA Arrives ==
    ASSUME SwitchInv, UNCHANGED <<cases, type, x>>,
           \/ \E w \in DOMAIN cases : Key(cases[w], type) = x /\ arm' = w
           \/ arm' = Default /\ \A w \in DOMAIN cases : Key(cases[w], type) # x
    PROVE  SwitchInv'
<1>1. (type \in Types /\ x \in Lowest(type) .. Highest(type) /\ Accepted)'
  BY DEF SwitchInv, Accepted
<1>2. arm' # Searching
  <2>1. \A w \in DOMAIN cases : w \in Nat
    BY CaseFacts DEF SwitchInv
  <2> QED
    BY <2>1 DEF Default, Searching
<1>3. GoesToItsArm'
  BY DEF GoesToItsArm
<1> QED
  BY <1>1, <1>2, <1>3 DEF SwitchInv

LEMMA KeyOf ==
    ASSUME NEW s, Covers(s), NEW k \in DOMAIN s
    PROVE  \E w \in DOMAIN cases : Key(cases[w], type) = s[k].key /\ s[k].arm = w
<1>1. PICK w \in DOMAIN cases : s[k] = Keyed(w)
  BY DEF Covers
<1>2. s[k] = [key |-> Key(cases[w], type), arm |-> w]
  BY <1>1 DEF Keyed
<1> QED
  BY <1>2

LEMMA TestsField ==
    ASSUME NEW s
    PROVE  Tests(s).cases = s /\ Tests(s).kind = "tests"
BY DEF Tests

(* One lemma for each action. *)
LEMMA TestPreserves ==
    ASSUME SwitchInv, Test
    PROVE  SwitchInv'
<1>1. PICK s \in Slices : Covers(s) /\ Remains(node, first, s)
  BY DEF SwitchInv, Test
<1>2. node = Tests(s)
  BY <1>1, NodeKinds DEF Remains, Test
<1>3. node.cases = s /\ s # <<>>
  BY <1>2, TestsField DEF Test
<1>4. /\ s \in Seq(KeyedCase) /\ Len(s) \in Nat /\ Len(s) >= 1 /\ DOMAIN s = 1 .. Len(s) /\ Head(s) = s[1]
      /\ 1 \in DOMAIN s
  BY <1>3 DEF Slices
<1>5. CASE Head(s).key = x
  <2>1. arm' = s[1].arm
    BY <1>3, <1>4, <1>5 DEF Test, Reaches
  <2>2. \E w \in DOMAIN cases : Key(cases[w], type) = x /\ arm' = w
    BY <1>1, <1>4, <1>5, <2>1, KeyOf
  <2> QED
    BY <2>2, Arrives DEF Test
<1>6. CASE Head(s).key # x
  <2>1. node' = Tests(Tail(s)) /\ arm' = arm
    BY <1>3, <1>6 DEF Test, Continues
  <2>2. /\ Tail(s) \in Slices /\ DOMAIN Tail(s) = 1 .. Len(s) - 1
        /\ \A k \in 1 .. Len(s) - 1 : Tail(s)[k] = s[k + 1]
    BY <1>3, <1>4 DEF Slices
  <2>3. Covers(Tail(s))
    <3>1. ASSUME NEW k \in DOMAIN Tail(s) PROVE \E w \in DOMAIN cases : Tail(s)[k] = Keyed(w)
      <4>1. k + 1 \in DOMAIN s /\ Tail(s)[k] = s[k + 1]
        BY <1>4, <2>2
      <4> QED
        BY <1>1, <4>1 DEF Covers
    <3>2. ASSUME NEW w \in DOMAIN cases, Key(cases[w], type) = x
          PROVE  \E k \in DOMAIN Tail(s) : Tail(s)[k].key = x
      <4>1. PICK k \in DOMAIN s : s[k].key = x
        BY <1>1, <3>2 DEF Covers
      <4>2. k # 1
        BY <1>4, <1>6, <4>1
      <4>3. k - 1 \in 1 .. Len(s) - 1 /\ (k - 1) + 1 = k
        BY <1>4, <4>2
      <4>4. Tail(s)[k - 1] = s[k] /\ k - 1 \in DOMAIN Tail(s)
        BY <2>2, <4>3
      <4> QED
        BY <4>1, <4>4
    <3> QED
      BY <3>1, <3>2 DEF Covers
  <2>4. Remains(node', first', Tail(s))
    BY <2>1 DEF Remains
  <2> QED
    BY <2>1, <2>2, <2>3, <2>4, GoesOn DEF Test
<1> QED
  BY <1>5, <1>6

LEMMA NoMatchPreserves ==
    ASSUME SwitchInv, NoMatch
    PROVE  SwitchInv'
<1>1. PICK s \in Slices : Covers(s) /\ Remains(node, first, s)
  BY DEF SwitchInv, NoMatch
<1>2. node = Tests(s) /\ node = Tests(<<>>)
  BY <1>1, TestsField, NodeKinds DEF Remains, NoMatch
<1>3. s = <<>>
  <2>1. node.cases = s
    BY <1>2, TestsField
  <2>2. node.cases = <<>>
    BY <1>2, TestsField
  <2> QED
    BY <2>1, <2>2
<1>4. \A w \in DOMAIN cases : Key(cases[w], type) # x
  BY <1>1, <1>3 DEF Covers
<1> QED
  BY <1>4, Arrives DEF NoMatch, Reaches

LEMMA JumpPreserves ==
    ASSUME SwitchInv, Jump
    PROVE  SwitchInv'
<1>1. PICK s \in Slices : Covers(s) /\ Remains(node, first, s)
  BY DEF SwitchInv, Jump
<1>2. /\ node = Table(s, Default) /\ Len(s) >= 1 /\ Rising(s) /\ Numbers(node, first)
  BY <1>1, TestsField, NodeKinds DEF Remains, Jump
<1>3. type \in Types /\ x \in Lowest(type) .. Highest(type) /\ Accepted
  BY DEF SwitchInv
<1>4. /\ LowKey(s) \in Int /\ HighKey(s) \in Int /\ LowKey(s) <= HighKey(s)
      /\ Span(s) = HighKey(s) - LowKey(s) + 1 /\ Span(s) \in Nat
      /\ \A k \in DOMAIN s : s[k].key \in LowKey(s) .. HighKey(s)
  BY <1>2, SpanFacts
<1>5. /\ Len(node.labels) = Span(s) /\ node.low = LowKey(s) /\ node.high = HighKey(s)
      /\ \A w \in 1 .. Span(s) : node.labels[w] = ArmOf(s, LowKey(s) + w - 1, Default)
  BY <1>2, TableLabelsAre DEF Default
<1>6. type \in {"uint", "uint64"} => x >= 0
  BY <1>3, TypeFacts
<1>7. x \in Int
  BY <1>3, TypeFacts
<1>8. CASE ~InTable(node, x, type)
  <2>1. ~(x \in LowKey(s) .. HighKey(s))
    BY <1>4, <1>5, <1>7, <1>8 DEF InTable
  <2>2. \A w \in DOMAIN cases : Key(cases[w], type) # x
    BY <1>1, <1>4, <2>1 DEF Covers
  <2>3. arm' = Default /\ UNCHANGED <<cases, type, x>>
    BY <1>8 DEF Jump, Reaches
  <2> QED
    BY <2>2, <2>3, Arrives
<1>9. CASE InTable(node, x, type)
  <2>1. x \in LowKey(s) .. HighKey(s)
    BY <1>4, <1>5, <1>6, <1>7, <1>9 DEF InTable
  <2> DEFINE o == x - LowKey(s)
             n == Len(Root.labels)
             f == first - NextId
  <2>2. /\ first \in Nat /\ first >= NextId /\ NextId \in Nat /\ f \in Nat
        /\ n \in Nat /\ NextId + n <= Highest("int") /\ Highest("int") \in Nat
        /\ f + Span(s) <= n
        /\ \A j \in 1 .. Span(s) : Root.labels[f + j] = node.labels[j]
    <3>1. NextId \in Nat /\ Highest("int") \in Nat
      BY NextIdAssumption, TypeFacts, <1>3
    <3>2. Root.labels \in Seq(Int) /\ NextId + n <= Highest("int")
      BY <1>3, RootFacts
    <3>3. n \in Nat
      BY <3>2
    <3> QED
      BY <1>2, <1>5, <3>1, <3>2, <3>3 DEF Numbers
  <2>3. o \in Nat /\ o + 1 \in 1 .. Span(s) /\ LowKey(s) + (o + 1) - 1 = x /\ LowKey(s) <= x
    BY <1>4, <1>7, <2>1
  <2>4. first + o <= Highest("int")
    <3> DEFINE p == Span(s)
               q == Highest("int")
    <3>1. p \in Nat /\ o \in Nat /\ o + 1 <= p /\ f + p <= n /\ NextId + n <= q /\ q \in Nat
          /\ n \in Nat /\ NextId \in Nat /\ first \in Nat
      BY <1>4, <2>2, <2>3
    <3> HIDE DEF p, q, n, o
    <3> QED
      BY <3>1 DEF q
  <2>5. TableNumber(node, first, x, type) = first + o
    <3>1. /\ node.low \in Int /\ node.low <= x /\ first + (x - node.low) <= Highest("int")
          /\ first + o = first + (x - node.low)
      BY <1>4, <1>5, <2>3, <2>4
    <3> QED
      BY <1>3, <1>7, <2>2, <3>1, TableNumberIs
  <2>6. (first + o) - NextId + 1 = f + (o + 1)
    BY <2>2, <2>3
  <2>7. ArmAt(first + o) = ArmOf(s, x, Default)
    <3>1. Root.labels[f + (o + 1)] = ArmOf(s, x, Default)
      BY <1>5, <2>2, <2>3
    <3> QED
      BY <2>6, <3>1 DEF ArmAt, TableLabels
  <2>8. arm' = ArmOf(s, x, Default)
    BY <1>9, <2>5, <2>7 DEF Jump, Reaches
  <2>9. CASE \E k \in DOMAIN s : s[k].key = x
    <3>1. PICK k \in DOMAIN s : s[k].key = x /\ arm' = s[k].arm
      BY <2>8, <2>9 DEF ArmOf
    <3>2. \E w \in DOMAIN cases : Key(cases[w], type) = x /\ arm' = w
      BY <1>1, <3>1, KeyOf
    <3> QED
      BY <3>2, Arrives DEF Jump
  <2>10. CASE ~\E k \in DOMAIN s : s[k].key = x
    <3>1. arm' = Default
      BY <2>8, <2>10 DEF ArmOf
    <3>2. \A w \in DOMAIN cases : Key(cases[w], type) # x
      BY <1>1, <2>10 DEF Covers
    <3> QED
      BY <3>1, <3>2, Arrives DEF Jump
  <2> QED
    BY <2>9, <2>10
<1> QED
  BY <1>8, <1>9
LEMMA ConcatFacts ==
    ASSUME NEW u \in Seq(Int), NEW v \in Seq(Int)
    PROVE  /\ Len(u) \in Nat /\ Len(v) \in Nat /\ Len(u \o v) = Len(u) + Len(v)
           /\ \A j \in 1 .. Len(u) : (u \o v)[j] = u[j]
           /\ \A j \in 1 .. Len(v) : (u \o v)[Len(u) + j] = v[j]
OBVIOUS

LEMMA SplitPreserves ==
    ASSUME SwitchInv, Split
    PROVE  SwitchInv'
<1>1. PICK s \in Slices : Covers(s) /\ Remains(node, first, s)
  BY DEF SwitchInv, Split
<1>2. /\ node = Build(s, Default) /\ ~(Len(s) <= TestsMax) /\ ~Dense(s)
      /\ Rising(s) /\ Numbers(node, first)
  BY <1>1, TestsField, NodeKinds DEF Remains, Split
<1>3. PICK low, up, h, n : low = LowerHalf(s) /\ up = UpperHalf(s) /\ h = Half(s) /\ n = Len(s)
  OBVIOUS
<1>4. /\ n \in Nat /\ h \in 1 .. n - 1 /\ low \in Slices /\ up \in Slices /\ Rising(low) /\ Rising(up)
      /\ DOMAIN s = 1 .. n /\ DOMAIN low = 1 .. h /\ DOMAIN up = 1 .. n - h
      /\ \A k \in 1 .. h : low[k] = s[k]
      /\ \A k \in 1 .. n - h : up[k] = s[h + k]
  <2>1. \A u \in Slices : DOMAIN u = 1 .. Len(u)
    BY DEF Slices
  <2> QED
    BY <1>2, <1>3, <2>1, HalfFacts, RisingHalves
<1>5. PICK a, b, p : a = Build(low, Default) /\ b = Build(up, Default) /\ p = s[h + 1].key
  OBVIOUS
<1>6. node.pivot = p /\ node.below = a /\ node.above = b /\ node.labels = a.labels \o b.labels
  BY <1>2, <1>3, <1>5, SplitIs
<1>7. a.labels \in Seq(Int) /\ b.labels \in Seq(Int)
  BY <1>4, <1>5, LabelCount DEF Default
<1>8. /\ Len(a.labels) \in Nat /\ Len(b.labels) \in Nat
      /\ Len(node.labels) = Len(a.labels) + Len(b.labels)
      /\ \A j \in 1 .. Len(a.labels) : node.labels[j] = a.labels[j]
      /\ \A j \in 1 .. Len(b.labels) : node.labels[Len(a.labels) + j] = b.labels[j]
  <2>1. PICK u, v : u = a.labels /\ v = b.labels
    OBVIOUS
  <2>2. u \in Seq(Int) /\ v \in Seq(Int) /\ node.labels = u \o v
    BY <1>6, <1>7, <2>1
  <2>3. /\ Len(u) \in Nat /\ Len(v) \in Nat /\ Len(u \o v) = Len(u) + Len(v)
        /\ \A j \in 1 .. Len(u) : (u \o v)[j] = u[j]
        /\ \A j \in 1 .. Len(v) : (u \o v)[Len(u) + j] = v[j]
    BY <2>2, ConcatFacts
  <2>4. \A j \in 1 .. Len(u) : node.labels[j] = u[j]
    BY <2>2, <2>3
  <2>5. \A j \in 1 .. Len(v) : node.labels[Len(u) + j] = v[j]
    BY <2>2, <2>3
  <2>6. Len(node.labels) = Len(u) + Len(v)
    BY <2>2, <2>3
  <2> QED
    BY <2>1, <2>3, <2>4, <2>5, <2>6
<1>9. x \in Int /\ p \in Int /\ h + 1 \in DOMAIN s
  <2>1. h + 1 \in DOMAIN s
    BY <1>4
  <2>2. p \in Int
    BY <1>5, <2>1, KeyFacts
  <2>3. x \in Int
    BY TypeFacts DEF SwitchInv
  <2> QED
    BY <2>1, <2>2, <2>3
<1>10. first \in Nat /\ NextId \in Nat /\ Len(Root.labels) \in Nat
  <2>1. Root.labels \in Seq(Int)
    BY RootFacts DEF SwitchInv
  <2> QED
    BY <1>2, <2>1, NextIdAssumption DEF Numbers
<1>11. CASE x < p
  <2>1. node' = a /\ first' = first /\ arm' = arm /\ UNCHANGED <<cases, type, x>>
    BY <1>6, <1>11 DEF Split, Continues, Side, FirstOfSide
  <2>2. Covers(low)
    <3>1. ASSUME NEW k \in DOMAIN low PROVE \E w \in DOMAIN cases : low[k] = Keyed(w)
      <4>1. k \in DOMAIN s /\ low[k] = s[k]
        BY <1>4
      <4> QED
        BY <1>1, <4>1 DEF Covers
    <3>2. ASSUME NEW w \in DOMAIN cases, Key(cases[w], type) = x
          PROVE  \E k \in DOMAIN low : low[k].key = x
      <4>1. PICK k \in DOMAIN s : s[k].key = x
        BY <1>1, <3>2 DEF Covers
      <4>2. h + 1 < k => p < x
        BY <1>2, <1>5, <1>9, <4>1 DEF Rising
      <4>3. h + 1 # k
        BY <1>5, <1>9, <1>11, <4>1
      <4>4. k \in 1 .. h
        BY <1>4, <1>9, <1>11, <4>2, <4>3
      <4> QED
        BY <1>4, <4>1, <4>4
    <3> QED
      BY <3>1, <3>2 DEF Covers
  <2>3. Numbers(a, first)
    <3>1. PICK la, lb, rl, f : /\ la = Len(a.labels) /\ lb = Len(b.labels) /\ rl = Root.labels
                               /\ f = first - NextId
      OBVIOUS
    <3>2. /\ la \in Nat /\ lb \in Nat /\ Len(rl) \in Nat /\ Len(node.labels) = la + lb
          /\ \A j \in 1 .. la : node.labels[j] = a.labels[j]
      BY <1>8, <1>10, <3>1
    <3>3. /\ first \in Nat /\ first >= NextId /\ f \in Nat /\ f + (la + lb) <= Len(rl)
          /\ \A j \in 1 .. la + lb : rl[f + j] = node.labels[j]
      <4>1. first >= NextId /\ f + Len(node.labels) <= Len(rl)
        BY <1>2, <3>1 DEF Numbers
      <4>2. \A j \in 1 .. Len(node.labels) : rl[f + j] = node.labels[j]
        BY <1>2, <3>1 DEF Numbers
      <4>3. f \in Nat
        BY <1>10, <3>1, <4>1
      <4> QED
        BY <1>10, <3>2, <4>1, <4>2, <4>3
    <3>4. \A j \in 1 .. la : j \in 1 .. la + lb
      BY <3>2
    <3>5. \A j \in 1 .. la : rl[f + j] = a.labels[j]
      BY <3>2, <3>3, <3>4
    <3>6. f + la <= Len(rl)
      BY <3>2, <3>3
    <3> QED
      BY <3>1, <3>3, <3>5, <3>6 DEF Numbers
  <2>4. Remains(node', first', low)
    BY <1>4, <1>5, <2>1, <2>3 DEF Remains
  <2> QED
    BY <1>4, <2>1, <2>2, <2>4, GoesOn DEF Split
<1>12. CASE ~(x < p)
  <2>1. /\ node' = b /\ first' = first + Len(a.labels) /\ arm' = arm /\ UNCHANGED <<cases, type, x>>
    BY <1>6, <1>12 DEF Split, Continues, Side, FirstOfSide, TableLabels
  <2>2. Covers(up)
    <3>1. ASSUME NEW k \in DOMAIN up PROVE \E w \in DOMAIN cases : up[k] = Keyed(w)
      <4>1. h + k \in DOMAIN s /\ up[k] = s[h + k]
        BY <1>4
      <4> QED
        BY <1>1, <4>1 DEF Covers
    <3>2. ASSUME NEW w \in DOMAIN cases, Key(cases[w], type) = x
          PROVE  \E k \in DOMAIN up : up[k].key = x
      <4>1. PICK k \in DOMAIN s : s[k].key = x
        BY <1>1, <3>2 DEF Covers
      <4>2. k < h + 1 => x < p
        BY <1>2, <1>5, <1>9, <4>1 DEF Rising
      <4>3. k - h \in 1 .. n - h /\ h + (k - h) = k
        BY <1>4, <1>9, <1>12, <4>2
      <4>4. up[k - h] = s[k] /\ k - h \in DOMAIN up
        BY <1>4, <4>3
      <4> QED
        BY <4>1, <4>4
    <3> QED
      BY <3>1, <3>2 DEF Covers
  <2>3. Numbers(b, first + Len(a.labels))
    <3>1. PICK la, lb, lr, f : /\ la = Len(a.labels) /\ lb = Len(b.labels) /\ lr = Len(Root.labels)
                               /\ f = first - NextId
      OBVIOUS
    <3>5. la \in Nat /\ lb \in Nat /\ lr \in Nat /\ Len(node.labels) = la + lb
      BY <1>8, <1>10, <3>1
    <3>6. first >= NextId /\ f + Len(node.labels) <= lr
      BY <1>2, <3>1 DEF Numbers
    <3>7. \A j \in 1 .. Len(node.labels) : Root.labels[f + j] = node.labels[j]
      BY <1>2, <3>1 DEF Numbers
    <3>2. /\ la \in Nat /\ lb \in Nat /\ lr \in Nat /\ f \in Nat /\ f + (la + lb) <= lr
          /\ (first + la) - NextId = f + la
          /\ first + la \in Nat /\ first + la >= NextId
          /\ \A j \in 1 .. la + lb : Root.labels[f + j] = node.labels[j]
      <4>1. f \in Nat /\ (first + la) - NextId = f + la /\ first + la \in Nat /\ first + la >= NextId
        BY <1>10, <3>1, <3>5, <3>6
      <4> QED
        BY <3>5, <3>6, <3>7, <4>1
    <3>3. ASSUME NEW j \in 1 .. lb PROVE Root.labels[(first + la) - NextId + j] = b.labels[j]
      <4>1. la + j \in 1 .. la + lb /\ (first + la) - NextId + j = f + (la + j)
        BY <3>2
      <4>2. node.labels[la + j] = b.labels[j]
        BY <1>8, <3>1
      <4> QED
        BY <3>2, <4>1, <4>2
    <3>4. (first + la) - NextId + lb <= lr
      BY <3>2
    <3> QED
      BY <3>1, <3>2, <3>3, <3>4 DEF Numbers
  <2>4. Remains(node', first', up)
    BY <1>4, <1>5, <2>1, <2>3 DEF Remains
  <2> QED
    BY <1>4, <2>1, <2>2, <2>4, GoesOn DEF Split
<1> QED
  BY <1>11, <1>12

-----------------------------------------------------------------------------
LEMMA SwitchInvInitially ==
    SwitchInit => SwitchInv
<1> SUFFICES ASSUME SwitchInit PROVE SwitchInv
  OBVIOUS
<1>1. PICK values \in Seq(Int), t \in Types :
          IsSwitch(values, t) /\ Dispatches(values, t) /\ x \in Lowest(t) .. Highest(t)
  BY DEF SwitchInit
<1>2. type = t /\ x \in Lowest(t) .. Highest(t) /\ cases = WithArms(values)
      /\ node = Root /\ first = NextId /\ arm = Searching
  BY <1>1 DEF Dispatches
<1>3. Accepted
  BY <1>1, <1>2 DEF Accepted
<1>4. PICK s \in Slices : /\ Rising(s) /\ Root = Build(s, Default) /\ Covers(s) /\ Root.labels \in Seq(Int)
  BY <1>1, <1>2, <1>3, RootFacts
<1>5. Numbers(node, first)
  <2>1. NextId \in Nat /\ NextId - NextId = 0 /\ Len(Root.labels) \in Nat
    BY <1>4, NextIdAssumption
  <2>2. \A j \in 1 .. Len(Root.labels) : 0 + j = j
    BY <2>1
  <2> QED
    BY <1>2, <2>1, <2>2 DEF Numbers
<1>6. GoesToItsArm
  BY <1>2 DEF GoesToItsArm
<1> QED
  BY <1>1, <1>2, <1>3, <1>4, <1>5, <1>6 DEF SwitchInv, Remains

LEMMA SwitchInvStays ==
    SwitchInv /\ UNCHANGED switchVars => SwitchInv'
<1> SUFFICES ASSUME SwitchInv, UNCHANGED switchVars PROVE SwitchInv'
  OBVIOUS
<1>1. UNCHANGED <<cases, type, x, node, first, arm>>
  BY DEF switchVars
<1>2. Root' = Root
  BY <1>1 DEF Root
<1>3. (type \in Types /\ x \in Lowest(type) .. Highest(type) /\ Accepted)'
  BY <1>1 DEF SwitchInv, Accepted
<1>4. GoesToItsArm'
  BY <1>1 DEF SwitchInv, GoesToItsArm
<1>5. ASSUME arm' = Searching PROVE (\E s \in Slices : Covers(s) /\ Remains(node, first, s))'
  <2>1. PICK s \in Slices : Covers(s) /\ Remains(node, first, s)
    BY <1>1, <1>5 DEF SwitchInv
  <2>2. Covers(s)'
    BY <1>1, <2>1 DEF Covers, Keyed
  <2>3. Remains(node, first, s)'
    <3> HIDE DEF Root
    <3> QED
      BY <1>1, <1>2, <2>1 DEF Remains, Numbers
  <2> QED
    BY <2>2, <2>3
<1> QED
  BY <1>3, <1>4, <1>5 DEF SwitchInv

(* A dispatch that the flat back end makes goes to the one case whose        *)
(* converted constant is the scrutinee's value, and to the default when      *)
(* there is none: for every switch that is accepted, every type and value,   *)
(* whatever the sizes of a test run, of a table and of the integer types.    *)
THEOREM DispatchCorrect ==
    SwitchSpec => []GoesToItsArm
<1>1. SwitchInv /\ [SwitchNext]_switchVars => SwitchInv'
  BY TestPreserves, NoMatchPreserves, JumpPreserves, SplitPreserves, SwitchInvStays DEF SwitchNext
<1>2. SwitchInv => GoesToItsArm
  BY DEF SwitchInv
<1> QED
  BY <1>1, <1>2, SwitchInvInitially, PTL DEF SwitchSpec
=============================================================================
