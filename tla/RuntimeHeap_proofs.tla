------------------------- MODULE RuntimeHeap_proofs -------------------------
(* The safety of the raw heap, for every alignment, reserve, base address,  *)
(* request and order of calls.  The invariant is that the arena is well     *)
(* formed (RuntimeArena): no part of it is inductive alone, for free and    *)
(* realloc find a block only in a sorted table, a carved block is disjoint  *)
(* from the others only when all lie below the bump pointer, a block grows  *)
(* in place only when the one that ends there is the last, and a reused one *)
(* is free only when the free list is exact.                                *)
(*                                                                          *)
(* That the runtime implements C's heap needs more: which objects the open  *)
(* frames own and how the marks nest (LocalsInv), for frame_leave releases  *)
(* in one step of the C heap what its loop frees object by object; and the  *)
(* completeness of the binary search, for a free that missed a block would  *)
(* leave it held.                                                           *)
EXTENDS RuntimeHeap, RuntimeArena_proofs

Inv == TypeOK /\ WellFormed(arena)

(* A call whose result is well formed keeps the invariant. *)
LEMMA ReturnsKeepsInv ==
    ASSUME Inv, NEW res, NEW asks, Returns(res, asks),
           asked' \in Nat, WellFormed(res.arena),
           res.addr \in {NULL} \cup (Base .. Base + Reserve)
    PROVE  Inv'
<1>1. /\ arena' = res.arena /\ ret' = res.addr
      /\ UNCHANGED <<locals, marks, leaving, panicked>>
  BY DEF Returns
<1>2. WellFormed(arena') /\ arena' \in Arena
  BY <1>1 DEF WellFormed
<1> QED
  BY <1>1, <1>2 DEF Inv, TypeOK

(* The storage of an object is calloc's. *)
LEMMA StorageKeeps ==
    ASSUME Inv, NEW size \in Nat, Storage(size)
    PROVE  /\ WellFormed(arena') /\ arena' \in Arena
           /\ ret' \in {NULL} \cup (Base .. Base + Reserve)
           /\ panicked' \in BOOLEAN /\ asked' \in Nat
           /\ UNCHANGED <<marks, leaving>>
<1> DEFINE o == ObjectStorage(arena, size)
<1>1. WellFormed(o.arena) /\ o.addr \in {NULL} \cup (Base .. Base + Reserve)
  BY CallocWellFormed DEF Inv, ObjectStorage
<1>2. /\ arena' = o.arena /\ panicked' = (o.addr = NULL) /\ ret' = o.addr
      /\ asked' = size
      /\ UNCHANGED <<marks, leaving>>
  BY DEF Storage
<1> HIDE DEF o
<1>3. (o.addr = NULL) \in BOOLEAN
  OBVIOUS
<1> QED
  BY <1>1, <1>2, <1>3 DEF WellFormed

LEMMA InvInductive == Inv /\ [Next]_vars => Inv'
<1> SUFFICES ASSUME Inv, [Next]_vars
             PROVE  Inv'
  OBVIOUS
<1>1. /\ WellFormed(arena) /\ arena \in Arena
      /\ locals \in Seq(Nat) /\ marks \in Seq(Nat)
      /\ NULL \in {NULL} \cup (Base .. Base + Reserve)
  BY DEF Inv, TypeOK
<1>2. ASSUME NEW size \in Sizes, MallocCall(size)
      PROVE  Inv'
  <2>1. asked' \in Nat
    BY <1>2, InputAssumption DEF MallocCall, Returns
  <2> QED
    BY <1>1, <1>2, <2>1, MallocWellFormed, ReturnsKeepsInv, InputAssumption DEF MallocCall
<1>3. ASSUME NEW count \in Counts, NEW size \in Sizes, CallocCall(count, size)
      PROVE  Inv'
  <2>1. asked' \in Nat
    <3>1. asked' = count * size
      BY <1>3 DEF CallocCall, Returns
    <3>2. count \in Nat /\ size \in Nat
      BY InputAssumption
    <3> QED
      BY <3>1, <3>2
  <2> QED
    BY <1>1, <1>3, <2>1, CallocWellFormed, ReturnsKeepsInv, InputAssumption DEF CallocCall
<1>4. ASSUME NEW a \in Pointers, FreeCall(a)
      PROVE  Inv'
  <2> DEFINE res == Result(Free(arena, a), NULL)
  <2>1. WellFormed(res.arena) /\ res.addr = NULL
    BY <1>1, FreeWellFormed DEF Result
  <2>5. asked' \in Nat
    BY <1>4 DEF FreeCall, Returns
  <2> QED
    BY <1>1, <1>4, <2>1, <2>5, ReturnsKeepsInv DEF FreeCall
<1>5. ASSUME NEW a \in Pointers, NEW size \in Sizes, ReallocCall(a, size)
      PROVE  Inv'
  <2>1. asked' \in Nat
    BY <1>5, InputAssumption DEF ReallocCall, Returns
  <2> QED
    BY <1>1, <1>5, <2>1, ReallocWellFormed, ReturnsKeepsInv, InputAssumption DEF ReallocCall
<1>6. ASSUME NEW r \in LiveRecords(arena), NEW v \in Byte, MemSetCall(r, v)
      PROVE  Inv'
  <2> DEFINE rec == arena.recs[r]
             res == Result(MemSet(arena, rec.addr, v, rec.size), rec.addr)
  <2>1. r \in DOMAIN arena.recs
    BY DEF LiveRecords
  <2>2. /\ rec.addr \in Nat /\ rec.size \in Nat /\ arena.next \in Nat /\ arena.len \in Nat
        /\ ProperBlock(arena, rec) /\ arena.next <= arena.len /\ arena.len <= Reserve
    BY <1>1, <2>1, ArenaTypes DEF WellFormed, InReserve
  <2>3. rec.addr \in Base .. Base + Reserve
    BY <2>2, BaseAssumption, ReserveAssumption DEF ProperBlock, BlockEnd
  <2>4. WellFormed(res.arena) /\ res.addr = rec.addr
    BY <1>1, MemSetWellFormed DEF Result
  <2>5. asked' \in Nat
    BY <1>6 DEF MemSetCall, Returns
  <2> QED
    BY <1>6, <2>3, <2>4, <2>5, ReturnsKeepsInv DEF MemSetCall
<1>7. CASE ResetCall
  <2> DEFINE res == Result(Reset(arena), NULL)
  <2>1. WellFormed(res.arena) /\ res.addr = NULL
    BY <1>1, ResetWellFormed DEF Result
  <2>5. asked' \in Nat
    BY <1>7 DEF ResetCall, Returns
  <2> QED
    BY <1>1, <1>7, <2>1, <2>5, ReturnsKeepsInv DEF ResetCall
<1>8. CASE FrameEnter
  <2>1. Len(locals) \in Nat
    BY <1>1
  <2> QED
    BY <1>1, <1>8, <2>1, AppendKeeps DEF FrameEnter, Inv, TypeOK
<1>9. ASSUME NEW size \in Sizes, Local(size)
      PROVE  Inv'
  <2>1. Storage(size) /\ size \in Nat
    BY <1>9, InputAssumption DEF Local
  <2>2. ret' \in Nat
    BY <2>1, StorageKeeps, BaseAssumption, ReserveAssumption DEF NULL
  <2>3. locals' \in Seq(Nat)
    BY <1>1, <1>9, <2>2, AppendKeeps DEF Local
  <2> QED
    BY <2>1, <2>3, StorageKeeps DEF Inv, TypeOK
<1>10. ASSUME NEW size \in Sizes, Static(size)
       PROVE  Inv'
  <2>1. Storage(size) /\ size \in Nat /\ locals' = locals
    BY <1>10, InputAssumption DEF Static
  <2> QED
    BY <1>1, <2>1, StorageKeeps DEF Inv, TypeOK
<1>11. CASE FrameLeave
  <2>1. marks # <<>> /\ leaving' = marks[Len(marks)]
        /\ marks' = SubSeq(marks, 1, Len(marks) - 1)
        /\ UNCHANGED <<arena, locals, panicked>> /\ ret' = NULL /\ asked' = 0
    BY <1>11 DEF FrameLeave
  <2>2. Len(marks) \in 1 .. Len(marks) /\ Len(marks) \in Nat
    BY <1>1, <2>1, EmptySeq
  <2>3. leaving' \in Nat /\ marks' \in Seq(Nat)
    BY <1>1, <2>1, <2>2
  <2> QED
    BY <2>1, <2>3 DEF Inv, TypeOK
<1>12. CASE ReleaseLocal
  <2>1. /\ arena' = Free(arena, locals[Len(locals)])
        /\ locals' = SubSeq(locals, 1, Len(locals) - 1)
        /\ UNCHANGED <<marks, leaving, ret, asked, panicked>>
    BY <1>12 DEF ReleaseLocal
  <2>2. WellFormed(arena') /\ arena' \in Arena
    BY <1>1, <2>1, FreeWellFormed DEF WellFormed
  <2>3. locals' \in Seq(Nat)
    BY <1>1, <2>1
  <2> QED
    BY <2>1, <2>2, <2>3 DEF Inv, TypeOK
<1>13. CASE FrameLeft
  BY <1>13 DEF FrameLeft, Inv, TypeOK
<1>14. CASE UNCHANGED vars
  BY <1>14 DEF vars, Inv, TypeOK
<1> QED
  BY <1>2, <1>3, <1>4, <1>5, <1>6, <1>7, <1>8, <1>9, <1>10, <1>11, <1>12, <1>13, <1>14
     DEF Next

LEMMA InvInitially == Init => Inv
<1> SUFFICES ASSUME Init
             PROVE  Inv
  OBVIOUS
<1>1. <<>> \in Seq(Nat)
  BY EmptySeq
<1> QED
  BY <1>1, EmptyWellFormed DEF Init, Inv, TypeOK, WellFormed

(* The runtime's globals, the frame stacks and what calls return always     *)
(* have their types; an address returned lies in the reserve.               *)
THEOREM TypeCorrect == Spec => []TypeOK
<1>1. Inv => TypeOK
  BY DEF Inv
<1> QED
  BY <1>1, InvInitially, InvInductive, PTL DEF Spec

(* No two blocks overlap and the address table stays sorted; every block is *)
(* aligned, materialized and in the reserve; the bump pointer is the end of *)
(* the last block.                                                          *)
THEOREM BlocksOrdered == Spec => []BlocksInOrder
<1>1. Inv => BlocksInOrder
  BY DEF Inv, WellFormed, BlocksInOrder
<1> QED
  BY <1>1, InvInitially, InvInductive, PTL DEF Spec

(* The free list holds each dead record exactly once.                       *)
THEOREM FreeListCorrect == Spec => []FreeListExact
<1>1. Inv => FreeListExact
  BY DEF Inv, WellFormed, FreeListExact
<1> QED
  BY <1>1, InvInitially, InvInductive, PTL DEF Spec

-----------------------------------------------------------------------------
(* The objects of the open frames.  That each is a live block is inductive  *)
(* together with what the marks are: the last marks no more objects than    *)
(* there are, the first marks none, so that c2da_rt_reset, which is called  *)
(* when no frame is open, forgets no object.                                *)
MarksNest ==
    /\ leaving # Idle => leaving <= Len(locals)
    /\ \A i \in DOMAIN marks : marks[i] <= IF leaving = Idle THEN Len(locals) ELSE leaving
    /\ \A i, j \in DOMAIN marks : i < j => marks[i] <= marks[j]
    /\ marks # <<>> => marks[1] = 0
    /\ marks = <<>> => leaving <= 0 /\ (leaving = Idle => locals = <<>>)

LocalsInv == Inv /\ LocalsHeld /\ MarksNest

(* Where the blocks the program holds start. *)
Starts(h) == {h.recs[r].addr : r \in LiveRecords(h)}

LEMMA StartsHeld ==
    ASSUME NEW h
    PROVE  \A a : a \in Starts(h) <=> \E n : Holds(h, a, n)
BY DEF Starts, Holds

LEMMA StartsSame ==
    ASSUME NEW h, NEW g, SameHeld(h, g)
    PROVE  Starts(g) = Starts(h)
BY StartsHeld DEF SameHeld

LEMMA StartsGain ==
    ASSUME NEW h, NEW g, NEW a, NEW n, Gains(h, g, a, n)
    PROVE  Starts(g) = Starts(h) \cup {a} /\ a \notin Starts(h)
<1>1. \A b : b \in Starts(g) <=> b \in Starts(h) \/ b = a
  BY StartsHeld DEF Gains
<1> QED
  BY <1>1, StartsHeld DEF Gains

LEMMA StartsLose ==
    ASSUME NEW h, NEW g, NEW a, Loses(h, g, a)
    PROVE  Starts(g) = Starts(h) \ {a}
<1>1. \A b : b \in Starts(g) <=> b \in Starts(h) /\ b # a
  BY StartsHeld DEF Loses
<1> QED
  BY <1>1

LEMMA StartsResize ==
    ASSUME NEW h, NEW g, NEW a, NEW old, NEW b, NEW n, Resizes(h, g, a, old, b, n)
    PROVE  Starts(g) = (Starts(h) \ {a}) \cup {b} /\ b \notin Starts(h) \ {a}
<1>1. \A x : x \in Starts(g) <=> (x \in Starts(h) /\ x # a) \/ x = b
  BY StartsHeld DEF Resizes
<1>2. b \in Starts(h) => b = a
  BY StartsHeld DEF Resizes
<1> QED
  BY <1>1, <1>2

(* The last element of a sequence goes. *)
LEMMA Shortened ==
    ASSUME NEW S, NEW s \in Seq(S), s # <<>>
    PROVE  /\ Len(s) \in Nat /\ Len(s) > 0 /\ DOMAIN s = 1 .. Len(s) /\ s[Len(s)] \in S
           /\ SubSeq(s, 1, Len(s) - 1) \in Seq(S)
           /\ Len(SubSeq(s, 1, Len(s) - 1)) = Len(s) - 1
           /\ DOMAIN SubSeq(s, 1, Len(s) - 1) = 1 .. Len(s) - 1
           /\ \A i \in 1 .. Len(s) - 1 : SubSeq(s, 1, Len(s) - 1)[i] = s[i]
<1> DEFINE m == Len(s) - 1
           u == SubSeq(s, 1, m)
<1>1. /\ m \in Nat /\ m + 1 = Len(s) /\ DOMAIN s = 1 .. Len(s)
      /\ \A i \in 1 .. Len(s) : s[i] \in S
  BY EmptySeq
<1> HIDE DEF m
<1>2. \A i \in 1 .. m : s[i] \in S
  BY <1>1
<1>3. u \in Seq(S) /\ Len(u) = (IF 1 <= m THEN m - 1 + 1 ELSE 0)
      /\ \A i \in 1 .. m - 1 + 1 : u[i] = s[1 + i - 1]
  BY <1>1, <1>2, SubSeqProperties
<1>4. Len(u) = m /\ \A i \in 1 .. m : u[i] = s[i]
  <2> HIDE DEF u
  <2> QED
    BY <1>1, <1>3
<1>5. DOMAIN u = 1 .. Len(u)
  <2> HIDE DEF u
  <2> QED
    BY <1>3
<1>6. s[Len(s)] \in S
  BY <1>1
<1> QED
  BY <1>1, <1>3, <1>4, <1>5, <1>6 DEF m

(* A call that takes no storage of a local. *)
LEMMA LocalsStay ==
    ASSUME LocalsInv, UNCHANGED <<locals, marks, leaving>>,
           \A a \in LocalAddrs : a \in Starts(arena) => a \in Starts(arena')
    PROVE  LocalsHeld' /\ MarksNest'
<1>1. LocalAddrs' = LocalAddrs
  BY DEF LocalAddrs
<1>2. MarksNest'
  BY DEF LocalsInv, MarksNest
<1>3. LocalAddrs \subseteq Starts(arena) /\ \A i, j \in DOMAIN locals : locals[i] = locals[j] => i = j
  BY DEF LocalsInv, LocalsHeld, Starts
<1>4. LocalsHeld'
  BY <1>1, <1>3 DEF LocalsHeld, Starts
<1> QED
  BY <1>2, <1>4

LEMMA ArenaIsWellFormed == ASSUME LocalsInv PROVE WellFormed(arena) /\ 0 \notin Starts(arena)
<1>1. WellFormed(arena)
  BY DEF LocalsInv, Inv
<1>2. \A a \in Starts(arena) : a # NULL
  BY <1>1, StartsHeld, HoldsFacts
<1> QED
  BY <1>1, <1>2 DEF NULL

(* The storage of an object of a frame, or of a static. *)
LEMMA StorageGains ==
    ASSUME LocalsInv, NEW size \in Nat, Storage(size)
    PROVE  /\ panicked' = (ret' = NULL)
           /\ \/ ret' = NULL /\ Starts(arena') = Starts(arena)
              \/ /\ Starts(arena') = Starts(arena) \cup {ret'} /\ ret' \notin Starts(arena)
                 /\ ret' # NULL
<1> DEFINE c == Calloc(arena, 1, size + 1)
<1>1. arena' = c.arena /\ ret' = c.addr /\ panicked' = (ret' = NULL)
  BY DEF Storage, ObjectStorage
<1>2. WellFormed(arena) /\ WellFormed(c.arena)
  <2>1. 1 \in Nat /\ size + 1 \in Nat
    OBVIOUS
  <2> QED
    BY <2>1, ArenaIsWellFormed, CallocWellFormed
<1>3. \/ c.addr = NULL /\ SameHeld(arena, c.arena)
      \/ \E n \in Nat : Gains(arena, c.arena, c.addr, n)
  <2>1. 1 \in Nat /\ size + 1 \in Nat
    OBVIOUS
  <2> QED
    BY <1>2, <2>1, CallocGains
<1> HIDE DEF c
<1>4. CASE c.addr = NULL /\ SameHeld(arena, c.arena)
  BY <1>1, <1>4, StartsSame
<1>5. ASSUME NEW n \in Nat, Gains(arena, c.arena, c.addr, n)
      PROVE  /\ Starts(arena') = Starts(arena) \cup {ret'} /\ ret' \notin Starts(arena)
             /\ ret' # NULL
  <2>1. Holds(c.arena, c.addr, n)
    BY <1>5 DEF Gains
  <2> QED
    BY <1>1, <1>2, <1>5, <2>1, StartsGain, HoldsFacts
<1> QED
  BY <1>1, <1>3, <1>4, <1>5

LEMMA ReallocStarts ==
    ASSUME LocalsInv, NEW a \in Nat, NEW size \in Nat, NEW b \in Starts(arena), b # a
    PROVE  b \in Starts(Realloc(arena, a, size).arena)
<1> DEFINE k == Realloc(arena, a, size)
<1>0. WellFormed(arena)
  BY ArenaIsWellFormed
<1>1. CASE a = NULL
  <2>1. k = Malloc(arena, size)
    BY <1>1 DEF Realloc
  <2>2. SameHeld(arena, k.arena) \/ \E n \in Nat : Gains(arena, k.arena, k.addr, n)
    BY <1>0, <2>1, MallocGains
  <2> QED
    BY <2>2, StartsSame, StartsGain
<1>2. CASE a # NULL /\ size = 0
  <2>1. k.arena = Free(arena, a)
    BY <1>2 DEF Realloc, Result
  <2> QED
    BY <1>0, <2>1, FreeLoses, StartsLose
<1>3. CASE a # NULL /\ size # 0
  <2>1. \/ SameHeld(arena, k.arena)
        \/ \E old, n \in Nat : Resizes(arena, k.arena, a, old, k.addr, n)
    BY <1>0, <1>3, ReallocHolds
  <2> QED
    BY <2>1, StartsSame, StartsResize
<1> QED
  BY <1>1, <1>2, <1>3

LEMMA LocalsInductive == LocalsInv /\ [Next]_vars => LocalsInv'
<1> SUFFICES ASSUME LocalsInv, [Next]_vars
             PROVE  LocalsHeld' /\ MarksNest'
  BY InvInductive DEF LocalsInv
<1>1. WellFormed(arena) /\ Sizes \subseteq Nat /\ Counts \subseteq Nat /\ Pointers \subseteq Nat
  BY ArenaIsWellFormed, InputAssumption
<1>2. /\ locals \in Seq(Nat) /\ marks \in Seq(Nat) /\ leaving \in Nat \cup {Idle}
      /\ Len(locals) \in Nat /\ Len(marks) \in Nat
      /\ DOMAIN locals = 1 .. Len(locals) /\ DOMAIN marks = 1 .. Len(marks)
  BY DEF LocalsInv, Inv, TypeOK
<1>3. ASSUME NEW size \in Sizes, MallocCall(size)
      PROVE  LocalsHeld' /\ MarksNest'
  <2> DEFINE m == Malloc(arena, size)
  <2>1. SameHeld(arena, m.arena) \/ \E n \in Nat : Gains(arena, m.arena, m.addr, n)
    BY <1>1, MallocGains
  <2>2. arena' = m.arena /\ UNCHANGED <<locals, marks, leaving>>
    BY <1>3 DEF MallocCall, Returns
  <2> HIDE DEF m
  <2> QED
    BY <2>1, <2>2, StartsSame, StartsGain, LocalsStay
<1>4. ASSUME NEW count \in Counts, NEW size \in Sizes, CallocCall(count, size)
      PROVE  LocalsHeld' /\ MarksNest'
  <2> DEFINE c == Calloc(arena, count, size)
  <2>1. SameHeld(arena, c.arena) \/ \E n \in Nat : Gains(arena, c.arena, c.addr, n)
    BY <1>1, CallocGains
  <2>2. arena' = c.arena /\ UNCHANGED <<locals, marks, leaving>>
    BY <1>4 DEF CallocCall, Returns
  <2> HIDE DEF c
  <2> QED
    BY <2>1, <2>2, StartsSame, StartsGain, LocalsStay
<1>5. ASSUME NEW a \in Pointers, FreeCall(a)
      PROVE  LocalsHeld' /\ MarksNest'
  <2>1. a \notin LocalAddrs /\ arena' = Free(arena, a) /\ UNCHANGED <<locals, marks, leaving>>
    BY <1>5 DEF FreeCall, Returns, Result
  <2>2. Starts(arena') = Starts(arena) \ {a}
    BY <1>1, <2>1, FreeLoses, StartsLose
  <2> QED
    BY <2>1, <2>2, LocalsStay
<1>6. ASSUME NEW a \in Pointers, NEW size \in Sizes, ReallocCall(a, size)
      PROVE  LocalsHeld' /\ MarksNest'
  <2>1. /\ a \notin LocalAddrs /\ arena' = Realloc(arena, a, size).arena
        /\ UNCHANGED <<locals, marks, leaving>>
    BY <1>6 DEF ReallocCall, Returns
  <2> QED
    BY <1>1, <2>1, ReallocStarts, LocalsStay
<1>7. ASSUME NEW r \in LiveRecords(arena), NEW v \in Byte, MemSetCall(r, v)
      PROVE  LocalsHeld' /\ MarksNest'
  <2>1. arena'.recs = arena.recs /\ UNCHANGED <<locals, marks, leaving>>
    BY <1>1, <1>7 DEF MemSetCall, Returns, Result, MemSet, WellFormed, Arena
  <2> QED
    BY <2>1, SameRecordsHeld, StartsSame, LocalsStay
<1>8. CASE ResetCall
  <2>1. marks = <<>> /\ leaving = Idle /\ UNCHANGED <<locals, marks, leaving>>
    BY <1>8 DEF ResetCall, Returns, Calls
  <2>2. LocalAddrs = {}
    BY <2>1 DEF LocalsInv, MarksNest, LocalAddrs
  <2> QED
    BY <2>1, <2>2, LocalsStay
<1>9. CASE FrameEnter
  <2>1. /\ leaving = Idle /\ marks' = Append(marks, Len(locals))
        /\ UNCHANGED <<arena, locals, leaving>>
    BY <1>9 DEF FrameEnter, Calls
  <2>2. LocalsHeld'
    BY <2>1 DEF LocalsInv, LocalsHeld, LocalAddrs
  <2> DEFINE k == Len(marks)
  <2>3. /\ DOMAIN marks' = 1 .. k + 1 /\ marks'[k + 1] = Len(locals)
        /\ \A i \in 1 .. k : marks'[i] = marks[i]
        /\ Len(marks') = k + 1 /\ marks' \in Seq(Nat)
    BY <1>2, <2>1, AppendKeeps
  <2>4. k = 0 <=> marks = <<>>
    BY <1>2, EmptySeq
  <2>5. k \in Nat /\ DOMAIN marks = 1 .. k
    BY <1>2
  <2> HIDE DEF k
  <2>6. \A i \in 1 .. k + 1 : marks'[i] <= Len(locals)
    BY <1>2, <2>1, <2>3, <2>5 DEF LocalsInv, MarksNest
  <2>7. ASSUME NEW i \in 1 .. k + 1, NEW j \in 1 .. k + 1, i < j
        PROVE  marks'[i] <= marks'[j]
    <3>1. CASE j = k + 1
      BY <2>3, <2>6, <3>1
    <3>2. CASE j # k + 1
      <4>1. i \in 1 .. k /\ j \in 1 .. k
        BY <2>5, <2>7, <3>2
      <4> QED
        BY <2>3, <2>5, <2>7, <4>1 DEF LocalsInv, MarksNest
    <3> QED
      BY <3>1, <3>2
  <2>8. marks'[1] = 0
    <3>1. CASE k = 0
      <4>1. locals = <<>>
        BY <2>1, <2>4, <3>1 DEF LocalsInv, MarksNest
      <4>2. Len(locals) = 0
        BY <4>1
      <4> QED
        BY <2>3, <3>1, <4>2
    <3>2. CASE k # 0
      <4>1. 1 \in 1 .. k
        BY <2>5, <3>2
      <4> QED
        BY <2>3, <2>4, <3>2, <4>1 DEF LocalsInv, MarksNest
    <3> QED
      BY <3>1, <3>2
  <2>9. marks' # <<>>
    BY <2>3, <2>5, EmptySeq
  <2>10. MarksNest'
    BY <2>1, <2>3, <2>6, <2>7, <2>8, <2>9 DEF MarksNest
  <2> QED
    BY <2>2, <2>10
<1>10. ASSUME NEW size \in Sizes, Static(size)
       PROVE  LocalsHeld' /\ MarksNest'
  <2>1. Storage(size) /\ UNCHANGED <<locals, marks, leaving>> /\ size \in Nat
    BY <1>1, <1>10 DEF Static, Storage
  <2> QED
    BY <2>1, StorageGains, LocalsStay
<1>11. ASSUME NEW size \in Sizes, Local(size)
       PROVE  LocalsHeld' /\ MarksNest'
  <2>1. /\ Storage(size) /\ size \in Nat /\ leaving = Idle /\ marks # <<>>
        /\ UNCHANGED <<marks, leaving>>
    BY <1>1, <1>11 DEF Local, Storage, Calls
  <2>2. CASE ret' = NULL
    <3>1. panicked' /\ Starts(arena') = Starts(arena)
      BY <2>1, <2>2, StorageGains
    <3>2. UNCHANGED <<locals, marks, leaving>>
      BY <1>11, <2>1, <3>1 DEF Local
    <3> QED
      BY <3>1, <3>2, LocalsStay
  <2>3. CASE ret' # NULL
    <3>1. /\ ~panicked' /\ Starts(arena') = Starts(arena) \cup {ret'}
          /\ ret' \notin Starts(arena)
      BY <2>1, <2>3, StorageGains
    <3>2. locals' = Append(locals, ret')
      BY <1>11, <3>1 DEF Local
    <3>3. ret' \in Nat
      <4>1. Inv
        BY DEF LocalsInv
      <4> QED
        BY <2>1, <4>1, StorageKeeps, BaseAssumption, ReserveAssumption DEF NULL
    <3> DEFINE k == Len(locals)
    <3>4. /\ DOMAIN locals' = 1 .. k + 1 /\ locals'[k + 1] = ret' /\ Len(locals') = k + 1
          /\ \A i \in 1 .. k : locals'[i] = locals[i]
          /\ k \in Nat /\ DOMAIN locals = 1 .. k
      BY <1>2, <3>2, <3>3, AppendKeeps
    <3> HIDE DEF k
    <3>5. /\ \A i \in 1 .. k : locals[i] \in Starts(arena)
          /\ \A i, j \in 1 .. k : locals[i] = locals[j] => i = j
      BY <3>4 DEF LocalsInv, LocalsHeld, LocalAddrs, Starts
    <3>6. ASSUME NEW i \in 1 .. k + 1
          PROVE  locals'[i] \in Starts(arena') /\ (i # k + 1 => locals'[i] # ret')
      <4>1. CASE i = k + 1
        BY <3>1, <3>4, <4>1
      <4>2. CASE i # k + 1
        <5>1. i \in 1 .. k
          BY <3>4, <4>2
        <5> QED
          BY <3>1, <3>4, <3>5, <5>1
      <4> QED
        BY <4>1, <4>2
    <3>7. ASSUME NEW i \in 1 .. k + 1, NEW j \in 1 .. k + 1, locals'[i] = locals'[j]
          PROVE  i = j
      <4>1. CASE i = k + 1 \/ j = k + 1
        BY <3>4, <3>6, <3>7, <4>1
      <4>2. CASE ~(i = k + 1 \/ j = k + 1)
        <5>1. i \in 1 .. k /\ j \in 1 .. k
          BY <3>4, <4>2
        <5> QED
          BY <3>4, <3>5, <3>7, <5>1
      <4> QED
        BY <4>1, <4>2
    <3>8. LocalsHeld'
      BY <3>4, <3>6, <3>7 DEF LocalsHeld, LocalAddrs, Starts
    <3>9. \A i \in DOMAIN marks : marks[i] \in Nat /\ marks[i] <= k
      BY <1>2, <2>1 DEF LocalsInv, MarksNest, k
    <3>10. \A i \in DOMAIN marks : marks[i] <= k + 1
      BY <3>4, <3>9
    <3>11. MarksNest'
      BY <2>1, <3>4, <3>10 DEF LocalsInv, MarksNest
    <3> QED
      BY <3>8, <3>11
  <2> QED
    BY <2>2, <2>3
<1>12. CASE FrameLeave
  <2>1. /\ leaving = Idle /\ marks # <<>> /\ leaving' = marks[Len(marks)]
        /\ marks' = SubSeq(marks, 1, Len(marks) - 1)
        /\ UNCHANGED <<arena, locals>>
    BY <1>12 DEF FrameLeave, Calls
  <2>2. LocalsHeld'
    BY <2>1 DEF LocalsInv, LocalsHeld, LocalAddrs
  <2> DEFINE k == Len(marks)
             n == Len(locals)
  <2>3. /\ k \in Nat /\ k > 0 /\ DOMAIN marks = 1 .. k /\ marks[k] \in Nat /\ leaving' = marks[k]
        /\ marks' \in Seq(Nat) /\ DOMAIN marks' = 1 .. k - 1 /\ Len(marks') = k - 1
        /\ \A i \in 1 .. k - 1 : marks'[i] = marks[i]
    BY <1>2, <2>1, Shortened
  <2>4. n \in Nat /\ \A i \in 1 .. k : marks[i] <= n
    BY <1>2, <2>1, <2>3 DEF LocalsInv, MarksNest
  <2>5. /\ \A i, j \in 1 .. k : i < j => marks[i] <= marks[j]
        /\ marks[1] = 0
    BY <2>1, <2>3 DEF LocalsInv, MarksNest
  <2>6. n = Len(locals')
    BY <2>1
  <2>7. marks' = <<>> => k = 1
    <3> HIDE DEF k
    <3>1. marks' = <<>> => Len(marks') = 0
      OBVIOUS
    <3> QED
      BY <2>3, <3>1
  <2> HIDE DEF k, n
  <2>8. leaving' # Idle /\ leaving' <= n /\ leaving' \in Nat
    <3>1. k \in 1 .. k
      BY <2>3
    <3> QED
      BY <2>3, <2>4, <3>1 DEF Idle
  <2>9. \A i \in 1 .. k - 1 : i \in 1 .. k /\ i < k /\ k \in 1 .. k
    BY <2>3
  <2>10. \A i \in 1 .. k - 1 : marks'[i] <= leaving'
    BY <2>3, <2>5, <2>9
  <2>11. \A i, j \in 1 .. k - 1 : i < j => marks'[i] <= marks'[j]
    BY <2>3, <2>5, <2>9
  <2>12. marks' # <<>> => marks'[1] = 0
    <3>1. marks' # <<>> => k - 1 # 0
      BY <2>3, EmptySeq
    <3>2. k - 1 # 0 => 1 \in 1 .. k - 1
      BY <2>3
    <3> QED
      BY <2>3, <2>5, <3>1, <3>2
  <2>13. marks' = <<>> => leaving' = 0
    BY <2>3, <2>5, <2>7
  <2>14. marks' = <<>> => leaving' <= 0 /\ (leaving' = Idle => locals' = <<>>)
    BY <2>8, <2>13
  <2>15. MarksNest'
    BY <2>3, <2>6, <2>8, <2>10, <2>11, <2>12, <2>14 DEF MarksNest
  <2> QED
    BY <2>2, <2>15
<1>13. CASE ReleaseLocal
  <2> DEFINE n == Len(locals)
  <2>1. /\ leaving # Idle /\ n > leaving /\ arena' = Free(arena, locals[n])
        /\ locals' = SubSeq(locals, 1, n - 1) /\ UNCHANGED <<marks, leaving>>
        /\ leaving \in Nat
    BY <1>2, <1>13 DEF ReleaseLocal
  <2>2. locals # <<>>
    <3>1. n > 0
      BY <1>2, <2>1
    <3> QED
      BY <3>1
  <2>3. /\ n \in Nat /\ n > 0 /\ DOMAIN locals = 1 .. n
        /\ DOMAIN locals' = 1 .. n - 1 /\ Len(locals') = n - 1
        /\ \A i \in 1 .. n - 1 : locals'[i] = locals[i]
    BY <1>2, <2>1, <2>2, Shortened
  <2>4. Starts(arena') = Starts(arena) \ {locals[n]}
    BY <1>1, <2>1, FreeLoses, StartsLose
  <2> HIDE DEF n
  <2>5. /\ \A i \in 1 .. n : locals[i] \in Starts(arena)
        /\ \A i, j \in 1 .. n : locals[i] = locals[j] => i = j
    BY <2>3 DEF LocalsInv, LocalsHeld, LocalAddrs, Starts
  <2>6. \A i \in 1 .. n - 1 : i \in 1 .. n /\ i # n /\ n \in 1 .. n
    BY <2>3
  <2>7. \A i \in 1 .. n - 1 : locals'[i] \in Starts(arena')
    BY <2>3, <2>4, <2>5, <2>6
  <2>8. \A i, j \in 1 .. n - 1 : locals'[i] = locals'[j] => i = j
    BY <2>3, <2>5, <2>6
  <2>9. LocalsHeld'
    BY <2>3, <2>7, <2>8 DEF LocalsHeld, LocalAddrs, Starts
  <2>10. leaving <= n - 1
    BY <2>1, <2>3
  <2>11. MarksNest'
    BY <2>1, <2>3, <2>10 DEF LocalsInv, MarksNest
  <2> QED
    BY <2>9, <2>11
<1>14. CASE FrameLeft
  <2>1. /\ leaving # Idle /\ Len(locals) <= leaving /\ leaving' = Idle
        /\ UNCHANGED <<arena, locals, marks>> /\ leaving \in Nat
    BY <1>2, <1>14 DEF FrameLeft
  <2>2. Len(locals) = leaving
    <3> DEFINE n == Len(locals)
    <3>1. leaving <= n /\ n <= leaving
      BY <2>1 DEF LocalsInv, MarksNest
    <3>2. n \in Nat /\ leaving \in Nat
      BY <1>2, <2>1
    <3> HIDE DEF n
    <3>3. n = leaving
      BY <3>1, <3>2
    <3> QED
      BY <3>3 DEF n
  <2>3. marks = <<>> => locals = <<>>
    <3>1. marks = <<>> => leaving = 0
      BY <2>1 DEF LocalsInv, MarksNest
    <3>2. Len(locals) = 0 => locals = <<>>
      BY <1>2, EmptySeq
    <3> QED
      BY <2>2, <3>1, <3>2
  <2>4. LocalsHeld'
    BY <2>1 DEF LocalsInv, LocalsHeld, LocalAddrs
  <2>5. MarksNest'
    BY <2>1, <2>2, <2>3 DEF LocalsInv, MarksNest, Idle
  <2> QED
    BY <2>4, <2>5
<1>15. CASE UNCHANGED vars
  BY <1>15 DEF vars, LocalsInv, LocalsHeld, MarksNest, LocalAddrs
<1> QED
  BY <1>3, <1>4, <1>5, <1>6, <1>7, <1>8, <1>9, <1>10, <1>11, <1>12, <1>13, <1>14, <1>15
     DEF Next

LEMMA LocalsInvInitially == Init => LocalsInv
<1> SUFFICES ASSUME Init
             PROVE  LocalsInv
  OBVIOUS
<1>1. /\ locals = <<>> /\ marks = <<>> /\ leaving = Idle
      /\ DOMAIN locals = {} /\ DOMAIN marks = {}
  BY DEF Init
<1>2. LocalsHeld
  BY <1>1 DEF LocalsHeld, LocalAddrs
<1>3. MarksNest
  BY <1>1 DEF MarksNest, Idle
<1> QED
  BY <1>2, <1>3, InvInitially DEF LocalsInv

(* Every object of an open frame is a live block of its own: no malloc,     *)
(* calloc, realloc, free or frame_leave gives the storage of a C local to   *)
(* another owner while the frame that declared it is open.                  *)
THEOREM LocalsKept == Spec => []LocalsHeld
<1>1. LocalsInv => LocalsHeld
  BY DEF LocalsInv
<1> QED
  BY <1>1, LocalsInvInitially, LocalsInductive, PTL DEF Spec

-----------------------------------------------------------------------------
(* The refinement.  What the program sees of an arena are the live blocks   *)
(* that frame_leave is not about to release, with their bytes: all of a     *)
(* record but its number.                                                   *)
Releasing == {locals[i] : i \in {j \in DOMAIN locals : leaving # Idle /\ j > leaving}}

Kept(h, S) == {r \in LiveRecords(h) : h.recs[r].addr \notin S}

View(h, S) ==
    [a \in {h.recs[r].addr : r \in Kept(h, S)} |->
        LET rec == h.recs[CHOOSE r \in Kept(h, S) : h.recs[r].addr = a]
        IN  [o \in 0 .. rec.size - 1 |-> h.byte[rec.addr - Base + o]]]

LEMMA HeldIsView == HeldBlocks = View(arena, Releasing)
<1>1. HeldRecords = Kept(arena, Releasing)
  BY DEF HeldRecords, Kept, Releasing
<1> QED
  BY <1>1 DEF HeldBlocks, View, Contents

LEMMA HeldIsViewAfter == HeldBlocks' = View(arena', Releasing')
<1>1. HeldRecords' = Kept(arena', Releasing')
  BY DEF HeldRecords, Kept, Releasing
<1> QED
  BY <1>1 DEF HeldBlocks, View, Contents

(* The bytes of the n bytes at a. *)
Block(h, a, n) == [o \in 0 .. n - 1 |-> ByteAt(h, a, o)]

LEMMA ViewDomain ==
    ASSUME NEW h, NEW S
    PROVE  DOMAIN View(h, S) = Starts(h) \ S
BY DEF View, Kept, Starts

LEMMA ViewFunction ==
    ASSUME NEW h, NEW S, NEW D, Starts(h) \ S = D
    PROVE  View(h, S) = [a \in D |-> View(h, S)[a]]
<1>1. {h.recs[r].addr : r \in Kept(h, S)} = D
  BY DEF Kept, Starts
<1> QED
  BY <1>1 DEF View

LEMMA ViewBlock ==
    ASSUME NEW h, WellFormed(h), NEW S, NEW a, NEW n, Holds(h, a, n), a \notin S
    PROVE  View(h, S)[a] = Block(h, a, n)
<1> DEFINE s == CHOOSE r \in Kept(h, S) : h.recs[r].addr = a
<1>1. \E r \in Kept(h, S) : h.recs[r].addr = a
  BY DEF Holds, Kept
<1>2. s \in Kept(h, S) /\ h.recs[s].addr = a
  BY <1>1
<1>3. a \in {h.recs[r].addr : r \in Kept(h, S)}
  BY <1>1
<1>4. View(h, S)[a] = [o \in 0 .. h.recs[s].size - 1 |-> h.byte[h.recs[s].addr - Base + o]]
  BY <1>3 DEF View
<1>5. Holds(h, a, h.recs[s].size)
  BY <1>2 DEF Holds, Kept
<1> HIDE DEF s
<1>6. h.recs[s].size = n
  BY <1>5, HoldsOnce
<1> QED
  BY <1>2, <1>4, <1>6 DEF Block, ByteAt

LEMMA StartHeld == ASSUME NEW h, NEW a \in Starts(h) PROVE \E n : Holds(h, a, n)
BY StartsHeld

(* The block at a is seen alike in both arenas. *)
LEMMA ViewKeeps ==
    ASSUME NEW h, WellFormed(h), NEW g, WellFormed(g), NEW S, NEW T, NEW a,
           NEW n, Holds(h, a, n), Holds(g, a, n), a \notin S, a \notin T,
           \A o \in 0 .. n - 1 : ByteAt(g, a, o) = ByteAt(h, a, o)
    PROVE  View(g, T)[a] = View(h, S)[a]
<1>1. View(h, S)[a] = Block(h, a, n) /\ View(g, T)[a] = Block(g, a, n)
  BY ViewBlock
<1> QED
  BY <1>1 DEF Block

LEMMA ViewSame ==
    ASSUME NEW h, WellFormed(h), NEW g, WellFormed(g), SameHeld(h, g), g.byte = h.byte, NEW S
    PROVE  View(g, S) = View(h, S)
<1>1. Starts(g) = Starts(h)
  BY StartsSame
<1>2. ASSUME NEW a \in Starts(h) \ S
      PROVE  View(g, S)[a] = View(h, S)[a]
  <2>1. PICK n : Holds(h, a, n)
    BY StartHeld
  <2>2. Holds(g, a, n)
    BY <2>1 DEF SameHeld
  <2>3. \A o \in 0 .. n - 1 : ByteAt(g, a, o) = ByteAt(h, a, o)
    BY DEF ByteAt
  <2> QED
    BY <2>1, <2>2, <2>3, ViewKeeps
<1>3. View(h, S) = [a \in Starts(h) \ S |-> View(h, S)[a]]
  BY ViewFunction
<1>4. View(g, S) = [a \in Starts(h) \ S |-> View(g, S)[a]]
  BY <1>1, ViewFunction
<1> QED
  BY <1>2, <1>3, <1>4

Without(v, S) == [a \in DOMAIN v \ S |-> v[a]]

(* free takes the block at a, and no other, from what the program sees. *)
LEMMA ViewLoses ==
    ASSUME NEW h, WellFormed(h), NEW a, NEW S, NEW T, S \cup {a} = T \cup {a}
    PROVE  View(Free(h, a), T) = Without(View(h, S), {a})
<1> DEFINE g == Free(h, a)
<1>1. WellFormed(g) /\ Loses(h, g, a) /\ g.byte = h.byte
  BY FreeWellFormed, FreeLoses
<1> HIDE DEF g
<1>2. Starts(g) \ T = (Starts(h) \ S) \ {a}
  BY <1>1, StartsLose
<1>3. ASSUME NEW b \in (Starts(h) \ S) \ {a}
      PROVE  View(g, T)[b] = View(h, S)[b]
  <2>1. PICK n : Holds(h, b, n)
    BY StartHeld
  <2>2. Holds(g, b, n)
    BY <1>1, <2>1 DEF Loses
  <2>3. \A o \in 0 .. n - 1 : ByteAt(g, b, o) = ByteAt(h, b, o)
    BY <1>1 DEF ByteAt
  <2>4. b \notin S /\ b \notin T
    BY <1>3
  <2> QED
    BY <1>1, <2>1, <2>2, <2>3, <2>4, ViewKeeps
<1>4. View(g, T) = [b \in (Starts(h) \ S) \ {a} |-> View(g, T)[b]]
  BY <1>2, ViewFunction
<1>5. View(g, T) = [b \in (Starts(h) \ S) \ {a} |-> View(h, S)[b]]
  BY <1>3, <1>4
<1>6. DOMAIN View(h, S) = Starts(h) \ S
  BY ViewDomain
<1> QED
  BY <1>5, <1>6 DEF g, Without

(* Two runs of cells, one of which ends where or before the other begins. *)
LEMMA Disjoint ==
    ASSUME NEW p \in Int, NEW q \in Int, NEW c \in Int, NEW d \in Int,
           p + c <= q \/ q + d <= p, NEW o \in 0 .. c - 1, NEW k \in 0 .. d - 1
    PROVE  p + o # q + k
OBVIOUS

(* A call that returns a block of n bytes at b and leaves those of K: what  *)
(* C!Return asks, for the views before and after.                           *)
Leaves(h, g, K, b, n) ==
    \A x, m : Holds(g, x, m) <=> (Holds(h, x, m) /\ x \in K) \/ (x = b /\ m = n)

KeepsBytes(h, g, K) ==
    \A x, m : Holds(h, x, m) /\ x \in K =>
        \A o \in 0 .. m - 1 : ByteAt(g, x, o) = ByteAt(h, x, o)

Returned(v, w, K, b, size) ==
    /\ b # NULL /\ b \notin K /\ b % Align = 0
    /\ DOMAIN w = K \cup {b}
    /\ \A a \in K : w[a] = v[a]
    /\ 0 .. size - 1 \subseteq DOMAIN w[b]
    /\ \A a \in K : {a + o : o \in DOMAIN v[a]} \cap {b + o : o \in DOMAIN w[b]} = {}

LEMMA ReturnsView ==
    ASSUME NEW h, WellFormed(h), NEW g, WellFormed(g), NEW K, K \subseteq Starts(h),
           NEW b, b \notin K, NEW n, NEW size \in Nat, size <= n,
           Leaves(h, g, K, b, n), KeepsBytes(h, g, K)
    PROVE  /\ Returned(View(h, {}), View(g, {}), K, b, size)
           /\ View(g, {})[b] = Block(g, b, n)
<1>1. Holds(g, b, n)
  BY DEF Leaves
<1>2. b \in Nat /\ b # NULL /\ b % Align = 0 /\ n \in Nat
  BY <1>1, HoldsFacts
<1>3. DOMAIN View(g, {}) = K \cup {b}
  <2>1. \A x : x \in Starts(g) <=> x \in K \/ x = b
    BY StartsHeld DEF Leaves
  <2>2. Starts(g) \ {} = K \cup {b}
    BY <2>1
  <2> QED
    BY <2>2, ViewDomain
<1>4. View(g, {})[b] = Block(g, b, n)
  BY <1>1, ViewBlock
<1>5. 0 .. size - 1 \subseteq 0 .. n - 1
  BY <1>2
<1>6. 0 .. size - 1 \subseteq DOMAIN View(g, {})[b]
  BY <1>4, <1>5 DEF Block
<1>7. ASSUME NEW a \in K
      PROVE  /\ View(g, {})[a] = View(h, {})[a]
             /\ {a + o : o \in DOMAIN View(h, {})[a]}
                  \cap {b + o : o \in DOMAIN View(g, {})[b]} = {}
  <2>1. PICK m : Holds(h, a, m)
    BY StartHeld
  <2>2. Holds(g, a, m) /\ a # b
    BY <1>7, <2>1 DEF Leaves
  <2>3. View(g, {})[a] = View(h, {})[a]
    BY <2>1, <2>2, ViewKeeps DEF KeepsBytes
  <2>4. DOMAIN View(h, {})[a] = 0 .. m - 1
    <3>1. View(h, {})[a] = Block(h, a, m)
      BY <2>1, ViewBlock
    <3> QED
      BY <3>1 DEF Block
  <2>5. a \in Nat /\ m \in Nat
    BY <2>1, HoldsFacts
  <2>6. a + m <= b \/ b + n <= a
    BY <1>1, <2>2, HoldsApart
  <2>7. \A o \in 0 .. m - 1, k \in 0 .. n - 1 : a + o # b + k
    BY <1>2, <2>5, <2>6, Disjoint
  <2>8. DOMAIN View(g, {})[b] = 0 .. n - 1
    BY <1>4 DEF Block
  <2> QED
    BY <2>3, <2>4, <2>7, <2>8
<1> QED
  BY <1>2, <1>3, <1>4, <1>6, <1>7 DEF Returned

-----------------------------------------------------------------------------
(* The frames the program sees: each mark up to the next one. *)
Top == IF leaving # Idle THEN leaving ELSE Len(locals)

(* The objects from the one after number m to number t. *)
Between(l, m, t) == {l[j] : j \in m + 1 .. t}

NextMark(m, i, t) == IF i < Len(m) THEN m[i + 1] ELSE t

LEMMA FramesAre ==
    FrameObjects = [i \in DOMAIN marks |-> Between(locals, marks[i], NextMark(marks, i, Top))]
BY DEF FrameObjects, Between, NextMark, Top

LEMMA FramesAreAfter ==
    FrameObjects' = [i \in DOMAIN marks' |->
                        Between(locals', marks'[i], NextMark(marks', i, Top'))]
BY DEF FrameObjects, Between, NextMark, Top

LEMMA FramesSame ==
    ASSUME UNCHANGED <<locals, marks, leaving>>
    PROVE  FrameObjects' = FrameObjects
BY DEF FrameObjects

(* The marks and the top lie within the objects. *)
LEMMA MarksFacts ==
    ASSUME LocalsInv
    PROVE  /\ Len(marks) \in Nat /\ DOMAIN marks = 1 .. Len(marks)
           /\ Len(locals) \in Nat /\ DOMAIN locals = 1 .. Len(locals)
           /\ Top \in Nat /\ Top <= Len(locals)
           /\ \A i \in 1 .. Len(marks) :
                /\ marks[i] \in Nat /\ marks[i] <= Top
                /\ NextMark(marks, i, Top) \in Nat /\ NextMark(marks, i, Top) <= Top
<1>1. /\ Len(marks) \in Nat /\ DOMAIN marks = 1 .. Len(marks)
      /\ Len(locals) \in Nat /\ DOMAIN locals = 1 .. Len(locals)
      /\ \A i \in 1 .. Len(marks) : marks[i] \in Nat
      /\ leaving \in Nat \cup {Idle}
  BY DEF LocalsInv, Inv, TypeOK
<1>2. (leaving # Idle => leaving <= Len(locals)) /\ \A i \in DOMAIN marks : marks[i] <= Top
  BY DEF LocalsInv, MarksNest, Top
<1>3. Top \in Nat /\ Top <= Len(locals)
  BY <1>1, <1>2 DEF Top
<1>4. ASSUME NEW i \in 1 .. Len(marks)
      PROVE  NextMark(marks, i, Top) \in Nat /\ NextMark(marks, i, Top) <= Top
  <2>1. CASE i < Len(marks)
    <3>1. i + 1 \in 1 .. Len(marks)
      BY <1>1, <2>1
    <3> QED
      BY <1>1, <1>2, <2>1, <3>1 DEF NextMark
  <2>2. CASE ~(i < Len(marks))
    <3>1. Top <= Top
      BY <1>3
    <3> QED
      BY <1>3, <2>2, <3>1 DEF NextMark
  <2> QED
    BY <2>1, <2>2
<1> QED
  BY <1>1, <1>2, <1>3, <1>4

(* The objects of the frames are objects. *)
LEMMA InFramesAreLocals == ASSUME LocalsInv PROVE C!InFrames \subseteq LocalAddrs
<1> SUFFICES ASSUME NEW i \in DOMAIN marks, NEW a \in FrameObjects[i]
             PROVE  a \in LocalAddrs
  BY FramesAre DEF C!InFrames
<1> DEFINE t == NextMark(marks, i, Top)
<1>1. i \in 1 .. Len(marks) /\ marks[i] \in Nat /\ t \in Nat /\ t <= Top
  BY MarksFacts
<1>2. Top \in Nat /\ Top <= Len(locals) /\ Len(locals) \in Nat
      /\ DOMAIN locals = 1 .. Len(locals)
  BY MarksFacts
<1>3. a \in Between(locals, marks[i], t)
  BY FramesAre
<1> HIDE DEF t
<1>4. PICK j \in marks[i] + 1 .. t : a = locals[j]
  BY <1>3 DEF Between
<1> DEFINE n == Len(locals)
           b == marks[i]
<1>5. j \in 1 .. n
  <2>1. b \in Nat /\ t \in Nat /\ t <= Top /\ Top \in Nat /\ Top <= n /\ n \in Nat /\ j \in b + 1 .. t
    BY <1>1, <1>2
  <2> HIDE DEF n, b
  <2> QED
    BY <2>1
<1> QED
  BY <1>2, <1>4, <1>5 DEF LocalAddrs

LEMMA FramesLength ==
    ASSUME LocalsInv
    PROVE  FrameObjects \in Seq(SUBSET LocalAddrs) /\ Len(FrameObjects) = Len(marks)
<1>1. DOMAIN FrameObjects = 1 .. Len(marks) /\ Len(marks) \in Nat
  BY FramesAre, MarksFacts
<1>2. FrameObjects = [i \in 1 .. Len(marks) |-> FrameObjects[i]]
  BY FramesAre, <1>1
<1>3. \A i \in 1 .. Len(marks) : FrameObjects[i] \in SUBSET LocalAddrs
  BY <1>1, InFramesAreLocals DEF C!InFrames
<1>4. FrameObjects \in [1 .. Len(marks) -> SUBSET LocalAddrs]
  BY <1>2, <1>3
<1> QED
  BY <1>1, <1>4

-----------------------------------------------------------------------------
(* The program calls, and its call ends, when no frame is being left: it    *)
(* sees every live block.                                                   *)
LEMMA CallsSee ==
    ASSUME LocalsInv, LocalsInv', leaving = Idle, leaving' = Idle
    PROVE  /\ HeldBlocks = View(arena, {}) /\ HeldBlocks' = View(arena', {})
           /\ C!Held = Starts(arena)
           /\ WellFormed(arena) /\ WellFormed(arena')
<1>1. Releasing = {} /\ Releasing' = {}
  BY DEF Releasing
<1>2. WellFormed(arena) /\ WellFormed(arena')
  BY DEF LocalsInv, Inv
<1>3. Starts(arena) \ {} = Starts(arena)
  OBVIOUS
<1> QED
  BY <1>1, <1>2, <1>3, HeldIsView, HeldIsViewAfter, ViewDomain DEF C!Held

LEMMA RefuseMaps ==
    ASSUME LocalsInv, LocalsInv', UNCHANGED <<locals, marks, leaving>>, leaving = Idle,
           ret' = NULL, SameHeld(arena, arena'), arena'.byte = arena.byte
    PROVE  C!Refuse
<1>1. FrameObjects' = FrameObjects
  BY FramesSame
<1>2. HeldBlocks' = HeldBlocks
  <2>1. leaving' = Idle
    OBVIOUS
  <2> QED
    BY <2>1, CallsSee, ViewSame
<1> QED
  BY <1>1, <1>2 DEF C!Refuse

(* A new block. *)
LEMMA GainMaps ==
    ASSUME LocalsInv, LocalsInv', leaving = Idle, leaving' = Idle,
           NEW n \in Nat, NEW size \in Nat, n >= size, Gains(arena, arena', ret', n),
           KeepsBytes(arena, arena', Starts(arena))
    PROVE  /\ C!Return(C!Held, size)
           /\ HeldBlocks'[ret'] = Block(arena', ret', n)
<1> DEFINE K == Starts(arena)
<1>1. /\ HeldBlocks = View(arena, {}) /\ HeldBlocks' = View(arena', {}) /\ C!Held = K
      /\ WellFormed(arena) /\ WellFormed(arena')
  BY CallsSee
<1>2. \A x, m : Holds(arena, x, m) => x \in K
  BY StartsHeld
<1>3. ret' \notin K
  BY StartsGain
<1>4. K \subseteq Starts(arena)
  OBVIOUS
<1> HIDE DEF K
<1>5. Leaves(arena, arena', K, ret', n)
  BY <1>2 DEF Gains, Leaves
<1>6. KeepsBytes(arena, arena', K)
  BY DEF K
<1>7. /\ Returned(View(arena, {}), View(arena', {}), K, ret', size)
      /\ View(arena', {})[ret'] = Block(arena', ret', n)
  BY <1>1, <1>3, <1>4, <1>5, <1>6, ReturnsView
<1> QED
  BY <1>1, <1>7 DEF C!Return, C!Bytes, Returned

-----------------------------------------------------------------------------
LEMMA SameBytes ==
    ASSUME NEW h, NEW g, g.byte = h.byte, NEW K
    PROVE  KeepsBytes(h, g, K)
BY DEF KeepsBytes, ByteAt

(* malloc, called by the program or by realloc(NULL). *)
LEMMA MallocMaps ==
    ASSUME LocalsInv, LocalsInv', leaving = Idle, UNCHANGED <<locals, marks, leaving>>,
           NEW size \in Nat, asked' = size,
           arena' = Malloc(arena, size).arena, ret' = Malloc(arena, size).addr
    PROVE  C!Malloc(size)
<1> DEFINE m == Malloc(arena, size)
<1>1. WellFormed(arena)
  BY ArenaIsWellFormed
<1>2. /\ arena' = m.arena /\ ret' = m.addr
      /\ m.arena.byte = arena.byte
      /\ \/ m.addr = NULL /\ SameHeld(arena, m.arena)
         \/ \E n \in Nat : n >= size /\ Gains(arena, m.arena, m.addr, n)
  BY <1>1, MallocGains
<1> HIDE DEF m
<1>3. arena'.byte = arena.byte
  BY <1>2
<1>4. CASE m.addr = NULL /\ SameHeld(arena, m.arena)
  <2>1. C!Refuse
    BY <1>2, <1>3, <1>4, RefuseMaps
  <2> QED
    BY <2>1 DEF C!Malloc
<1>5. ASSUME NEW n \in Nat, n >= size, Gains(arena, m.arena, m.addr, n)
      PROVE  C!Malloc(size)
  <2>1. leaving' = Idle /\ KeepsBytes(arena, arena', Starts(arena)) /\ Gains(arena, arena', ret', n)
    BY <1>2, <1>3, <1>5, SameBytes
  <2>2. C!Return(C!Held, size)
    BY <1>5, <2>1, GainMaps
  <2>3. FrameObjects' = FrameObjects
    BY FramesSame
  <2> QED
    BY <2>2, <2>3 DEF C!Malloc
<1> QED
  BY <1>2, <1>4, <1>5

(* calloc, called by the program or for the storage of an object. *)
LEMMA CallocMaps ==
    ASSUME LocalsInv, LocalsInv', leaving = Idle, leaving' = Idle,
           NEW count \in Nat, NEW size \in Nat, NEW z \in Nat, z <= count * size,
           arena' = Calloc(arena, count, size).arena, ret' = Calloc(arena, count, size).addr
    PROVE  \/ ret' = NULL /\ SameHeld(arena, arena') /\ arena'.byte = arena.byte
           \/ C!Zeroed(z)
<1> DEFINE c == Calloc(arena, count, size)
           total == count * size
<1>1. WellFormed(arena) /\ WellFormed(arena') /\ total \in Nat
  BY CallsSee
<1>2. /\ arena' = c.arena /\ ret' = c.addr
      /\ \/ c.addr = NULL /\ SameHeld(arena, c.arena) /\ c.arena.byte = arena.byte
         \/ /\ \E n \in Nat : n >= total /\ Gains(arena, c.arena, c.addr, n)
            /\ c.arena.byte = [o \in Offset |->
                   IF Base + o \in c.addr .. c.addr + total - 1 THEN 0 ELSE arena.byte[o]]
  BY <1>1, CallocGains
<1>3. z <= total
  OBVIOUS
<1> HIDE DEF c, total
<1>4. ASSUME NEW n \in Nat, n >= total, Gains(arena, arena', ret', n),
             arena'.byte = [o \in Offset |->
                 IF Base + o \in ret' .. ret' + total - 1 THEN 0 ELSE arena.byte[o]]
      PROVE  C!Zeroed(z)
  <2>1. Holds(arena', ret', n)
    BY <1>4 DEF Gains
  <2>2. ret' \in Nat
    BY <1>1, <2>1, HoldsFacts
  <2>3. ASSUME NEW x, NEW m, Holds(arena, x, m), NEW o \in 0 .. m - 1
        PROVE  ByteAt(arena', x, o) = ByteAt(arena, x, o)
    <3>1. Holds(arena', x, m) /\ x # ret'
      BY <1>4, <2>3 DEF Gains
    <3>2. x \in Nat /\ m \in Nat /\ (x + m <= ret' \/ ret' + n <= x)
      BY <1>1, <2>1, <3>1, HoldsFacts, HoldsApart
    <3>3. x - Base + o \in Offset /\ Base + (x - Base + o) = x + o
      BY <1>1, <2>3, InOffset
    <3>4. x + o \notin ret' .. ret' + total - 1
      <4>1. PICK b \in Nat : b = ret'
        BY <2>2
      <4>2. x + m <= b \/ b + n <= x
        BY <3>2, <4>1
      <4>3. x + o \notin b .. b + total - 1
        BY <1>1, <1>4, <3>2, <4>2
      <4> QED
        BY <4>1, <4>3
    <3>5. arena'.byte[x - Base + o] = arena.byte[x - Base + o]
      BY <1>4, <3>3, <3>4
    <3> QED
      BY <3>5 DEF ByteAt
  <2>4. KeepsBytes(arena, arena', Starts(arena))
    BY <2>3 DEF KeepsBytes
  <2>5. n >= z
    BY <1>1, <1>3, <1>4
  <2>6. C!Return(C!Held, z) /\ HeldBlocks'[ret'] = Block(arena', ret', n)
    BY <1>4, <2>4, <2>5, GainMaps
  <2>7. ASSUME NEW o \in 0 .. z - 1
        PROVE  HeldBlocks'[ret'][o] = 0
    <3>1. PICK b \in Nat : b = ret'
      BY <2>2
    <3>2. o \in 0 .. n - 1 /\ o \in Int
      BY <2>5
    <3>3. b - Base + o \in Offset /\ Base + (b - Base + o) = b + o
      BY <1>1, <2>1, <3>1, <3>2, InOffset
    <3>4. b + o \in b .. b + total - 1
      BY <1>1, <1>3, <3>1
    <3>5. arena'.byte[b - Base + o] = 0
      BY <1>4, <3>1, <3>3, <3>4
    <3> QED
      BY <2>6, <3>1, <3>2, <3>5 DEF Block, ByteAt
  <2> QED
    BY <2>6, <2>7 DEF C!Zeroed
<1> QED
  BY <1>2, <1>4

LEMMA CallocCallMaps ==
    ASSUME LocalsInv, LocalsInv', NEW count \in Nat, NEW size \in Nat, CallocCall(count, size)
    PROVE  C!Calloc(count, size)
<1>1. /\ leaving = Idle /\ UNCHANGED <<locals, marks, leaving>> /\ leaving' = Idle
      /\ asked' = count * size
      /\ arena' = Calloc(arena, count, size).arena /\ ret' = Calloc(arena, count, size).addr
  BY DEF CallocCall, Returns, Calls
<1>2. count * size \in Nat /\ count * size <= count * size
  <2> DEFINE p == count * size
  <2>1. p \in Nat
    OBVIOUS
  <2> HIDE DEF p
  <2>2. p <= p
    BY <2>1
  <2> QED
    BY <2>1, <2>2 DEF p
<1>3. \/ ret' = NULL /\ SameHeld(arena, arena') /\ arena'.byte = arena.byte
      \/ C!Zeroed(count * size)
  BY <1>1, <1>2, CallocMaps
<1>4. (ret' = NULL /\ SameHeld(arena, arena') /\ arena'.byte = arena.byte) => C!Refuse
  BY <1>1, RefuseMaps
<1>5. FrameObjects' = FrameObjects
  BY <1>1, FramesSame
<1> QED
  BY <1>1, <1>3, <1>4, <1>5 DEF C!Calloc

LEMMA FreeMaps ==
    ASSUME LocalsInv, LocalsInv', leaving = Idle, UNCHANGED <<locals, marks, leaving>>,
           NEW a, a \notin LocalAddrs, arena' = Free(arena, a), ret' = NULL, asked' = 0
    PROVE  C!Free(a)
<1>1. /\ HeldBlocks = View(arena, {}) /\ HeldBlocks' = View(arena', {})
      /\ C!Held = Starts(arena) /\ WellFormed(arena)
  <2>1. leaving' = Idle
    OBVIOUS
  <2> QED
    BY <2>1, CallsSee
<1>2. View(Free(arena, a), {}) = Without(View(arena, {}), {a})
  BY <1>1, ViewLoses
<1>4. C!Release({a})
  BY <1>1, <1>2 DEF C!Release, C!Held, Without
<1>5. a \notin C!InFrames /\ FrameObjects' = FrameObjects
  BY InFramesAreLocals, FramesSame
<1> QED
  BY <1>4, <1>5 DEF C!Free

-----------------------------------------------------------------------------
LEMMA ReallocMaps ==
    ASSUME LocalsInv, LocalsInv', NEW a \in Nat, NEW size \in Nat, ReallocCall(a, size)
    PROVE  C!Realloc(a, size)
<1> DEFINE k == Realloc(arena, a, size)
<1>1. /\ leaving = Idle /\ UNCHANGED <<locals, marks, leaving>> /\ leaving' = Idle
      /\ asked' = size /\ arena' = k.arena /\ ret' = k.addr /\ a \notin LocalAddrs
  BY DEF ReallocCall, Returns, Calls
<1>2. /\ HeldBlocks = View(arena, {}) /\ HeldBlocks' = View(arena', {})
      /\ C!Held = Starts(arena) /\ WellFormed(arena) /\ WellFormed(arena')
  BY <1>1, CallsSee
<1>3. a \notin C!InFrames /\ FrameObjects' = FrameObjects
  BY <1>1, InFramesAreLocals, FramesSame
<1>4. CASE a = NULL
  <2>1. k = Malloc(arena, size)
    BY <1>4 DEF Realloc
  <2>2. C!Malloc(size)
    BY <1>1, <2>1, MallocMaps
  <2> QED
    BY <1>3, <1>4, <2>2 DEF C!Realloc
<1>5. CASE a # NULL /\ size = 0
  <2>1. k.arena = Free(arena, a) /\ k.addr = NULL
    BY <1>5 DEF Realloc, Result
  <2> HIDE DEF k
  <2>2. CASE a \in C!Held
    <3>1. C!Free(a)
      BY <1>1, <1>5, <2>1, FreeMaps
    <3> QED
      BY <1>3, <1>5, <2>2, <3>1 DEF C!Realloc
  <2>3. CASE a \notin C!Held
    <3>1. Loses(arena, arena', a) /\ arena'.byte = arena.byte
      BY <1>1, <1>2, <2>1, FreeLoses
    <3>2. \A m : ~Holds(arena, a, m)
      BY <1>2, <2>3, StartsHeld
    <3>3. SameHeld(arena, arena')
      BY <3>1, <3>2 DEF Loses, SameHeld
    <3>4. C!Refuse
      BY <1>1, <2>1, <3>1, <3>3, RefuseMaps
    <3> QED
      BY <1>1, <1>3, <2>3, <3>4 DEF C!Realloc
  <2> QED
    BY <2>2, <2>3
<1>6. CASE a # NULL /\ size # 0
  <2>1. \/ k.addr = NULL /\ SameHeld(arena, k.arena) /\ k.arena.byte = arena.byte
        \/ \E old, n \in Nat : /\ Holds(arena, a, old) /\ n >= size
                               /\ Resizes(arena, k.arena, a, old, k.addr, n)
    BY <1>2, <1>6, ReallocHolds
  <2> HIDE DEF k
  <2>2. CASE k.addr = NULL /\ SameHeld(arena, k.arena) /\ k.arena.byte = arena.byte
    <3>1. C!Refuse
      BY <1>1, <2>2, RefuseMaps
    <3> QED
      BY <1>1, <1>3, <1>6, <3>1 DEF C!Realloc
  <2>3. ASSUME NEW old \in Nat, NEW n \in Nat, Holds(arena, a, old), n >= size,
               Resizes(arena, arena', a, old, ret', n)
        PROVE  C!Realloc(a, size)
    <3> DEFINE K == Starts(arena) \ {a}
    <3>1. a \in Starts(arena)
      BY <2>3, StartsHeld
    <3>2. ret' \notin K /\ K \subseteq Starts(arena)
      BY <2>3, StartsResize
    <3>3. \A x, m : Holds(arena, x, m) => (x \in K <=> x # a)
      BY StartsHeld
    <3> HIDE DEF K
    <3>4. Leaves(arena, arena', K, ret', n)
      BY <2>3, <3>3 DEF Resizes, Leaves
    <3>5. KeepsBytes(arena, arena', K)
      BY <2>3, <3>3 DEF Resizes, KeepsBytes
    <3>6. /\ Returned(View(arena, {}), View(arena', {}), K, ret', size)
          /\ View(arena', {})[ret'] = Block(arena', ret', n)
      BY <1>2, <2>3, <3>2, <3>4, <3>5, ReturnsView
    <3>7. C!Return(C!Held \ {a}, size)
      BY <1>2, <3>6 DEF C!Return, C!Bytes, Returned, K
    <3>8. View(arena, {})[a] = Block(arena, a, old)
      BY <1>2, <2>3, ViewBlock
    <3>9. ASSUME NEW o \in 0 .. old - 1, o < size
          PROVE  Block(arena', ret', n)[o] = Block(arena, a, old)[o]
      <4>1. o \in 0 .. n - 1
        BY <2>3, <3>9
      <4>2. ByteAt(arena', ret', o) = ByteAt(arena, a, o)
        BY <2>3 DEF Resizes
      <4> QED
        BY <4>1, <4>2 DEF Block
    <3>10. DOMAIN HeldBlocks[a] = 0 .. old - 1
      BY <1>2, <3>8 DEF Block
    <3>11. \A o \in DOMAIN HeldBlocks[a] : o < size => HeldBlocks'[ret'][o] = HeldBlocks[a][o]
      BY <1>2, <3>6, <3>8, <3>9, <3>10
    <3>12. C!Resize(a, size)
      BY <1>1, <1>3, <3>7, <3>11 DEF C!Resize
    <3>13. size > 0
      BY <1>6
    <3> QED
      BY <1>2, <1>3, <3>1, <3>12, <3>13 DEF C!Realloc
  <2> QED
    BY <1>1, <2>1, <2>2, <2>3
<1> QED
  BY <1>4, <1>5, <1>6

LEMMA MemSetMaps ==
    ASSUME LocalsInv, LocalsInv', NEW r \in LiveRecords(arena), NEW v \in Byte,
           MemSetCall(r, v)
    PROVE  \E a \in C!Held : C!Fill(a, v)
<1> DEFINE a == arena.recs[r].addr
           n == arena.recs[r].size
<1>1. /\ leaving = Idle /\ UNCHANGED <<locals, marks, leaving>> /\ leaving' = Idle
      /\ asked' = 0 /\ arena' = MemSet(arena, a, v, n) /\ ret' = a
  BY DEF MemSetCall, Returns, Calls, Result
<1>2. /\ HeldBlocks = View(arena, {}) /\ HeldBlocks' = View(arena', {})
      /\ C!Held = Starts(arena) /\ WellFormed(arena) /\ WellFormed(arena')
  BY <1>1, CallsSee
<1>3. FrameObjects' = FrameObjects
  BY <1>1, FramesSame
<1>4. Holds(arena, a, n)
  BY DEF Holds
<1> HIDE DEF a, n
<1>5. /\ arena'.recs = arena.recs
      /\ arena'.byte = [o \in Offset |-> IF Base + o \in a .. a + n - 1 THEN v ELSE arena.byte[o]]
  BY <1>1, <1>2 DEF MemSet, WellFormed, Arena
<1>6. SameHeld(arena, arena')
  BY <1>5, SameRecordsHeld
<1>7. Starts(arena') = Starts(arena) /\ a \in Starts(arena)
  BY <1>4, <1>6, StartsSame, StartsHeld
<1>8. a \in Nat /\ n \in Nat
  BY <1>2, <1>4, HoldsFacts
<1>9. ASSUME NEW x \in Starts(arena), x # a
      PROVE  View(arena', {})[x] = View(arena, {})[x]
  <2>1. PICK m : Holds(arena, x, m)
    BY StartHeld
  <2>2. x \in Nat /\ m \in Nat /\ (x + m <= a \/ a + n <= x)
    BY <1>2, <1>4, <1>9, <2>1, HoldsFacts, HoldsApart
  <2>3. ASSUME NEW o \in 0 .. m - 1
        PROVE  ByteAt(arena', x, o) = ByteAt(arena, x, o)
    <3>1. x - Base + o \in Offset /\ Base + (x - Base + o) = x + o
      BY <1>2, <2>1, InOffset
    <3>2. x + o \notin a .. a + n - 1
      BY <1>8, <2>2
    <3>3. arena'.byte[x - Base + o] = arena.byte[x - Base + o]
      BY <1>5, <3>1, <3>2
    <3> QED
      BY <3>3 DEF ByteAt
  <2>4. Holds(arena', x, m)
    BY <1>6, <2>1 DEF SameHeld
  <2> QED
    BY <1>2, <2>1, <2>3, <2>4, ViewKeeps
<1>10. View(arena', {})[a] = [o \in 0 .. n - 1 |-> v]
  <2>1. ASSUME NEW o \in 0 .. n - 1
        PROVE  ByteAt(arena', a, o) = v
    <3>1. a - Base + o \in Offset /\ Base + (a - Base + o) = a + o
      BY <1>2, <1>4, InOffset
    <3>2. a + o \in a .. a + n - 1
      BY <1>8
    <3>3. arena'.byte[a - Base + o] = v
      BY <1>5, <3>1, <3>2
    <3> QED
      BY <3>3 DEF ByteAt
  <2>2. Holds(arena', a, n)
    BY <1>4, <1>6 DEF SameHeld
  <2>3. View(arena', {})[a] = Block(arena', a, n)
    BY <1>2, <2>2, ViewBlock
  <2> QED
    BY <2>1, <2>3 DEF Block
<1>11. DOMAIN View(arena, {})[a] = 0 .. n - 1
  <2>1. View(arena, {})[a] = Block(arena, a, n)
    BY <1>2, <1>4, ViewBlock
  <2> QED
    BY <2>1 DEF Block
<1>12. /\ View(arena, {}) = [x \in Starts(arena) |-> View(arena, {})[x]]
       /\ View(arena', {}) = [x \in Starts(arena) |-> View(arena', {})[x]]
  <2>1. Starts(arena) \ {} = Starts(arena) /\ Starts(arena') \ {} = Starts(arena)
    BY <1>7
  <2> QED
    BY <2>1, ViewFunction
<1>13. View(arena', {}) = [View(arena, {}) EXCEPT ![a] = [o \in DOMAIN View(arena, {})[a] |-> v]]
  BY <1>9, <1>10, <1>11, <1>12
<1>14. C!Fill(a, v)
  BY <1>1, <1>2, <1>3, <1>7, <1>13 DEF C!Fill
<1> QED
  BY <1>2, <1>7, <1>14

LEMMA ResetMaps == ASSUME LocalsInv, LocalsInv', ResetCall PROVE C!Reset
<1>1. /\ leaving = Idle /\ UNCHANGED <<locals, marks, leaving>> /\ leaving' = Idle
      /\ marks = <<>> /\ asked' = 0 /\ arena' = Reset(arena) /\ ret' = NULL
  BY DEF ResetCall, Returns, Calls, Result
<1>2. /\ HeldBlocks = View(arena, {}) /\ HeldBlocks' = View(arena', {}) /\ WellFormed(arena)
  BY <1>1, CallsSee
<1>3. FrameObjects' = FrameObjects
  BY <1>1, FramesSame
<1>4. FrameObjects = <<>>
  <2>1. Len(marks) = 0
    BY <1>1
  <2> QED
    BY <2>1, FramesLength, EmptySeq
<1>5. arena'.recs = <<>>
  BY <1>1, <1>2 DEF Reset, WellFormed, Arena
<1>6. Starts(arena') \ {} = {}
  BY <1>5 DEF Starts, LiveRecords
<1>7. View(arena', {}) = [x \in {} |-> View(arena', {})[x]]
  BY <1>6, ViewFunction
<1>8. C!Release(C!Held)
  <2>1. C!Held \ C!Held = {}
    OBVIOUS
  <2>2. [x \in {} |-> View(arena', {})[x]] = [x \in {} |-> HeldBlocks[x]]
    OBVIOUS
  <2> QED
    BY <1>2, <1>7, <2>1, <2>2 DEF C!Release
<1> QED
  BY <1>1, <1>3, <1>4, <1>8 DEF C!Reset

-----------------------------------------------------------------------------
LEMMA BetweenSame ==
    ASSUME NEW l, NEW g, NEW m, NEW t, \A j \in m + 1 .. t : g[j] = l[j]
    PROVE  Between(g, m, t) = Between(l, m, t)
BY DEF Between

LEMMA AppendIs ==
    ASSUME NEW S, NEW s \in Seq(S), NEW x \in S, NEW f,
           f = [i \in 1 .. Len(s) + 1 |-> f[i]],
           \A i \in 1 .. Len(s) : f[i] = s[i],
           f[Len(s) + 1] = x
    PROVE  f = Append(s, x)
<1> DEFINE n == Len(s)
           t == Append(s, x)
<1>1. /\ t \in Seq(S) /\ DOMAIN t = 1 .. n + 1 /\ t[n + 1] = x
      /\ \A i \in 1 .. n : t[i] = s[i]
  BY AppendKeeps
<1>2. n \in Nat
  OBVIOUS
<1>3. f = [i \in 1 .. n + 1 |-> f[i]] /\ f[n + 1] = x /\ \A i \in 1 .. n : f[i] = s[i]
  OBVIOUS
<1> HIDE DEF n, t
<1>4. t = [i \in DOMAIN t |-> t[i]]
  BY <1>1
<1>5. ASSUME NEW i \in 1 .. n + 1
      PROVE  f[i] = t[i]
  <2>1. i = n + 1 \/ i \in 1 .. n
    BY <1>2
  <2> QED
    BY <1>1, <1>3, <2>1
<1>6. f = t
  BY <1>1, <1>3, <1>4, <1>5
<1> QED
  BY <1>6 DEF t

LEMMA ShortenedIs ==
    ASSUME NEW S, NEW s \in Seq(S), s # <<>>, NEW f,
           f = [i \in 1 .. Len(s) - 1 |-> f[i]],
           \A i \in 1 .. Len(s) - 1 : f[i] = s[i]
    PROVE  f = SubSeq(s, 1, Len(s) - 1)
<1> DEFINE n == Len(s) - 1
           t == SubSeq(s, 1, n)
<1>1. t \in Seq(S) /\ DOMAIN t = 1 .. n /\ \A i \in 1 .. n : t[i] = s[i]
  BY Shortened
<1>2. t = [i \in DOMAIN t |-> t[i]]
  BY <1>1
<1>3. f = [i \in 1 .. n |-> f[i]] /\ \A i \in 1 .. n : f[i] = s[i]
  OBVIOUS
<1> HIDE DEF n, t
<1>4. f = t
  BY <1>1, <1>2, <1>3
<1> QED
  BY <1>4 DEF n, t

(* Objects go or come above the top: the frames stay what they are. *)
LEMMA FramesStay ==
    ASSUME LocalsInv, marks' = marks, Top' = Top,
           \A j \in 1 .. Top : locals'[j] = locals[j]
    PROVE  FrameObjects' = FrameObjects
<1>1. ASSUME NEW i \in DOMAIN marks
      PROVE  Between(locals', marks[i], NextMark(marks, i, Top))
               = Between(locals, marks[i], NextMark(marks, i, Top))
  <2> DEFINE b == marks[i]
             t == NextMark(marks, i, Top)
             p == Top
  <2>1. b \in Nat /\ t \in Nat /\ t <= p /\ p \in Nat
    BY MarksFacts
  <2>2. \A j \in 1 .. p : locals'[j] = locals[j]
    OBVIOUS
  <2> HIDE DEF b, t, p
  <2>3. \A j \in b + 1 .. t : j \in 1 .. p
    BY <2>1
  <2>4. Between(locals', b, t) = Between(locals, b, t)
    BY <2>2, <2>3, BetweenSame
  <2> QED
    BY <2>4 DEF b, t, p
<1> QED
  BY <1>1, FramesAre, FramesAreAfter

LEMMA FrameEnterMaps == ASSUME LocalsInv, LocalsInv', FrameEnter PROVE C!FrameEnter
<1>1. /\ leaving = Idle /\ leaving' = Idle /\ marks' = Append(marks, Len(locals))
      /\ locals' = locals /\ arena' = arena /\ ret' = NULL /\ asked' = 0
  BY DEF FrameEnter, Calls
<1>2. HeldBlocks' = HeldBlocks
  BY <1>1, CallsSee
<1> DEFINE k == Len(marks)
           n == Len(locals)
<1>3. /\ k \in Nat /\ n \in Nat /\ Top = n /\ Top' = n /\ DOMAIN marks = 1 .. k
  BY <1>1, MarksFacts DEF Top
<1>4. /\ DOMAIN marks' = 1 .. k + 1 /\ Len(marks') = k + 1 /\ marks'[k + 1] = n
      /\ \A i \in 1 .. k : marks'[i] = marks[i]
  <2>1. marks \in Seq(Nat)
    BY DEF LocalsInv, Inv, TypeOK
  <2> QED
    BY <1>1, <1>3, <2>1, AppendKeeps
<1>5. FrameObjects' = [i \in 1 .. k + 1 |->
                          Between(locals, marks'[i], NextMark(marks', i, n))]
  BY <1>1, <1>3, <1>4, FramesAreAfter
<1>6. FrameObjects = [i \in 1 .. k |-> Between(locals, marks[i], NextMark(marks, i, n))]
  BY <1>3, FramesAre
<1>7. FrameObjects \in Seq(SUBSET LocalAddrs) /\ Len(FrameObjects) = k /\ {} \in SUBSET LocalAddrs
  BY FramesLength
<1>8. ASSUME NEW i \in 1 .. k
      PROVE  FrameObjects'[i] = FrameObjects[i]
  <2>1. NextMark(marks', i, n) = NextMark(marks, i, n)
    <3> HIDE DEF k, n
    <3>1. CASE i = k
      BY <1>3, <1>4, <3>1 DEF NextMark, k
    <3>2. CASE i # k
      <4>1. i < k /\ i + 1 \in 1 .. k /\ i < k + 1
        BY <1>3, <3>2
      <4>2. marks'[i + 1] = marks[i + 1]
        BY <1>4, <4>1
      <4> QED
        BY <1>4, <4>1, <4>2 DEF NextMark, k
    <3> QED
      BY <3>1, <3>2
  <2>2. i \in 1 .. k + 1 /\ marks'[i] = marks[i]
    BY <1>3, <1>4
  <2> HIDE DEF k, n
  <2> QED
    BY <1>5, <1>6, <2>1, <2>2
<1>9. FrameObjects'[k + 1] = {}
  <2> HIDE DEF k, n
  <2>1. k + 1 \in 1 .. k + 1 /\ ~(k + 1 < k + 1)
    BY <1>3
  <2>2. NextMark(marks', k + 1, n) = n
    BY <1>4, <2>1 DEF NextMark
  <2>3. Between(locals, n, n) = {}
    BY <1>3 DEF Between
  <2> QED
    BY <1>4, <1>5, <2>1, <2>2, <2>3
<1>10. FrameObjects' = [i \in 1 .. k + 1 |-> FrameObjects'[i]]
  BY <1>5
<1>11. FrameObjects' = Append(FrameObjects, {})
  <2> DEFINE f == FrameObjects'
             s == FrameObjects
  <2>1. /\ f = [i \in 1 .. Len(s) + 1 |-> f[i]] /\ f[Len(s) + 1] = {}
        /\ \A i \in 1 .. Len(s) : f[i] = s[i]
    BY <1>7, <1>8, <1>9, <1>10
  <2> HIDE DEF f, s
  <2>2. s \in Seq(SUBSET LocalAddrs) /\ {} \in SUBSET LocalAddrs
    BY <1>7 DEF s
  <2>3. f = Append(s, {})
    BY <2>1, <2>2, AppendIs, ZenonT(30)
  <2> QED
    BY <2>3 DEF f, s
<1> QED
  BY <1>1, <1>2, <1>11 DEF C!FrameEnter

(* The storage of an object of a frame, or of a static. *)
LEMMA StorageMaps ==
    ASSUME LocalsInv, LocalsInv', NEW size \in Nat, Storage(size), leaving' = Idle
    PROVE  /\ asked' = size /\ panicked' = (ret' = NULL)
           /\ \/ ret' = NULL /\ (UNCHANGED <<locals, marks, leaving>> => C!Refuse)
              \/ C!Zeroed(size)
<1>1. /\ leaving = Idle /\ asked' = size /\ panicked' = (ret' = NULL)
      /\ arena' = Calloc(arena, 1, size + 1).arena /\ ret' = Calloc(arena, 1, size + 1).addr
  BY DEF Storage, Calls, ObjectStorage
<1>2. 1 \in Nat /\ size + 1 \in Nat /\ size <= 1 * (size + 1)
  OBVIOUS
<1>3. \/ ret' = NULL /\ SameHeld(arena, arena') /\ arena'.byte = arena.byte
      \/ C!Zeroed(size)
  BY <1>1, <1>2, CallocMaps
<1>4. ASSUME ret' = NULL, SameHeld(arena, arena'), arena'.byte = arena.byte,
             UNCHANGED <<locals, marks, leaving>>
      PROVE  C!Refuse
  BY <1>1, <1>4, RefuseMaps
<1> QED
  BY <1>1, <1>3, <1>4

LEMMA StaticMaps ==
    ASSUME LocalsInv, LocalsInv', NEW size \in Nat, Static(size)
    PROVE  C!Static(size) \/ C!Malloc(size)
<1>1. Storage(size) /\ UNCHANGED <<locals, marks, leaving>> /\ leaving' = Idle
  BY DEF Static, Storage, Calls
<1>2. /\ asked' = size
      /\ C!Refuse \/ C!Zeroed(size)
  BY <1>1, StorageMaps
<1>3. FrameObjects' = FrameObjects
  BY <1>1, FramesSame
<1> QED
  BY <1>2, <1>3 DEF C!Static, C!Malloc

LEMMA LocalMaps ==
    ASSUME LocalsInv, LocalsInv', NEW size \in Nat, Local(size)
    PROVE  C!Local(size) \/ C!Malloc(size)
<1>1. /\ Storage(size) /\ UNCHANGED <<marks, leaving>> /\ leaving = Idle /\ leaving' = Idle
      /\ marks # <<>>
  BY DEF Local, Storage, Calls
<1>2. /\ asked' = size /\ panicked' = (ret' = NULL)
      /\ \/ ret' = NULL /\ (UNCHANGED <<locals, marks, leaving>> => C!Refuse)
         \/ C!Zeroed(size)
  BY <1>1, StorageMaps
<1>3. CASE ret' = NULL
  <2>1. UNCHANGED locals
    BY <1>2, <1>3 DEF Local
  <2>2. ~C!Zeroed(size)
    BY <1>3 DEF C!Zeroed, C!Return
  <2>3. C!Refuse
    BY <1>1, <1>2, <2>1, <2>2
  <2> QED
    BY <1>2, <2>3 DEF C!Malloc
<1>4. CASE ret' # NULL
  <2> DEFINE k == Len(marks)
             n == Len(locals)
  <2>1. C!Zeroed(size) /\ locals' = Append(locals, ret')
    BY <1>2, <1>4 DEF Local
  <2>2. /\ k \in Nat /\ n \in Nat /\ Top = n /\ DOMAIN marks = 1 .. k
        /\ \A i \in 1 .. k : /\ marks[i] \in Nat /\ marks[i] <= n
                             /\ NextMark(marks, i, n) \in Nat /\ NextMark(marks, i, n) <= n
    BY <1>1, MarksFacts DEF Top
  <2>3. locals \in Seq(Nat) /\ ret' \in Nat
    BY <1>4, BaseAssumption, ReserveAssumption DEF LocalsInv, Inv, TypeOK, NULL
  <2>4. /\ Len(locals') = n + 1 /\ locals'[n + 1] = ret'
        /\ \A i \in 1 .. n : locals'[i] = locals[i]
    BY <2>1, <2>3, AppendKeeps
  <2>5. Top' = n + 1
    BY <1>1, <2>4 DEF Top
  <2>6. k > 0
    <3>1. marks \in Seq(Nat)
      BY DEF LocalsInv, Inv, TypeOK
    <3> QED
      BY <1>1, <3>1, EmptySeq
  <2>7. /\ FrameObjects = [i \in 1 .. k |-> Between(locals, marks[i], NextMark(marks, i, n))]
        /\ FrameObjects' = [i \in 1 .. k |->
                               Between(locals', marks[i], NextMark(marks, i, n + 1))]
    BY <1>1, <2>2, <2>5, FramesAre, FramesAreAfter
  <2>8. Len(FrameObjects) = k /\ FrameObjects # <<>>
    BY <2>6, FramesLength
  <2>9. ASSUME NEW i \in 1 .. k, i # k
        PROVE  FrameObjects'[i] = FrameObjects[i]
    <3> DEFINE b == marks[i]
               t == NextMark(marks, i, n)
    <3>1. i < k
      <4>1. k \in Nat
        BY <2>2
      <4> HIDE DEF k
      <4> QED
        BY <2>9, <4>1
    <3>2. NextMark(marks, i, n + 1) = t
      BY <3>1 DEF NextMark
    <3>3. b \in Nat /\ t \in Nat /\ t <= n
      BY <2>2
    <3> HIDE DEF b, t, n, k
    <3>4. \A j \in b + 1 .. t : j \in 1 .. n
      BY <2>2, <3>3
    <3>5. Between(locals', b, t) = Between(locals, b, t)
      BY <2>4, <3>4, BetweenSame
    <3> QED
      BY <2>7, <3>2, <3>5 DEF b, t
  <2>10. FrameObjects'[k] = FrameObjects[k] \cup {ret'}
    <3> DEFINE b == marks[k]
    <3>1. k \in 1 .. k
      BY <2>2, <2>6
    <3>2. b \in Nat /\ b <= n
      BY <2>2, <3>1
    <3>3. NextMark(marks, k, n) = n /\ NextMark(marks, k, n + 1) = n + 1
      BY <2>2 DEF NextMark
    <3> HIDE DEF b, n, k
    <3>4. \A j : j \in b + 1 .. n + 1 <=> j \in b + 1 .. n \/ j = n + 1
      BY <2>2, <3>2
    <3>5. \A j \in b + 1 .. n : j \in 1 .. n
      BY <2>2, <3>2
    <3>6. \A j \in b + 1 .. n : locals'[j] = locals[j]
      BY <2>4, <3>5
    <3>7. Between(locals', b, n + 1) = Between(locals, b, n) \cup {ret'}
      BY <2>4, <3>4, <3>6 DEF Between
    <3> QED
      BY <2>7, <3>1, <3>3, <3>7 DEF b
  <2>11. FrameObjects' = [FrameObjects EXCEPT ![k] = @ \cup {ret'}]
    <3> HIDE DEF k, n
    <3> QED
      BY <2>7, <2>9, <2>10
  <2> QED
    BY <1>2, <2>1, <2>8, <2>11 DEF C!Local
<1> QED
  BY <1>3, <1>4

-----------------------------------------------------------------------------
LEMMA ViewWithout ==
    ASSUME NEW h, WellFormed(h), NEW S
    PROVE  View(h, S) = Without(View(h, {}), S)
<1>1. Starts(h) \ {} = Starts(h)
  OBVIOUS
<1>2. DOMAIN View(h, {}) = Starts(h)
  BY <1>1, ViewDomain
<1>3. View(h, S) = [a \in Starts(h) \ S |-> View(h, S)[a]]
  BY ViewFunction
<1>4. ASSUME NEW a \in Starts(h) \ S
      PROVE  View(h, S)[a] = View(h, {})[a]
  <2>1. PICK n : Holds(h, a, n)
    BY StartHeld
  <2>2. \A o \in 0 .. n - 1 : ByteAt(h, a, o) = ByteAt(h, a, o)
    OBVIOUS
  <2>3. a \notin {} /\ a \notin S
    OBVIOUS
  <2> QED
    BY <2>1, <2>2, <2>3, ViewKeeps
<1> QED
  BY <1>2, <1>3, <1>4 DEF Without

(* The call of frame_leave releases what its loop is going to free. *)
LEMMA FrameLeaveMaps == ASSUME LocalsInv, LocalsInv', FrameLeave PROVE C!FrameLeave
<1> DEFINE k == Len(marks)
           n == Len(locals)
<1>1. /\ leaving = Idle /\ marks # <<>> /\ leaving' = marks[k] /\ marks' = SubSeq(marks, 1, k - 1)
      /\ arena' = arena /\ locals' = locals /\ ret' = NULL /\ asked' = 0
  BY DEF FrameLeave, Calls
<1>2. /\ k \in Nat /\ n \in Nat /\ Top = n /\ DOMAIN marks = 1 .. k /\ DOMAIN locals = 1 .. n
      /\ \A i \in 1 .. k : marks[i] \in Nat /\ marks[i] <= n
  BY <1>1, MarksFacts DEF Top
<1>3. /\ k > 0 /\ marks[k] \in Nat /\ DOMAIN marks' = 1 .. k - 1 /\ Len(marks') = k - 1
      /\ \A i \in 1 .. k - 1 : marks'[i] = marks[i]
  <2>1. marks \in Seq(Nat)
    BY DEF LocalsInv, Inv, TypeOK
  <2> QED
    BY <1>1, <2>1, Shortened
<1> HIDE DEF k, n
<1>4. leaving' # Idle /\ Top' = marks[k]
  BY <1>1, <1>3 DEF Idle, Top
<1>5. FrameObjects = [i \in 1 .. k |-> Between(locals, marks[i], NextMark(marks, i, n))]
  BY <1>2, FramesAre
<1>6. FrameObjects' = [i \in 1 .. k - 1 |->
                          Between(locals, marks'[i], NextMark(marks', i, marks[k]))]
  BY <1>1, <1>3, <1>4, FramesAreAfter
<1>7. FrameObjects \in Seq(SUBSET LocalAddrs) /\ Len(FrameObjects) = k /\ FrameObjects # <<>>
  BY <1>3, FramesLength DEF k
<1>8. ASSUME NEW i \in 1 .. k - 1
      PROVE  FrameObjects'[i] = FrameObjects[i]
  <2>1. i < k /\ i \in 1 .. k
    BY <1>2
  <2>2. NextMark(marks, i, n) = marks[i + 1]
    BY <2>1 DEF NextMark, k
  <2>3. NextMark(marks', i, marks[k]) = marks[i + 1]
    <3>1. CASE i = k - 1
      <4>1. ~(i < k - 1) /\ i + 1 = k
        BY <1>2, <3>1
      <4> QED
        BY <1>3, <4>1 DEF NextMark
    <3>2. CASE i # k - 1
      <4>1. i < k - 1 /\ i + 1 \in 1 .. k - 1
        BY <1>2, <3>2
      <4> QED
        BY <1>3, <4>1 DEF NextMark
    <3> QED
      BY <3>1, <3>2
  <2> QED
    BY <1>3, <1>5, <1>6, <2>1, <2>2, <2>3
<1>9. FrameObjects' = SubSeq(FrameObjects, 1, Len(FrameObjects) - 1)
  <2> DEFINE f == FrameObjects'
             s == FrameObjects
  <2>1. /\ f = [i \in 1 .. Len(s) - 1 |-> f[i]]
        /\ \A i \in 1 .. Len(s) - 1 : f[i] = s[i]
    BY <1>6, <1>7, <1>8
  <2>2. s \in Seq(SUBSET LocalAddrs) /\ s # <<>>
    BY <1>7
  <2> HIDE DEF f, s
  <2>3. f = SubSeq(s, 1, Len(s) - 1)
    BY <2>1, <2>2, ShortenedIs
  <2> QED
    BY <2>3 DEF f, s
<1>10. Releasing = {} /\ Releasing' = FrameObjects[k]
  <2>1. NextMark(marks, k, n) = n /\ k \in 1 .. k
    BY <1>2, <1>3 DEF NextMark, k
  <2>2. FrameObjects[k] = Between(locals, marks[k], n)
    BY <1>5, <2>1
  <2>3. \A j : j \in marks[k] + 1 .. n <=> j \in 1 .. n /\ j > marks[k]
    BY <1>2, <1>3
  <2>4. Releasing' = {locals[i] : i \in {j \in 1 .. n : j > marks[k]}}
    BY <1>1, <1>2, <1>4 DEF Releasing
  <2>5. Releasing = {}
    BY <1>1 DEF Releasing
  <2> QED
    BY <2>2, <2>3, <2>4, <2>5 DEF Between
<1>11. HeldBlocks' = Without(HeldBlocks, FrameObjects[k])
  <2>1. HeldBlocks = View(arena, {})
    BY <1>10, HeldIsView
  <2>2. HeldBlocks' = View(arena, FrameObjects[k])
    BY <1>1, <1>10, HeldIsViewAfter
  <2> QED
    BY <2>1, <2>2, ArenaIsWellFormed, ViewWithout
<1> QED
  BY <1>1, <1>7, <1>9, <1>11 DEF C!FrameLeave, C!Release, C!Held, Without

(* The loop of frame_leave frees what the program no longer holds. *)
LEMMA ReleaseLocalMaps ==
    ASSUME LocalsInv, LocalsInv', ReleaseLocal
    PROVE  HeldBlocks' = HeldBlocks /\ FrameObjects' = FrameObjects
<1> DEFINE n == Len(locals)
           a == locals[n]
<1>1. /\ leaving # Idle /\ n > leaving /\ arena' = Free(arena, a)
      /\ locals' = SubSeq(locals, 1, n - 1) /\ marks' = marks /\ leaving' = leaving
  BY DEF ReleaseLocal
<1>2. locals \in Seq(Nat) /\ n \in Nat /\ leaving \in Nat
  BY <1>1 DEF LocalsInv, Inv, TypeOK
<1>3. locals # <<>>
  <2>1. n > 0
    BY <1>1, <1>2
  <2> QED
    BY <2>1
<1>4. /\ n > 0 /\ DOMAIN locals = 1 .. n /\ DOMAIN locals' = 1 .. n - 1
      /\ \A i \in 1 .. n - 1 : locals'[i] = locals[i]
  BY <1>1, <1>2, <1>3, Shortened
<1> HIDE DEF n
<1>5. FrameObjects' = FrameObjects
  <2>1. Top = leaving /\ Top' = leaving
    BY <1>1 DEF Top
  <2>2. \A j \in 1 .. leaving : j \in 1 .. n - 1
    BY <1>1, <1>2
  <2>3. \A j \in 1 .. Top : locals'[j] = locals[j]
    BY <1>4, <2>1, <2>2
  <2> QED
    BY <1>1, <2>1, <2>3, FramesStay
<1>6. Releasing = Releasing \cup {a} /\ Releasing' \cup {a} = Releasing \cup {a}
  <2>1. Releasing = {locals[i] : i \in {j \in 1 .. n : j > leaving}}
    BY <1>1, <1>4 DEF Releasing
  <2>2. Releasing' = {locals[i] : i \in {j \in 1 .. n - 1 : j > leaving}}
    BY <1>1, <1>4 DEF Releasing
  <2>3. \A j : (j \in 1 .. n /\ j > leaving) <=> ((j \in 1 .. n - 1 /\ j > leaving) \/ j = n)
    BY <1>1, <1>2, <1>4
  <2> QED
    BY <2>1, <2>2, <2>3
<1>7. View(Free(arena, a), Releasing') = Without(View(arena, Releasing), {a})
  BY <1>6, ArenaIsWellFormed, ViewLoses
<1>8. Without(View(arena, Releasing), {a}) = View(arena, Releasing)
  <2> DEFINE D == Starts(arena) \ Releasing
  <2>1. DOMAIN View(arena, Releasing) = D /\ D \ {a} = D
    BY <1>6, ViewDomain
  <2>2. View(arena, Releasing) = [x \in D |-> View(arena, Releasing)[x]]
    BY ViewFunction
  <2> QED
    BY <2>1, <2>2 DEF Without
<1>9. HeldBlocks' = HeldBlocks
  BY <1>1, <1>7, <1>8, HeldIsView, HeldIsViewAfter
<1> QED
  BY <1>5, <1>9

LEMMA FrameLeftMaps ==
    ASSUME LocalsInv, LocalsInv', FrameLeft
    PROVE  HeldBlocks' = HeldBlocks /\ FrameObjects' = FrameObjects
<1>1. /\ leaving # Idle /\ leaving' = Idle /\ Len(locals) <= leaving
      /\ UNCHANGED <<arena, locals, marks>>
  BY DEF FrameLeft
<1>2. Top = leaving /\ Top' = Len(locals)
  BY <1>1 DEF Top
<1>3. Top' = Top
  <2> DEFINE n == Len(locals)
  <2>1. n \in Nat /\ leaving \in Nat /\ leaving <= n
    BY <1>2, MarksFacts
  <2>2. n <= leaving
    BY <1>1
  <2> HIDE DEF n
  <2>3. n = leaving
    BY <2>1, <2>2
  <2> QED
    BY <1>2, <2>3 DEF n
<1>4. FrameObjects' = FrameObjects
  BY <1>1, <1>3, FramesStay
<1>5. Releasing = {} /\ Releasing' = {}
  <2> DEFINE n == Len(locals)
  <2>1. n \in Nat /\ leaving \in Nat /\ n <= leaving /\ DOMAIN locals = 1 .. n
    BY <1>1, <1>2, MarksFacts
  <2>2. \A j \in 1 .. n : ~(j > leaving)
    <3> HIDE DEF n
    <3>1. n \in Nat /\ leaving \in Nat /\ n <= leaving
      BY <2>1
    <3> QED
      BY <3>1
  <2>3. Releasing = {}
    BY <2>1, <2>2 DEF Releasing
  <2>4. Releasing' = {}
    BY <1>1 DEF Releasing
  <2> QED
    BY <2>3, <2>4
<1> QED
  BY <1>1, <1>4, <1>5, HeldIsView, HeldIsViewAfter

-----------------------------------------------------------------------------
LEMMA StepMaps == LocalsInv /\ LocalsInv' /\ [Next]_vars => [C!Next]_(C!vars)
<1> SUFFICES ASSUME LocalsInv, LocalsInv', [Next]_vars
             PROVE  C!Next \/ UNCHANGED C!vars
  OBVIOUS
<1>1. Sizes \subseteq Nat /\ Counts \subseteq Nat /\ Pointers \subseteq Nat
  BY InputAssumption
<1>2. ASSUME NEW size \in Sizes, MallocCall(size)
      PROVE  C!Next
  <2>1. /\ leaving = Idle /\ UNCHANGED <<locals, marks, leaving>> /\ asked' = size
        /\ arena' = Malloc(arena, size).arena /\ ret' = Malloc(arena, size).addr
    BY <1>2 DEF MallocCall, Returns, Calls
  <2>2. C!Malloc(size)
    BY <1>1, <2>1, MallocMaps
  <2> QED
    BY <2>2 DEF C!Next
<1>3. ASSUME NEW count \in Counts, NEW size \in Sizes, CallocCall(count, size)
      PROVE  C!Next
  <2>1. C!Calloc(count, size)
    BY <1>1, <1>3, CallocCallMaps
  <2> QED
    BY <2>1 DEF C!Next
<1>4. ASSUME NEW a \in Pointers, FreeCall(a)
      PROVE  C!Next
  <2>1. /\ leaving = Idle /\ UNCHANGED <<locals, marks, leaving>> /\ a \notin LocalAddrs
        /\ arena' = Free(arena, a) /\ ret' = NULL /\ asked' = 0
    BY <1>4 DEF FreeCall, Returns, Result, Calls
  <2>2. C!Free(a)
    BY <2>1, FreeMaps
  <2> QED
    BY <2>2 DEF C!Next
<1>5. ASSUME NEW a \in Pointers, NEW size \in Sizes, ReallocCall(a, size)
      PROVE  C!Next
  <2>1. C!Realloc(a, size)
    BY <1>1, <1>5, ReallocMaps
  <2> QED
    BY <2>1 DEF C!Next
<1>6. ASSUME NEW r \in LiveRecords(arena), NEW v \in Byte, MemSetCall(r, v)
      PROVE  C!Next
  <2>1. \E a \in C!Held : C!Fill(a, v)
    BY <1>6, MemSetMaps
  <2> QED
    BY <2>1 DEF C!Next
<1>7. CASE ResetCall
  BY <1>7, ResetMaps DEF C!Next
<1>8. CASE FrameEnter
  BY <1>8, FrameEnterMaps DEF C!Next
<1>9. ASSUME NEW size \in Sizes, Local(size)
      PROVE  C!Next
  <2>1. C!Local(size) \/ C!Malloc(size)
    BY <1>1, <1>9, LocalMaps
  <2> QED
    BY <2>1 DEF C!Next
<1>10. ASSUME NEW size \in Sizes, Static(size)
       PROVE  C!Next
  <2>1. C!Static(size) \/ C!Malloc(size)
    BY <1>1, <1>10, StaticMaps
  <2> QED
    BY <2>1 DEF C!Next
<1>11. CASE FrameLeave
  BY <1>11, FrameLeaveMaps DEF C!Next
<1>12. CASE ReleaseLocal
  <2>1. ret' = ret /\ asked' = asked
    BY <1>12 DEF ReleaseLocal
  <2> QED
    BY <1>12, <2>1, ReleaseLocalMaps DEF C!vars
<1>13. CASE FrameLeft
  <2>1. ret' = ret /\ asked' = asked
    BY <1>13 DEF FrameLeft
  <2> QED
    BY <1>13, <2>1, FrameLeftMaps DEF C!vars
<1>14. CASE UNCHANGED vars
  <2>1. UNCHANGED <<arena, locals, marks, leaving, ret, asked>>
    BY <1>14 DEF vars
  <2>2. FrameObjects' = FrameObjects
    BY <2>1, FramesSame
  <2>3. HeldBlocks' = HeldBlocks
    BY <2>1 DEF HeldBlocks, HeldRecords, Contents
  <2> QED
    BY <2>1, <2>2, <2>3 DEF C!vars
<1> QED
  BY <1>2, <1>3, <1>4, <1>5, <1>6, <1>7, <1>8, <1>9, <1>10, <1>11, <1>12, <1>13, <1>14
     DEF Next

LEMMA MapsInitially == Init => C!Init
<1> SUFFICES ASSUME Init
             PROVE  C!Init
  OBVIOUS
<1>1. arena.recs = <<>> /\ marks = <<>> /\ ret = NULL /\ asked = 0
  BY DEF Init, EmptyArena
<1>2. Starts(arena) \ Releasing = {} /\ DOMAIN marks = {}
  BY <1>1 DEF Starts, LiveRecords
<1>3. HeldBlocks = [a \in {} |-> View(arena, Releasing)[a]]
  BY <1>2, HeldIsView, ViewFunction
<1>4. HeldBlocks = <<>>
  BY <1>3
<1>5. FrameObjects = <<>>
  <2>1. FrameObjects = [i \in {} |-> FrameObjects[i]]
    BY <1>2, FramesAre
  <2> QED
    BY <2>1
<1> QED
  BY <1>1, <1>4, <1>5 DEF C!Init

(* The runtime is a C heap, for every order of calls, wild pointers and     *)
(* second frees included: what malloc, calloc, realloc and the storage of   *)
(* locals and statics return overlaps no block, is as large as asked and    *)
(* changes no other; calloc's and an object's is zero; a failing realloc    *)
(* keeps the block; free of anything but a block changes nothing; and a     *)
(* frame_leave releases the objects of its frame and nothing else.          *)
THEOREM RuntimeHeapIsCHeap == Spec => ImplementsCHeap
<1>1. Init => LocalsInv /\ C!Init
  BY LocalsInvInitially, MapsInitially
<1>2. LocalsInv /\ [Next]_vars => LocalsInv'
  BY LocalsInductive
<1>3. LocalsInv /\ LocalsInv' /\ [Next]_vars => [C!Next]_(C!vars)
  BY StepMaps
<1> QED
  BY <1>1, <1>2, <1>3, PTL DEF Spec, ImplementsCHeap, C!Spec
=============================================================================
