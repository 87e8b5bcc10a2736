---------------------------- MODULE RuntimeArena ----------------------------
(***************************************************************************)
(* The raw heap every translated program carries: the `c2da_rt_*'          *)
(* functions that translator/runtime.rs emits.  One byte array is reserved *)
(* once, so an address never moves; blocks are carved from it by a bump    *)
(* pointer, recorded in arena order, found again by binary search, and     *)
(* reused through a free list of record numbers.                           *)
(*                                                                         *)
(* This module holds the runtime's functions as operators on an arena      *)
(*   len    bytes of c2da_rt_heap materialized by `resize'                 *)
(*   next   c2da_rt_next, the offset no block has ever covered             *)
(*   recs   c2da_rt_alloc_addrs, _sizes and _live, which the code always   *)
(*          resizes together: recs[i] = [addr, size, live]                 *)
(*   free   c2da_rt_alloc_free, the record numbers malloc may reuse        *)
(*   byte   the contents of the reserve; a byte at or past len is 0, which *)
(*          is what `resize' makes it when it materializes it              *)
(* Records are numbered from 1 here and from 0 in the code, so the code's  *)
(* -1 is NoRecord.                                                         *)
(***************************************************************************)
EXTENDS Integers, Sequences

CONSTANTS
    Align,      \* HEAP_ALIGN_BYTES
    Reserve,    \* HEAP_RESERVE_BYTES
    Base,       \* the address of c2da_rt_heap[0]; daslang need not align it
    Word        \* 2^64: the arithmetic of a calloc request is modulo Word

ASSUME AlignAssumption   == Align \in Nat /\ Align > 0
ASSUME ReserveAssumption == Reserve \in Nat /\ Reserve > 0
ASSUME BaseAssumption    == Base \in Nat /\ Base > 0
\* The reserve is address space the process owns, so no address in it, even
\* rounded up, wraps.
ASSUME WordAssumption    == Word \in Nat /\ Base + Reserve + Align <= Word

NULL     == 0
NoRecord == 0
Byte     == {0, 1}      \* cleared or not: all that calloc and realloc tell apart
Offset   == 0 .. Reserve - 1

Rec   == [addr : Nat, size : Nat, live : BOOLEAN]
Arena == [len : Nat, next : Nat, recs : Seq(Rec), free : Seq(Nat),
          byte : [Offset -> Byte]]

(* The globals before the first call of the runtime. *)
EmptyArena == [len |-> 0, next |-> 0, recs |-> <<>>, free |-> <<>>,
               byte |-> [o \in Offset |-> 0]]

(* `value' rounded up to a multiple of the alignment. *)
AlignUp(n) == ((n + Align - 1) \div Align) * Align

(* c2da_rt_init_heap: the first call materializes one byte. *)
InitHeap(h) == IF h.len = 0 THEN [h EXCEPT !.len = 1] ELSE h

(* `resize' of the arena to `end', never downwards. *)
Materialized(h, end) == IF end > h.len THEN [h EXCEPT !.len = end] ELSE h

-----------------------------------------------------------------------------
(* c2da_rt_find_record: the binary search over the address column, with the *)
(* code's 0-based lo and hi, and the test of the record it stops at.        *)
LowerBound(h, a) ==
    LET n == Len(h.recs)
        search[lohi \in (0 .. n) \X (0 .. n)] ==
            LET lo  == lohi[1]
                hi  == lohi[2]
                mid == (lo + hi) \div 2
            IN  IF lo >= hi THEN lo
                ELSE IF h.recs[mid + 1].addr < a THEN search[<<mid + 1, hi>>]
                ELSE search[<<lo, mid>>]
    IN  search[<<0, n>>]

FindRecord(h, a) ==
    LET lo == LowerBound(h, a)
    IN  IF lo \in 0 .. Len(h.recs) - 1 /\ h.recs[lo + 1].addr = a
        THEN lo + 1 ELSE NoRecord

(* The blocks a C program holds. *)
LiveRecords(h) == {r \in DOMAIN h.recs : h.recs[r].live}

-----------------------------------------------------------------------------
(* c2da_rt_take_free.  A freed block fits when it is large enough and at   *)
(* most twice too large; the scan goes from the newest slot to the oldest, *)
(* keeps a strictly smaller fit and stops at an exact one, so it ends at   *)
(* the newest of the smallest fits.                                        *)
Fits(capacity, need) == capacity >= need /\ capacity - need <= need

SlotSize(h, slot) == h.recs[h.free[slot]].size

FittingSlots(h, need) == {s \in DOMAIN h.free : Fits(SlotSize(h, s), need)}

BestSlot(h, need) ==
    CHOOSE s \in FittingSlots(h, need) :
        \A t \in FittingSlots(h, need) :
            \/ SlotSize(h, s) < SlotSize(h, t)
            \/ SlotSize(h, s) = SlotSize(h, t) /\ s >= t

SetLive(recs, r, b) == [recs EXCEPT ![r].live = b]

(* The slot's place is taken by the last slot, which is popped. *)
WithoutSlot(free, slot) ==
    [s \in 1 .. Len(free) - 1 |-> IF s = slot THEN free[Len(free)] ELSE free[s]]

Reuse(h, slot) ==
    [h EXCEPT !.recs = SetLive(h.recs, h.free[slot], TRUE),
              !.free = WithoutSlot(h.free, slot)]

(* The bump path: the first aligned address at or after the bump pointer.  *)
CarveStart(h) == AlignUp(Base + h.next) - Base

(* Mutant of Carve: the record keeps the arena offset, not the address. *)
CarvesOffset(h, need) ==
    LET end == CarveStart(h) + need
    IN  [Materialized(h, end) EXCEPT
            !.next = end,
            !.recs = Append(h.recs, [addr |-> CarveStart(h),
                                     size |-> need, live |-> TRUE])]

Carve(h, need) ==
    LET end == CarveStart(h) + need
    IN  [Materialized(h, end) EXCEPT
            !.next = end,
            !.recs = Append(h.recs, [addr |-> Base + CarveStart(h),
                                     size |-> need, live |-> TRUE])]

(* Every allocating function returns its arena and the address it returns. *)
Result(h, a) == [arena |-> h, addr |-> a]

(* c2da_rt_malloc *)
Malloc(h, size) ==
    LET g    == InitHeap(h)
        need == AlignUp(size)
        slot == BestSlot(g, need)
    IN  IF size = 0 \/ size > Reserve THEN Result(g, NULL)
        ELSE IF FittingSlots(g, need) # {}
        THEN Result(Reuse(g, slot), g.recs[g.free[slot]].addr)
        ELSE IF CarveStart(g) + need > Reserve THEN Result(g, NULL)
        ELSE Result(Carve(g, need), Base + CarveStart(g))

(* Mutant of Free: the live flag of the record is not looked at. *)
FreesTwice(h, a) ==
    LET r == FindRecord(h, a)
    IN  IF r # NoRecord
        THEN [h EXCEPT !.recs = SetLive(h.recs, r, FALSE), !.free = Append(h.free, r)]
        ELSE h

(* c2da_rt_free: an address that starts no live block changes nothing. *)
Free(h, a) ==
    LET r == FindRecord(h, a)
    IN  IF r # NoRecord /\ h.recs[r].live
        THEN [h EXCEPT !.recs = SetLive(h.recs, r, FALSE), !.free = Append(h.free, r)]
        ELSE h

-----------------------------------------------------------------------------
(* c2da_rt_memset and c2da_rt_memcpy on blocks of the arena, by their       *)
(* effect; their loops are in RuntimeBytes.                                 *)
MemSet(h, dst, v, count) ==
    [h EXCEPT !.byte = [o \in Offset |->
        IF Base + o \in dst .. dst + count - 1 THEN v ELSE h.byte[o]]]

MemCpy(h, dst, src, count) ==
    [h EXCEPT !.byte = [o \in Offset |->
        IF Base + o \in dst .. dst + count - 1
        THEN h.byte[o + src - dst] ELSE h.byte[o]]]

(* c2da_rt_calloc: the 64-bit product wraps, and the division finds it out. *)
Calloc(h, count, size) ==
    LET total == (count * size) % Word
        m     == Malloc(h, total)
    IN  IF size # 0 /\ total \div size # count THEN Result(h, NULL)
        ELSE IF m.addr = NULL THEN m
        ELSE Result(MemSet(m.arena, m.addr, 0, total), m.addr)

(* c2da_rt_realloc of a live block to more than its capacity: the last     *)
(* block of the arena grows where it is; any other is copied whole to a    *)
(* new block and freed, unless there is no new block.                      *)
SetSize(recs, r, size) == [recs EXCEPT ![r].size = size]

(* Mutant of GrowLast: the bump pointer does not follow. *)
GrowsWithoutBump(h, r, need) ==
    [Materialized(h, h.recs[r].addr - Base + need) EXCEPT
        !.recs = SetSize(h.recs, r, need)]

GrowLast(h, r, need) ==
    LET end == h.recs[r].addr - Base + need
    IN  [Materialized(h, end) EXCEPT !.next = end,
                                     !.recs = SetSize(h.recs, r, need)]

(* Mutant of Move: the old block is given up before the new one is there. *)
FreesBeforeCopying(h, r, size) ==
    LET old == h.recs[r]
        m   == Malloc(Free(h, old.addr), size)
    IN  IF m.addr = NULL THEN m
        ELSE Result(MemCpy(m.arena, m.addr, old.addr, old.size), m.addr)

Move(h, r, size) ==
    LET old == h.recs[r]
        m   == Malloc(h, size)
    IN  IF m.addr = NULL THEN m
        ELSE Result(Free(MemCpy(m.arena, m.addr, old.addr, old.size), old.addr),
                    m.addr)

Grow(h, r, size) ==
    LET need  == AlignUp(size)
        start == h.recs[r].addr - Base
    IN  IF size > Reserve THEN Result(h, NULL)
        ELSE IF start + h.recs[r].size = h.next /\ start + need <= Reserve
        THEN Result(GrowLast(h, r, need), h.recs[r].addr)
        ELSE Move(h, r, size)

(* c2da_rt_realloc *)
Realloc(h, a, size) ==
    LET r == FindRecord(h, a)
    IN  IF a = NULL THEN Malloc(h, size)
        ELSE IF size = 0 THEN Result(Free(h, a), NULL)
        ELSE IF r = NoRecord \/ ~h.recs[r].live THEN Result(h, NULL)
        ELSE IF size <= h.recs[r].size THEN Result(h, a)
        ELSE Grow(h, r, size)

(* c2da_rt_reset: the records go, the materialized bytes stay. *)
Reset(h) == [h EXCEPT !.next = 0, !.recs = <<>>, !.free = <<>>]

(* The address and panic of c2da_rt_local and c2da_rt_static.  The requested *)
(* alignment is ignored: every block has the largest there is.               *)
ObjectStorage(h, size) == Calloc(h, 1, size + 1)
-----------------------------------------------------------------------------
(* What every arena the runtime builds satisfies, in named parts. *)
BlockEnd(rec) == rec.addr + rec.size

(* The address column is sorted and no two blocks overlap, freed ones       *)
(* included.                                                                *)
SortedRecs(h) ==
    \A i, j \in DOMAIN h.recs : i < j => BlockEnd(h.recs[i]) <= h.recs[j].addr

(* A block is aligned, is not empty and lies below the bump pointer.        *)
ProperBlock(h, rec) ==
    /\ rec.size > 0 /\ rec.size % Align = 0 /\ rec.addr % Align = 0
    /\ rec.addr >= Base /\ BlockEnd(rec) <= Base + h.next

(* What lies below the bump pointer is materialized. *)
InReserve(h) ==
    /\ h.next <= h.len /\ h.len <= Reserve
    /\ \A i \in DOMAIN h.recs : ProperBlock(h, h.recs[i])

(* The last record ends at the bump pointer. *)
TailAtNext(h) ==
    LET n == Len(h.recs)
    IN  IF n = 0 THEN h.next = 0 ELSE BlockEnd(h.recs[n]) = Base + h.next

(* The free list holds each record that is not live once, and no other. *)
FreeExact(h) ==
    /\ \A s \in DOMAIN h.free : /\ h.free[s] \in DOMAIN h.recs
                               /\ ~h.recs[h.free[s]].live
    /\ \A r \in DOMAIN h.recs : \/ h.recs[r].live
                                \/ \E s \in DOMAIN h.free : h.free[s] = r
    /\ \A s, t \in DOMAIN h.free : h.free[s] = h.free[t] => s = t

WellFormed(h) ==
    /\ h \in Arena
    /\ SortedRecs(h)
    /\ InReserve(h)
    /\ TailAtNext(h)
    /\ FreeExact(h)
=============================================================================
