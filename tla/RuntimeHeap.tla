---------------------------- MODULE RuntimeHeap -----------------------------
(***************************************************************************)
(* A translated program and its raw heap (translator/runtime.rs): the      *)
(* program calls the allocation functions of RuntimeArena in any order and *)
(* with any arguments, wild pointers and second frees included, and        *)
(* brackets the functions that own addressable locals with frame_enter and *)
(* frame_leave.  The program is sequential; a call is one step, and the    *)
(* loop of frame_leave is one step for each object it releases.            *)
(***************************************************************************)
EXTENDS RuntimeArena

CONSTANTS
    Sizes,      \* the sizes the program asks for
    Counts,     \* the counts it passes to calloc
    Pointers,   \* the addresses it passes to free and realloc, wild ones too
    MaxFrames   \* bound: how deep frames nest

ASSUME InputAssumption ==
    Sizes \subseteq Nat /\ Counts \subseteq Nat /\ Pointers \subseteq Nat

VARIABLES
    arena,      \* the globals of the runtime, see RuntimeArena
    locals,     \* c2da_rt_locals: the objects of the open frames
    marks,      \* what each open frame's frame_enter returned to its function
    leaving,    \* the mark frame_leave is unwinding to, or Idle
    ret,        \* what the last call returned, NULL where it returns nothing
    asked,      \* history: the bytes the last call asked for
    panicked    \* the program stopped with a panic

vars == <<arena, locals, marks, leaving, ret, asked, panicked>>

Idle == -1

LocalAddrs == {locals[i] : i \in DOMAIN locals}

(* The program calls the runtime, which neither panicked nor is in a call. *)
Calls == leaving = Idle /\ ~panicked

Init ==
    /\ arena = EmptyArena
    /\ locals = <<>>
    /\ marks = <<>>
    /\ leaving = Idle
    /\ ret = NULL
    /\ asked = 0
    /\ panicked = FALSE

-----------------------------------------------------------------------------
(* The call, which asked for this many bytes, returned r. *)
Returns(r, bytes) ==
    /\ Calls
    /\ arena' = r.arena
    /\ ret' = r.addr
    /\ asked' = bytes
    /\ UNCHANGED <<locals, marks, leaving, panicked>>

MallocCall(size) == Returns(Malloc(arena, size), size)

CallocCall(count, size) == Returns(Calloc(arena, count, size), count * size)

(* No C program frees the address of a local. *)
FreeCall(a) == a \notin LocalAddrs /\ Returns(Result(Free(arena, a), NULL), 0)

ReallocCall(a, size) ==
    a \notin LocalAddrs /\ Returns(Realloc(arena, a, size), size)

(* c2da_rt_memset over a block the program holds. *)
MemSetCall(r, v) ==
    LET rec == arena.recs[r]
    IN  Returns(Result(MemSet(arena, rec.addr, v, rec.size), rec.addr), 0)

(* Probes run one after the other, between them no frame is open. *)
ResetCall == marks = <<>> /\ Returns(Result(Reset(arena), NULL), 0)

-----------------------------------------------------------------------------
(* c2da_rt_frame_enter *)
FrameEnter ==
    /\ Calls
    /\ Len(marks) < MaxFrames
    /\ marks' = Append(marks, Len(locals))
    /\ ret' = NULL
    /\ asked' = 0
    /\ UNCHANGED <<arena, locals, leaving, panicked>>

(* c2da_rt_local and c2da_rt_static: storage that does not exist panics. *)
Storage(size) ==
    LET o == ObjectStorage(arena, size)
    IN  /\ Calls
        /\ arena' = o.arena
        /\ panicked' = (o.addr = NULL)
        /\ ret' = o.addr
        /\ asked' = size
        /\ UNCHANGED <<marks, leaving>>

Local(size) ==
    /\ marks # <<>>
    /\ Storage(size)
    /\ locals' = IF panicked' THEN locals ELSE Append(locals, ret')

Static(size) == Storage(size) /\ UNCHANGED locals

(* c2da_rt_frame_leave(mark): the call, and the loop that releases the     *)
(* newest object until only those below the mark are left.                 *)
FrameLeave ==
    /\ Calls
    /\ marks # <<>>
    /\ leaving' = marks[Len(marks)]
    /\ marks' = SubSeq(marks, 1, Len(marks) - 1)
    /\ ret' = NULL
    /\ asked' = 0
    /\ UNCHANGED <<arena, locals, panicked>>

(* Mutant of ReleaseLocal: the oldest object of the frame is freed and the *)
(* newest is popped.                                                       *)
ReleasesOldest ==
    /\ leaving # Idle
    /\ Len(locals) > leaving
    /\ arena' = Free(arena, locals[leaving + 1])
    /\ locals' = SubSeq(locals, 1, Len(locals) - 1)
    /\ UNCHANGED <<marks, leaving, ret, asked, panicked>>

ReleaseLocal ==
    /\ leaving # Idle
    /\ Len(locals) > leaving
    /\ arena' = Free(arena, locals[Len(locals)])
    /\ locals' = SubSeq(locals, 1, Len(locals) - 1)
    /\ UNCHANGED <<marks, leaving, ret, asked, panicked>>

FrameLeft ==
    /\ leaving # Idle
    /\ Len(locals) <= leaving
    /\ leaving' = Idle
    /\ UNCHANGED <<arena, locals, marks, ret, asked, panicked>>

Next ==
    \/ \E size \in Sizes : MallocCall(size)
    \/ \E count \in Counts, size \in Sizes : CallocCall(count, size)
    \/ \E a \in Pointers : FreeCall(a)
    \/ \E a \in Pointers, size \in Sizes : ReallocCall(a, size)
    \/ \E r \in LiveRecords(arena), v \in Byte : MemSetCall(r, v)
    \/ ResetCall
    \/ FrameEnter
    \/ \E size \in Sizes : Local(size)
    \/ \E size \in Sizes : Static(size)
    \/ FrameLeave
    \/ ReleaseLocal
    \/ FrameLeft

Spec == Init /\ [][Next]_vars

-----------------------------------------------------------------------------
TypeOK ==
    /\ arena \in Arena
    /\ locals \in Seq(Nat)
    /\ marks \in Seq(Nat)
    /\ leaving \in Nat \cup {Idle}
    /\ ret \in {NULL} \cup (Base .. Base + Reserve)
    /\ asked \in Nat
    /\ panicked \in BOOLEAN

(* The address column is sorted and no two blocks overlap, freed ones      *)
(* included: what the binary search of free and realloc relies on and what *)
(* keeps two owners out of one byte.  Every block is aligned for any C     *)
(* object and lies in the part of the reserve that is materialized: an     *)
(* address handed out can be indexed.  The last record ends at the bump    *)
(* pointer: what lets realloc conclude from start + capacity = next that   *)
(* nothing lies behind a block.                                            *)
BlocksInOrder == SortedRecs(arena) /\ InReserve(arena) /\ TailAtNext(arena)

(* The free list holds each record that is not live once, and no other: a  *)
(* second free cannot enter a block twice and give it to two owners, and   *)
(* no freed block is lost.                                                 *)
FreeListExact == FreeExact(arena)

(* Every object of an open frame is a live block, and no two are the same: *)
(* no allocation, growth or reuse takes the storage of a C local.          *)
LocalsHeld ==
    /\ LocalAddrs \subseteq {arena.recs[r].addr : r \in LiveRecords(arena)}
    /\ \A i, j \in DOMAIN locals : locals[i] = locals[j] => i = j

-----------------------------------------------------------------------------
(* The runtime implements the C heap.  The program holds the live blocks;  *)
(* what frame_leave has still to release it no longer holds.               *)
HeldRecords ==
    {r \in LiveRecords(arena) :
        leaving # Idle =>
            \A i \in DOMAIN locals : i > leaving => locals[i] # arena.recs[r].addr}

Contents(rec) == [o \in 0 .. rec.size - 1 |-> arena.byte[rec.addr - Base + o]]

HeldBlocks ==
    [a \in {arena.recs[r].addr : r \in HeldRecords} |->
        Contents(arena.recs[CHOOSE r \in HeldRecords : arena.recs[r].addr = a])]

FrameObjects ==
    [i \in DOMAIN marks |->
        LET top == IF i < Len(marks) THEN marks[i + 1]
                   ELSE IF leaving # Idle THEN leaving ELSE Len(locals)
        IN  {locals[j] : j \in marks[i] + 1 .. top}]

C == INSTANCE CHeap WITH blocks <- HeldBlocks, frames <- FrameObjects

(* Every call keeps the promises of C's heap: a block returned overlaps no *)
(* other and is as large as asked, calloc's is clear even when it is       *)
(* reused, realloc keeps the bytes and a failing one the block, a free of  *)
(* anything else changes nothing, a frame releases exactly its objects.    *)
ImplementsCHeap == C!Spec
=============================================================================
