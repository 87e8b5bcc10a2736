------------------------------- MODULE CHeap --------------------------------
(***************************************************************************)
(* What C promises of the functions RuntimeHeap implements: the abstract   *)
(* heap is the set of blocks the program holds, each a start address with  *)
(* its bytes, and a stack of frames, each the set of the objects declared  *)
(* in it.  Nothing of the arena shows: no record, no free list, no bump    *)
(* pointer.  A block may be larger than the request it answers.            *)
(***************************************************************************)
EXTENDS Integers, Sequences

CONSTANTS Align, NULL, Byte, Pointers, Sizes, Counts

VARIABLES
    blocks,     \* start address -> contents, a function on 0 .. n - 1
    frames,     \* the objects of each open frame, innermost frame last
    ret,        \* what the last call returned; NULL for a call without a result
    asked       \* the bytes of storage it asked for

vars == <<blocks, frames, ret, asked>>

Held        == DOMAIN blocks
Bytes(a)    == {a + o : o \in DOMAIN blocks[a]}
InFrames    == UNION {frames[i] : i \in DOMAIN frames}

Init == blocks = <<>> /\ frames = <<>> /\ ret = NULL /\ asked = 0

-----------------------------------------------------------------------------
(* A call that fails changes nothing. *)
Refuse == ret' = NULL /\ UNCHANGED <<blocks, frames>>

(* The blocks of S keep their bytes, and no other block is held but the    *)
(* returned one, which is aligned, holds size bytes and overlaps no block. *)
Return(S, size) ==
    /\ ret' # NULL
    /\ ret' \notin S
    /\ ret' % Align = 0
    /\ DOMAIN blocks' = S \cup {ret'}
    /\ \A a \in S : blocks'[a] = blocks[a]
    /\ 0 .. size - 1 \subseteq DOMAIN blocks'[ret']
    /\ \A a \in S : Bytes(a) \cap {ret' + o : o \in DOMAIN blocks'[ret']} = {}

Release(S) == blocks' = [a \in Held \ S |-> blocks[a]]

Malloc(size) ==
    /\ asked' = size
    /\ \/ Refuse
       \/ Return(Held, size) /\ UNCHANGED frames

(* The product is the true one: a request no arena holds is refused. *)
Zeroed(size) == Return(Held, size) /\ \A o \in 0 .. size - 1 : blocks'[ret'][o] = 0

Calloc(count, size) ==
    /\ asked' = count * size
    /\ \/ Refuse
       \/ Zeroed(count * size) /\ UNCHANGED frames

Free(a) ==
    /\ a \notin InFrames
    /\ Release({a})
    /\ ret' = NULL
    /\ asked' = 0
    /\ UNCHANGED frames

(* A block that is resized keeps the bytes both sizes have; when there is  *)
(* no room it stays as it was and NULL is returned.                        *)
Resize(a, size) ==
    /\ asked' = size
    /\ Return(Held \ {a}, size)
    /\ \A o \in DOMAIN blocks[a] : o < size => blocks'[ret'][o] = blocks[a][o]
    /\ UNCHANGED frames

Realloc(a, size) ==
    /\ a \notin InFrames
    /\ \/ a = NULL /\ Malloc(size)
       \/ a \in Held /\ size = 0 /\ Free(a)
       \/ a \in Held /\ size > 0 /\ Resize(a, size)
       \/ ~(a \in Held /\ size = 0) /\ Refuse /\ asked' = size

(* The program stores into a block it holds. *)
Fill(a, v) ==
    /\ a \in Held
    /\ blocks' = [blocks EXCEPT ![a] = [o \in DOMAIN blocks[a] |-> v]]
    /\ ret' = a
    /\ asked' = 0
    /\ UNCHANGED frames

FrameEnter ==
    /\ frames' = Append(frames, {})
    /\ ret' = NULL
    /\ asked' = 0
    /\ UNCHANGED blocks

(* An object of a frame: never NULL, and part of the innermost frame. *)
Local(size) ==
    /\ frames # <<>>
    /\ Zeroed(size)
    /\ asked' = size
    /\ frames' = [frames EXCEPT ![Len(frames)] = @ \cup {ret'}]

(* Leaving a frame releases what was declared in it and nothing else. *)
FrameLeave ==
    /\ frames # <<>>
    /\ Release(frames[Len(frames)])
    /\ frames' = SubSeq(frames, 1, Len(frames) - 1)
    /\ ret' = NULL
    /\ asked' = 0

Static(size) == Zeroed(size) /\ asked' = size /\ UNCHANGED frames

Reset ==
    /\ frames = <<>>
    /\ Release(Held)
    /\ ret' = NULL
    /\ asked' = 0
    /\ UNCHANGED frames

Next ==
    \/ \E size \in Sizes : Malloc(size) \/ Local(size) \/ Static(size)
    \/ \E count \in Counts, size \in Sizes : Calloc(count, size)
    \/ \E a \in Pointers : Free(a)
    \/ \E a \in Pointers, size \in Sizes : Realloc(a, size)
    \/ \E a \in Held, v \in Byte : Fill(a, v)
    \/ FrameEnter
    \/ FrameLeave
    \/ Reset

Spec == Init /\ [][Next]_vars
=============================================================================
