---------------------------- MODULE RuntimeBytes ----------------------------
(***************************************************************************)
(* The byte functions of the raw heap (translator/runtime.rs): memset,     *)
(* memcpy, memmove, memcmp and memchr as the loops the translator emits.   *)
(* A step is one iteration.  They take raw addresses: a count is never     *)
(* checked, ranges may overlap, and only memmove promises anything then.   *)
(***************************************************************************)
EXTENDS Integers

CONSTANTS
    Size,       \* the memory the program owns: addresses 1 to Size
    Bytes,      \* the values of a byte
    Chunk,      \* MEMSET_CHUNK_BYTES, 2^30: what one host call fills
    IntHalf     \* 2^31: an int holds -IntHalf .. IntHalf - 1

Addr == 1 .. Size
Null == 0

ASSUME SizeAssumption  == Size \in Nat /\ Bytes \subseteq Nat
ASSUME ChunkAssumption == Chunk \in Nat /\ 0 < Chunk /\ Chunk < IntHalf /\ IntHalf \in Nat

VARIABLES
    call,       \* the function and its arguments; memcmp's left is dst, its right src
    i,          \* the loop counter, memset's done
    mem,        \* the memory
    was,        \* history: the memory when the function was called
    ret,        \* what it returned
    pc          \* ready, running, returned

vars == <<call, i, mem, was, ret, pc>>

Functions == {"memset", "memcpy", "memmove", "memcmp", "memchr"}
Calls == [fn : Functions, dst : Addr, src : Addr, count : 0 .. Size, value : Bytes]

(* The ranges a C program may pass. *)
Owned(start, count) == start + count - 1 <= Size
Legal(c) == Owned(c.dst, c.count) /\ Owned(c.src, c.count)

Init ==
    /\ call \in {c \in Calls : Legal(c)}
    /\ i = 0
    /\ mem \in [Addr -> Bytes]
    /\ was = mem
    /\ ret = Null
    /\ pc = "ready"

-----------------------------------------------------------------------------
(* Mutant of Backward: memmove copies like memcpy. *)
NeverBackward(c) == FALSE

(* memmove copies backwards unless the destination begins before the source. *)
Backward(c) == c.fn = "memmove" /\ ~(c.dst < c.src)

(* The call: the counter of the backward loop starts at count.               *)
Enter ==
    /\ pc = "ready"
    /\ i' = IF Backward(call) THEN call.count ELSE 0
    /\ pc' = "running"
    /\ UNCHANGED <<call, mem, was, ret>>

Loops == IF Backward(call) THEN i > 0 ELSE i < call.count

Returns(r) == ret' = r /\ pc' = "returned" /\ UNCHANGED <<call, i, mem, was>>

(* The loop is over: memcmp found no difference, memchr no such byte. *)
Leave ==
    /\ pc = "running" /\ ~Loops
    /\ Returns(IF call.fn \in {"memcmp", "memchr"} THEN 0 ELSE call.dst)

(* daslang's memset8 takes an int; a count that is negative fills nothing.   *)
ToInt(n) == IF n < IntHalf THEN n ELSE n - 2 * IntHalf

Memset8(dst, value, n) ==
    [a \in Addr |-> IF dst <= a /\ a < dst + n THEN value ELSE mem[a]]

(* Mutant of ChunkLength: the count is passed whole. *)
WholeCount == call.count - i

ChunkLength == IF call.count - i < Chunk THEN call.count - i ELSE Chunk

(* Mutant of SetChunk: the counter steps by whole chunks. *)
StepsWholeChunks ==
    /\ pc = "running" /\ call.fn = "memset" /\ Loops
    /\ mem' = Memset8(call.dst + i, call.value, ToInt(ChunkLength))
    /\ i' = i + Chunk
    /\ UNCHANGED <<call, was, ret, pc>>

SetChunk ==
    /\ pc = "running" /\ call.fn = "memset" /\ Loops
    /\ mem' = Memset8(call.dst + i, call.value, ToInt(ChunkLength))
    /\ i' = i + ChunkLength
    /\ UNCHANGED <<call, was, ret, pc>>

CopyByte(k) == mem' = [mem EXCEPT ![call.dst + k] = mem[call.src + k]]

CopyForward ==
    /\ pc = "running" /\ call.fn \in {"memcpy", "memmove"} /\ ~Backward(call) /\ Loops
    /\ CopyByte(i)
    /\ i' = i + 1
    /\ UNCHANGED <<call, was, ret, pc>>

CopyBackward ==
    /\ pc = "running" /\ Backward(call) /\ Loops
    /\ i' = i - 1
    /\ CopyByte(i - 1)
    /\ UNCHANGED <<call, was, ret, pc>>

Left  == mem[call.dst + i]
Right == mem[call.src + i]

Step == i' = i + 1 /\ UNCHANGED <<call, mem, was, ret, pc>>

(* Mutant of CompareBytes: only a smaller left byte ends the loop. *)
ComparesLess ==
    /\ pc = "running" /\ call.fn = "memcmp" /\ Loops
    /\ IF Left < Right THEN Returns(-1) ELSE Step

CompareBytes ==
    /\ pc = "running" /\ call.fn = "memcmp" /\ Loops
    /\ IF Left < Right THEN Returns(-1)
       ELSE IF Left > Right THEN Returns(1)
       ELSE Step

FindByte ==
    /\ pc = "running" /\ call.fn = "memchr" /\ Loops
    /\ IF Right = call.value THEN Returns(call.src + i) ELSE Step

Next ==
    Enter \/ Leave \/ SetChunk \/ CopyForward \/ CopyBackward \/ CompareBytes \/ FindByte

Spec == Init /\ [][Next]_vars

-----------------------------------------------------------------------------
TypeOK ==
    /\ call \in Calls /\ Legal(call)
    /\ i \in 0 .. call.count
    /\ mem \in [Addr -> Bytes] /\ was \in [Addr -> Bytes]
    /\ ret \in -1 .. Size
    /\ pc \in {"ready", "running", "returned"}

Returned(fns) == pc = "returned" /\ call.fn \in fns

Within(a, start) == start <= a /\ a < start + call.count

(* memset fills the range, whatever its length, and no byte around it: the   *)
(* chunks the int count of memset8 forces leave no gap and no overrun.       *)
SetFills ==
    Returned({"memset"}) =>
        /\ mem = [a \in Addr |-> IF Within(a, call.dst) THEN call.value ELSE was[a]]
        /\ ret = call.dst

Copied ==
    mem = [a \in Addr |-> IF Within(a, call.dst) THEN was[a + call.src - call.dst]
                          ELSE was[a]]

(* memmove copies what the source held when it was called, however the       *)
(* ranges overlap; so does memcpy when the ranges do not overlap, or when    *)
(* the destination begins first.                                             *)
CopiesOriginal ==
    Returned({"memcpy", "memmove"}) =>
        /\ \/ call.fn = "memmove"
           \/ call.dst <= call.src
           \/ call.src + call.count <= call.dst
           => Copied
        /\ ret = call.dst

(* memcmp's result is decided by the first difference of unsigned bytes.     *)
Same(n) == \A k \in 0 .. n - 1 : mem[call.dst + k] = mem[call.src + k]

ComparesFirst ==
    Returned({"memcmp"}) =>
        /\ mem = was
        /\ ret = 0 <=> Same(call.count)
        /\ ret # 0 =>
               \E k \in 0 .. call.count - 1 :
                   /\ Same(k)
                   /\ ret = -1 <=> mem[call.dst + k] < mem[call.src + k]
                   /\ ret = 1  <=> mem[call.dst + k] > mem[call.src + k]

(* memchr returns the first occurrence, or Null when there is none.          *)
Absent(n) == \A k \in 0 .. n - 1 : mem[call.src + k] # call.value

FindsFirst ==
    Returned({"memchr"}) =>
        /\ mem = was
        /\ \/ ret = Null /\ Absent(call.count)
           \/ \E k \in 0 .. call.count - 1 :
                  ret = call.src + k /\ mem[ret] = call.value /\ Absent(k)

(* Both stop at the first byte that decides, and change nothing. *)
StopsAtFirst == ComparesFirst /\ FindsFirst
=============================================================================
