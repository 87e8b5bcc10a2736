----------------------------- MODULE LinearHeap -----------------------------
(***************************************************************************)
(* The heap and the C stack of --memory-model linear (translator/          *)
(* linear.rs): C memory is one array, an address is an index.  From 0 up   *)
(* lie the reserved bytes, the static block, the stack, and the heap, that *)
(* grows by resize.  A block is a header, whose first word is the          *)
(* capacity, and a payload; a freed block's first payload word links to    *)
(* the next freed one.  The allocator trusts what it reads there, so the   *)
(* program must be legal: it frees and resizes only blocks it holds, and   *)
(* stores only into its blocks and its frames.                             *)
(*                                                                         *)
(* A cell stands for a 32-bit word of the array, as c2da_lin_ld32 and      *)
(* c2da_lin_st32 read and write it.  A call is a sequence of steps, one    *)
(* for each freed block malloc's loop looks at.                            *)
(***************************************************************************)
EXTENDS Integers, Sequences

CONSTANTS
    Unit,       \* 16 bytes: the header, and what capacities are rounded to
    StaticEnd,     \* the static block is Unit .. StaticEnd - 1
    StackTop,   \* the stack is StaticEnd .. StackTop - 1
    Limit,      \* c2da_lin_limit: the capacity of the array
    IntHalf,    \* 2^31
    Word,       \* 2^64
    Data,       \* what the program stores
    Sizes, Counts, FrameSizes,  \* what it asks for
    MaxFrames   \* bound: how deep frames nest

ASSUME UnitAssumption == Unit \in Nat /\ Unit > 0
ASSUME LayoutAssumption ==
    /\ StaticEnd \in Nat /\ StackTop \in Nat /\ Limit \in Nat /\ IntHalf \in Nat
    /\ Unit <= StaticEnd /\ StaticEnd <= StackTop /\ StackTop <= Limit
    /\ StackTop % Unit = 0 /\ IntHalf % Unit = 0 /\ Limit < IntHalf
    /\ Word \in Nat /\ 2 * IntHalf <= Word
ASSUME ProgramAssumption ==
    /\ Data \subseteq Int /\ Sizes \subseteq Nat /\ Counts \subseteq Nat
    /\ FrameSizes \subseteq Nat /\ MaxFrames \in Nat

Address == 0 .. Limit - 1
NULL == 0

VARIABLES
    mem,        \* c2da_mem
    brk,        \* c2da_lin_brk, which is the length of c2da_mem too
    freeList,   \* c2da_lin_free_list
    cap, prev, cur, \* the locals of malloc
    call,       \* the call that needs storage: its name, n, (history) the
                \* bytes the program asked for, and the old block
    got,        \* what malloc returned to it
    pc,         \* idle, search, got: where the program is
    ret,        \* what the last call returned
    asked,      \* history: the bytes it asked for
    live,       \* history: the blocks the program holds
    chain,      \* history: the freed blocks, newest first
    sp,         \* c2da_lin_sp
    frames,     \* the open functions with a frame, outermost first: their
                \* wrapper's c2da_saved_sp, the body's c2da_fp, and (history)
                \* what the body stored in its locals, Unset before it did
    panicked

heap   == <<mem, brk, freeList, live, chain>>
search == <<cap, prev, cur, call, got>>
stack  == <<sp, frames>>
vars   == <<heap, search, pc, ret, asked, stack, panicked>>

Unset == -1

NoCall == [fn |-> "malloc", n |-> 0, bytes |-> 0, old |-> 0]

Init ==
    /\ mem \in {[a \in Address |-> IF Unit <= a /\ a < StaticEnd THEN d ELSE 0] : d \in Data}
    /\ brk = StackTop /\ freeList = 0
    /\ cap = 0 /\ prev = 0 /\ cur = 0
    /\ call = NoCall /\ got = 0
    /\ pc = "idle" /\ ret = NULL /\ asked = 0
    /\ live = {} /\ chain = <<>>
    /\ sp = StackTop /\ frames = <<>>
    /\ panicked = FALSE

-----------------------------------------------------------------------------
(* int(n) of an uint64 *)
ToInt(n) ==
    LET m == n % (2 * IntHalf)
    IN  IF m < IntHalf THEN m ELSE m - 2 * IntHalf

(* (int(n) + 15) & ~15, at least 16 *)
RoundUp(n) == ((n + Unit - 1) \div Unit) * Unit
Capacity(n) == IF RoundUp(ToInt(n)) = 0 THEN Unit ELSE RoundUp(ToInt(n))

Largest == IntHalf - Unit       \* 0x7ffffff0

CapacityOf(p) == mem[p - Unit]

Idle == pc = "idle" /\ ~panicked

Returns(r, bytes) == pc' = "idle" /\ ret' = r /\ asked' = bytes

(* A call that returns at once and leaves the heap alone. *)
Answers(r, bytes) ==
    Idle /\ Returns(r, bytes) /\ UNCHANGED <<heap, search, stack, panicked>>

(* c2da_lin_malloc(n) on behalf of fn, which was asked for that many bytes; a *)
(* request no int holds answers NULL.                                        *)
Malloc(fn, n, bytes, old) ==
    IF n > Largest THEN Answers(NULL, bytes)
    ELSE /\ Idle
         /\ call' = [fn |-> fn, n |-> n, bytes |-> bytes, old |-> old]
         /\ cap' = Capacity(n) /\ prev' = 0 /\ cur' = freeList
         /\ pc' = "search"
         /\ UNCHANGED <<heap, got, ret, asked, stack, panicked>>

(* c2da_lin_calloc: a product no int holds answers NULL.                     *)
Calloc(count, size) ==
    IF size # 0 /\ count > Largest \div size THEN Answers(NULL, count * size)
    ELSE Malloc("calloc", (count * size) % Word, count * size, 0)

Push(p) == mem' = [mem EXCEPT ![p] = freeList] /\ freeList' = p

(* Mutant of Free: the list's head is set before it is stored. *)
FreeLinksToItself(p) ==
    /\ Idle /\ p \in live
    /\ freeList' = p /\ mem' = [mem EXCEPT ![p] = p]
    /\ live' = live \ {p} /\ chain' = <<p>> \o chain
    /\ Returns(NULL, 0)
    /\ UNCHANGED <<brk, search, stack, panicked>>

(* c2da_lin_free *)
Free(p) ==
    /\ Idle /\ p \in live
    /\ Push(p)
    /\ live' = live \ {p} /\ chain' = <<p>> \o chain
    /\ Returns(NULL, 0)
    /\ UNCHANGED <<brk, search, stack, panicked>>

FreeNull == Answers(NULL, 0)

(* c2da_lin_realloc *)
Realloc(p, n) ==
    \/ p = NULL /\ Malloc("malloc", n, n, 0)
    \/ p \in live /\ n = 0 /\ Free(p)
    \/ p \in live /\ n > 0 /\ n <= CapacityOf(p) /\ Answers(p, n)
    \/ p \in live /\ n > CapacityOf(p) /\ Malloc("realloc", n, n, p)

-----------------------------------------------------------------------------
(* malloc's loop: first fit over the freed blocks. *)
Searching == pc = "search" /\ UNCHANGED <<cap, call, ret, asked, stack, panicked>>

NextFreed ==
    /\ Searching /\ cur # 0 /\ CapacityOf(cur) < cap
    /\ prev' = cur /\ cur' = mem[cur]
    /\ UNCHANGED <<heap, got, pc>>

Without(s, x) == [i \in 1 .. Len(s) - 1 |-> IF \E j \in 1 .. i : s[j] = x THEN s[i + 1] ELSE s[i]]

(* Mutant of TakeFreed: the first freed block is unlinked. *)
TakesFirst ==
    /\ Searching /\ cur # 0 /\ CapacityOf(cur) >= cap
    /\ freeList' = mem[cur] /\ mem' = mem
    /\ chain' = Without(chain, cur)
    /\ got' = cur /\ pc' = "got"
    /\ UNCHANGED <<brk, live, prev, cur>>

TakeFreed ==
    /\ Searching /\ cur # 0 /\ CapacityOf(cur) >= cap
    /\ IF prev = 0 THEN freeList' = mem[cur] /\ mem' = mem
       ELSE mem' = [mem EXCEPT ![prev] = mem[cur]] /\ freeList' = freeList
    /\ chain' = Without(chain, cur)
    /\ got' = cur /\ pc' = "got"
    /\ UNCHANGED <<brk, live, prev, cur>>

End == brk + Unit + cap

(* Mutants of Extend: the limit is not looked at; the header is not counted. *)
ExtendsAnyway ==
    /\ Searching /\ cur = 0
    /\ brk' = End /\ mem' = [mem EXCEPT ![brk] = cap]
    /\ got' = brk + Unit /\ pc' = "got"
    /\ UNCHANGED <<freeList, live, chain, prev, cur>>

ExtendsByCapacity ==
    /\ Searching /\ cur = 0 /\ End <= Limit
    /\ brk' = brk + cap /\ mem' = [mem EXCEPT ![brk] = cap]
    /\ got' = brk + Unit /\ pc' = "got"
    /\ UNCHANGED <<freeList, live, chain, prev, cur>>

Extend ==
    /\ Searching /\ cur = 0 /\ End <= Limit
    /\ brk' = End /\ mem' = [mem EXCEPT ![brk] = cap]
    /\ got' = brk + Unit /\ pc' = "got"
    /\ UNCHANGED <<freeList, live, chain, prev, cur>>

Exhausted ==
    /\ Searching /\ cur = 0 /\ End > Limit
    /\ got' = NULL /\ pc' = "got"
    /\ UNCHANGED <<heap, prev, cur>>

-----------------------------------------------------------------------------
(* What each caller of malloc does with the block it got before it returns;  *)
(* the locals are dead then.                                                 *)
Got(fn) ==
    /\ pc = "got" /\ call.fn = fn
    /\ cap' = 0 /\ prev' = 0 /\ cur' = 0 /\ call' = NoCall /\ got' = 0
    /\ UNCHANGED <<brk, stack, panicked>>

MallocGot ==
    /\ Got("malloc")
    /\ live' = IF got = NULL THEN live ELSE live \cup {got}
    /\ Returns(got, call.bytes)
    /\ UNCHANGED <<mem, freeList, chain>>

(* c2da_lin_memset of the n bytes asked for. *)
CallocGot ==
    /\ Got("calloc")
    /\ live' = IF got = NULL THEN live ELSE live \cup {got}
    /\ mem' = [a \in Address |->
                  IF got # NULL /\ got <= a /\ a < got + call.n THEN 0 ELSE mem[a]]
    /\ Returns(got, call.bytes)
    /\ UNCHANGED <<freeList, chain>>

ReallocFails ==
    /\ Got("realloc") /\ got = NULL
    /\ Returns(NULL, call.bytes)
    /\ UNCHANGED <<mem, freeList, live, chain>>

Copied(old, n) ==
    [a \in Address |-> IF got <= a /\ a < got + n THEN mem[a - got + old] ELSE mem[a]]

(* Mutant of ReallocMoves: the old block is linked before it is copied. *)
ReallocFreesFirst ==
    /\ Got("realloc") /\ got # NULL
    /\ LET linked == [mem EXCEPT ![call.old] = freeList]
       IN  mem' = [a \in Address |-> IF got <= a /\ a < got + CapacityOf(call.old)
                                     THEN linked[a - got + call.old] ELSE linked[a]]
    /\ freeList' = call.old
    /\ live' = (live \ {call.old}) \cup {got} /\ chain' = <<call.old>> \o chain
    /\ Returns(got, call.bytes)

(* The old block is copied whole, then freed. *)
ReallocMoves ==
    /\ Got("realloc") /\ got # NULL
    /\ mem' = [Copied(call.old, CapacityOf(call.old)) EXCEPT ![call.old] = freeList]
    /\ freeList' = call.old
    /\ live' = (live \ {call.old}) \cup {got} /\ chain' = <<call.old>> \o chain
    /\ Returns(got, call.bytes)

(* The program stores into a block it holds. *)
Fill(p, v) ==
    /\ Idle /\ p \in live
    /\ mem' = [a \in Address |-> IF p <= a /\ a < p + CapacityOf(p) THEN v ELSE mem[a]]
    /\ Returns(p, 0)
    /\ UNCHANGED <<brk, freeList, live, chain, search, stack, panicked>>

-----------------------------------------------------------------------------
(* The wrapper of a function with a frame: c2da_lin_enter, and the restored  *)
(* stack pointer.  Below the stack lies the static block.                    *)
OnStack == Idle /\ UNCHANGED <<brk, freeList, live, chain, search, pc, ret, asked>>

Opened(size) == Append(frames, [saved |-> sp, fp |-> sp - size, stored |-> Unset])

(* Mutant of Enter: only the array's lower end is looked at. *)
EntersIntoStatic(size) ==
    /\ OnStack /\ Len(frames) < MaxFrames
    /\ mem' = mem
    /\ panicked' = (sp - size < 0)
    /\ IF panicked' THEN UNCHANGED stack
       ELSE sp' = sp - size /\ frames' = Opened(size)

Enter(size) ==
    /\ OnStack /\ Len(frames) < MaxFrames
    /\ mem' = mem
    /\ panicked' = (sp - size < StaticEnd)
    /\ IF panicked' THEN UNCHANGED stack
       ELSE sp' = sp - size /\ frames' = Opened(size)

Inner == frames[Len(frames)]

(* Mutant of Leave: the stack pointer of the outermost wrapper is restored. *)
LeavesAll ==
    /\ OnStack /\ frames # <<>>
    /\ sp' = frames[1].saved
    /\ frames' = SubSeq(frames, 1, Len(frames) - 1)
    /\ UNCHANGED <<mem, panicked>>

Leave ==
    /\ OnStack /\ frames # <<>>
    /\ sp' = Inner.saved
    /\ frames' = SubSeq(frames, 1, Len(frames) - 1)
    /\ UNCHANGED <<mem, panicked>>

(* The body stores into the locals of its frame. *)
StoreLocals(v) ==
    /\ OnStack /\ frames # <<>>
    /\ mem' = [a \in Address |-> IF Inner.fp <= a /\ a < Inner.saved THEN v ELSE mem[a]]
    /\ frames' = [frames EXCEPT ![Len(frames)].stored = v]
    /\ UNCHANGED <<sp, panicked>>

-----------------------------------------------------------------------------
Allocates ==
    \/ NextFreed \/ TakeFreed \/ Extend \/ Exhausted
    \/ MallocGot \/ CallocGot \/ ReallocFails \/ ReallocMoves

Next ==
    \/ \E n \in Sizes : Malloc("malloc", n, n, 0)
    \/ \E count \in Counts, size \in Sizes : Calloc(count, size)
    \/ \E p \in live : Free(p)
    \/ FreeNull
    \/ \E p \in live \cup {NULL}, n \in Sizes : Realloc(p, n)
    \/ \E p \in live, v \in Data : Fill(p, v)
    \/ Allocates
    \/ \E size \in FrameSizes : Enter(size)
    \/ Leave
    \/ \E v \in Data : StoreLocals(v)

Spec     == Init /\ [][Next]_vars
FairSpec == Spec /\ WF_vars(Allocates)

-----------------------------------------------------------------------------
TypeOK ==
    /\ mem \in [Address -> Int]
    /\ brk \in StackTop .. Limit
    /\ freeList \in Address /\ cap \in 0 .. IntHalf
    /\ prev \in Address /\ cur \in Address /\ got \in Address
    /\ call \in [fn : {"malloc", "calloc", "realloc"}, n : Nat, bytes : Nat, old : Address]
    /\ pc \in {"idle", "search", "got"} /\ ret \in Address /\ asked \in Nat
    /\ live \subseteq Address /\ chain \in Seq(Address)
    /\ sp \in StaticEnd .. StackTop
    /\ frames \in Seq([saved : StaticEnd .. StackTop, fp : StaticEnd .. StackTop,
                        stored : Data \cup {Unset}])
    /\ panicked \in BOOLEAN

(* The blocks there are: held, freed, or on the way from malloc.             *)
Freed   == {chain[i] : i \in DOMAIN chain}
Passing == IF pc = "got" /\ got # NULL THEN {got} ELSE {}
Blocks  == live \cup Freed \cup Passing

(* Blocks, their headers included, never overlap, are aligned, lie between   *)
(* the stack and the break, and their capacities are intact: no payload of   *)
(* one ever covers the header of another.                                    *)
BlocksApart ==
    /\ \A p \in Blocks :
        /\ p % Unit = 0 /\ p - Unit >= StackTop
        /\ CapacityOf(p) >= Unit /\ CapacityOf(p) % Unit = 0
        /\ p + CapacityOf(p) <= brk
    /\ \A p, q \in Blocks : p # q => p + CapacityOf(p) <= q - Unit \/ q + CapacityOf(q) <= p - Unit

(* The links in memory go from the head of the free list through every freed *)
(* block once, newest first, and end; no block is both freed and held, nor   *)
(* handed to a caller and still linked.                                      *)
ChainLinked ==
    /\ freeList = IF chain = <<>> THEN 0 ELSE chain[1]
    /\ \A i \in DOMAIN chain :
        mem[chain[i]] = IF i = Len(chain) THEN 0 ELSE chain[i + 1]
    /\ \A i, j \in DOMAIN chain : chain[i] = chain[j] => i = j
    /\ live \cap Freed = {} /\ live \cap Passing = {} /\ Freed \cap Passing = {}

(* The stack pointer is where the innermost frame begins; every frame holds   *)
(* what its function stored, whatever the heap and inner frames do.          *)
FramesKept ==
    /\ sp = IF frames = <<>> THEN StackTop ELSE Inner.fp
    /\ \A i \in DOMAIN frames :
        frames[i].stored # Unset =>
            \A a \in frames[i].fp .. frames[i].saved - 1 : mem[a] = frames[i].stored

(* No step, of the program or of the runtime, stores into the static block.  *)
StaticUntouched == \A a \in Unit .. StaticEnd - 1 : mem'[a] = mem[a]
StaticKept == [][StaticUntouched]_vars

(* malloc's loop ends: the chain it follows has no cycle. *)
CallsReturn == (pc = "search") ~> (pc = "idle")

(* The allocator implements C's heap for legal programs: the blocks of the   *)
(* abstract heap are those the program holds, as large as their capacity.    *)
HeldBlocks == [p \in live |-> [o \in 0 .. CapacityOf(p) - 1 |-> mem[p + o]]]

C == INSTANCE CHeap WITH
        Align <- Unit, Byte <- Data, Pointers <- Address,
        blocks <- HeldBlocks, frames <- <<>>

ImplementsCHeap == C!Spec
=============================================================================
