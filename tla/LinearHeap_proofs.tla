------------------------- MODULE LinearHeap_proofs --------------------------
(* The safety of the linear heap and of the stack below it, for every       *)
(* layout, limit, request and datum.  The allocator keeps its tables in the *)
(* memory the program writes, so the invariant ties the two together: the   *)
(* chain of freed blocks is what memory links only while no payload covers  *)
(* a header, and blocks stay apart only while what malloc takes is a block  *)
(* of that chain.  Of malloc's loop it says that prev and cur are           *)
(* neighbours in the chain; of a call under way, that the block it resizes  *)
(* is still held and smaller than the one it waits for; of the frames, that *)
(* each begins where the one inside it ends.                                *)
EXTENDS LinearHeap, SequenceTheorems, TLAPS

(* malloc's loop looks at the freed block behind the i-th. *)
Between(i) ==
    /\ prev = IF i = 0 THEN 0 ELSE chain[i]
    /\ cur = IF i = Len(chain) THEN 0 ELSE chain[i + 1]

SearchInv ==
    pc = "search" =>
        /\ cap >= Unit /\ cap % Unit = 0 /\ call.n <= cap
        /\ \E i \in 0 .. Len(chain) : Between(i)

CallInv ==
    pc # "idle" =>
        /\ call.n = call.bytes
        /\ call.fn = "malloc" => call.bytes \in Sizes
        /\ call.fn = "calloc" =>
              \E count \in Counts, size \in Sizes : call.bytes = count * size
        /\ call.fn = "realloc" =>
              /\ call.bytes \in Sizes
              /\ call.old \in live /\ CapacityOf(call.old) < call.n

GotInv == pc = "got" /\ got # NULL => call.n <= CapacityOf(got)

FramesNest ==
    /\ \A i \in DOMAIN frames :
        /\ frames[i].fp <= frames[i].saved
        /\ frames[i].saved = IF i = 1 THEN StackTop ELSE frames[i - 1].fp
    /\ \A i, j \in DOMAIN frames : i < j => frames[j].saved <= frames[i].fp

BrkAligned == brk % Unit = 0

Inv ==
    /\ TypeOK /\ BrkAligned /\ BlocksApart /\ ChainLinked
    /\ SearchInv /\ CallInv /\ GotInv
    /\ FramesKept /\ FramesNest

-----------------------------------------------------------------------------
(* A sum of multiples of the unit is one. *)
LEMMA MultipleSum ==
    ASSUME NEW a \in Nat, NEW b \in Nat, a % Unit = 0, b % Unit = 0
    PROVE  (a + b) % Unit = 0
<1>1. Unit \in Nat /\ Unit > 0
  BY UnitAssumption
<1>2. a = Unit * (a \div Unit) /\ a \div Unit \in Nat
  BY <1>1, SMT
<1>3. b = Unit * (b \div Unit) /\ b \div Unit \in Nat
  BY <1>1, SMT
<1> DEFINE k == (a \div Unit) + (b \div Unit)
<1>4. k \in Nat /\ a + b = Unit * k
  BY <1>1, <1>2, <1>3, SMT
<1> HIDE DEF k
<1>5. k \in Nat
  BY <1>4
<1>6. (Unit * k) % Unit = 0
  BY <1>1, <1>5, SMT
<1> QED
  BY <1>4, <1>6

(* A product below a multiple of the unit leaves room for one unit more. *)
LEMMA MultipleStep ==
    ASSUME NEW q \in Nat, NEW h \in Nat, Unit * q < Unit * h
    PROVE  Unit * q <= Unit * h - Unit
<1>1. Unit \in Nat /\ Unit > 0
  BY UnitAssumption
<1>2. q < h
  <2>1. ASSUME h <= q
        PROVE  FALSE
    <3>1. PICK d \in Nat : q = h + d
      <4>1. q - h \in Nat /\ q = h + (q - h)
        BY <2>1
      <4> QED
        BY <4>1
    <3>2. Unit * d \in Nat /\ Unit * q = Unit * h + Unit * d /\ Unit * h \in Nat
      BY <1>1, <3>1, SMT
    <3> QED
      BY <3>2
  <2> QED
    BY <2>1
<1>3. PICK d \in Nat : h = q + 1 + d
  <2>1. h - q - 1 \in Nat /\ h = q + 1 + (h - q - 1)
    BY <1>2
  <2> QED
    BY <2>1
<1>4. Unit * d \in Nat /\ Unit * h = Unit * q + Unit + Unit * d /\ Unit * q \in Nat
  BY <1>1, <1>3, SMT
<1> QED
  BY <1>1, <1>4

(* The capacity of a block that an int can hold covers the request, is a    *)
(* positive multiple of the unit, and is held by an int too.                *)
LEMMA CapacityCovers ==
    ASSUME NEW n \in Nat, n <= Largest
    PROVE  /\ Capacity(n) \in Nat /\ Capacity(n) >= n /\ Capacity(n) >= Unit
           /\ Capacity(n) % Unit = 0 /\ Capacity(n) < IntHalf
<1>1. Unit \in Nat /\ Unit > 0 /\ IntHalf \in Nat /\ IntHalf > Unit /\ IntHalf % Unit = 0
  BY UnitAssumption, LayoutAssumption
<1>2. n < IntHalf
  BY <1>1 DEF Largest
<1>3. ToInt(n) = n
  <2>1. n % (2 * IntHalf) = n
    BY <1>1, <1>2, SMT
  <2> QED
    BY <1>2, <2>1 DEF ToInt
<1> DEFINE m == n + Unit - 1
           q == m \div Unit
           h == IntHalf \div Unit
<1>4. m \in Nat /\ q \in Nat /\ m = Unit * q + (m % Unit) /\ m % Unit \in 0 .. Unit - 1
  BY <1>1, SMT
<1>5. h \in Nat /\ IntHalf = Unit * h
  BY <1>1, SMT
<1>6. RoundUp(n) = q * Unit
  BY DEF RoundUp
<1> HIDE DEF q, h
<1>7. q * Unit = Unit * q /\ Unit * q \in Nat /\ (Unit * q) % Unit = 0 /\ Unit % Unit = 0
  BY <1>1, <1>4, SMT
<1>8. Unit * q >= n /\ Unit * q <= n + Unit - 1
  BY <1>1, <1>4, <1>7 DEF m
<1>9. Unit * q < IntHalf
  BY <1>1, <1>7, <1>8 DEF Largest
<1>10. Unit * q # 0 => Unit * q >= Unit
  <2>1. ASSUME Unit * q # 0
        PROVE  Unit * q >= Unit
    <3>1. q # 0
      BY <2>1, <1>1
    <3>2. q - 1 \in Nat /\ Unit * q = Unit * (q - 1) + Unit /\ Unit * (q - 1) \in Nat
      BY <3>1, <1>1, <1>4, SMT
    <3> QED
      BY <3>2, <1>1
  <2> QED
    BY <2>1
<1> QED
  BY <1>1, <1>3, <1>6, <1>7, <1>8, <1>9, <1>10 DEF Capacity

(* A product that passes calloc's test did not wrap. *)
LEMMA ProductFits ==
    ASSUME NEW count \in Nat, NEW size \in Nat,
           ~(size # 0 /\ count > Largest \div size)
    PROVE  /\ count * size \in Nat /\ count * size <= Largest
           /\ (count * size) % Word = count * size
<1>1. Unit \in Nat /\ IntHalf \in Nat /\ IntHalf > Unit /\ Word \in Nat
      /\ Word > IntHalf /\ Largest \in Nat /\ Largest < Word
  BY UnitAssumption, LayoutAssumption DEF Largest
<1>2. count * size \in Nat /\ count * size <= Largest
  <2>1. CASE size = 0
    BY <2>1, <1>1
  <2>2. CASE size # 0
    <3> DEFINE q == Largest \div size
    <3>1. /\ q \in Nat /\ size * q \in Nat /\ size * q <= Largest
      BY <1>1, <2>2, SMT
    <3>2. count <= q
      BY <2>2, <3>1
    <3> HIDE DEF q
    <3>3. q - count \in Nat /\ q = count + (q - count)
      BY <3>1, <3>2
    <3>4. size * q = size * count + size * (q - count) /\ size * (q - count) \in Nat
      BY <3>3, SMT
    <3>5. size * count = count * size /\ count * size \in Nat
      BY SMT
    <3> QED
      BY <3>1, <3>4, <3>5, <1>1
  <2> QED
    BY <2>1, <2>2
<1>3. count * size < Word
  BY <1>1, <1>2
<1> DEFINE p == count * size
<1>4. p \in Nat /\ p < Word
  BY <1>2, <1>3
<1> HIDE DEF p
<1>5. p % Word = p
  BY <1>1, <1>4, SMT
<1> QED
  BY <1>2, <1>5 DEF p

-----------------------------------------------------------------------------
Payload(p) == p .. p + CapacityOf(p) - 1

(* A block with its header lies in the array, behind the stack. *)
LEMMA BlockFacts ==
    ASSUME Inv
    PROVE  /\ brk \in Nat /\ brk <= Limit /\ StackTop <= brk
           /\ Unit \in Nat /\ Unit > 0 /\ StackTop \in Nat /\ Limit \in Nat
           /\ StackTop >= Unit
           /\ \A p \in Blocks :
                /\ p \in Nat /\ p > 0 /\ p \in Address /\ p - Unit \in Address
                /\ p - Unit >= StackTop /\ p % Unit = 0
                /\ CapacityOf(p) \in Nat /\ CapacityOf(p) >= Unit
                /\ CapacityOf(p) % Unit = 0 /\ p + CapacityOf(p) <= brk
<1>1. /\ Unit \in Nat /\ Unit > 0 /\ StackTop \in Nat /\ Limit \in Nat
      /\ StackTop >= Unit
  BY UnitAssumption, LayoutAssumption
<1>2. brk \in Nat /\ brk <= Limit /\ StackTop <= brk
  BY <1>1 DEF Inv, TypeOK
<1>3. ASSUME NEW p \in Blocks
      PROVE  /\ p \in Nat /\ p > 0 /\ p \in Address /\ p - Unit \in Address
             /\ CapacityOf(p) \in Nat
  <2>1. p \in Address
    BY DEF Inv, TypeOK, Blocks, Freed, Passing
  <2>2. p - Unit >= StackTop
    BY DEF Inv, BlocksApart
  <2>3. p \in Nat /\ p - Unit \in Address
    BY <1>1, <2>1, <2>2 DEF Address
  <2>4. mem[p - Unit] \in Int
    BY <2>3 DEF Inv, TypeOK
  <2>5. CapacityOf(p) \in Int /\ CapacityOf(p) >= Unit
    BY <2>4 DEF Inv, BlocksApart, CapacityOf
  <2> QED
    BY <1>1, <2>1, <2>2, <2>3, <2>5
<1>4. \A p \in Blocks :
         /\ p - Unit >= StackTop /\ p % Unit = 0
         /\ CapacityOf(p) >= Unit
         /\ CapacityOf(p) % Unit = 0 /\ p + CapacityOf(p) <= brk
  BY DEF Inv, BlocksApart
<1> QED
  BY <1>1, <1>2, <1>3, <1>4

(* The payload of a block lies between the stack and the break, and covers  *)
(* neither a header nor the payload of another block.                       *)
LEMMA PayloadApart ==
    ASSUME Inv, NEW p \in Blocks, NEW a \in Payload(p)
    PROVE  /\ a \in Nat /\ a \in Address /\ a >= StackTop /\ a < brk
           /\ \A q \in Blocks : a # q - Unit /\ (q # p => a \notin Payload(q))
<1>1. p \in Nat /\ CapacityOf(p) \in Nat /\ p - Unit >= StackTop /\ p + CapacityOf(p) <= brk
  BY BlockFacts
<1>2. a \in Int /\ p <= a /\ a < p + CapacityOf(p)
  BY <1>1 DEF Payload
<1>3. /\ a \in Nat /\ a \in Address /\ a >= StackTop /\ a < brk
  BY <1>1, <1>2, BlockFacts DEF Address
<1>4. ASSUME NEW q \in Blocks
      PROVE  a # q - Unit /\ (q # p => a \notin Payload(q))
  <2>1. q \in Nat /\ CapacityOf(q) \in Nat /\ Unit \in Nat /\ Unit > 0
    BY BlockFacts
  <2>2. p # q => p + CapacityOf(p) <= q - Unit \/ q + CapacityOf(q) <= p - Unit
    BY DEF Inv, BlocksApart
  <2> QED
    BY <1>1, <1>2, <2>1, <2>2 DEF Payload
<1> QED
  BY <1>3, <1>4

(* No block is lost or gained by a step that leaves the headers alone and   *)
(* hands out no new storage.                                                *)
LEMMA BlocksKeep ==
    ASSUME Inv, brk' = brk, Blocks' \subseteq Blocks,
           \A p \in Blocks : mem'[p - Unit] = mem[p - Unit]
    PROVE  BlocksApart' /\ BrkAligned'
<1>1. \A p \in Blocks : CapacityOf(p)' = CapacityOf(p)
  BY DEF CapacityOf
<1>2. \A p \in Blocks : CapacityOf(p) = mem[p - Unit] /\ CapacityOf(p)' = mem'[p - Unit]
  BY DEF CapacityOf
<1>3. BrkAligned'
  BY DEF Inv, BrkAligned
<1>4. BlocksApart'
  BY <1>2 DEF Inv, BlocksApart, CapacityOf
<1> QED
  BY <1>3, <1>4

(* A frame lies in the stack. *)
LEMMA FrameFacts ==
    ASSUME Inv
    PROVE  /\ StaticEnd \in Nat /\ StackTop \in Nat /\ sp \in StaticEnd .. StackTop
           /\ Len(frames) \in Nat /\ DOMAIN frames = 1 .. Len(frames)
           /\ \A i \in DOMAIN frames :
                /\ frames[i].fp \in StaticEnd .. StackTop
                /\ frames[i].saved \in StaticEnd .. StackTop
<1> DEFINE Frame == [saved : StaticEnd .. StackTop, fp : StaticEnd .. StackTop,
                     stored : Data \cup {Unset}]
<1>1. frames \in Seq(Frame) /\ sp \in StaticEnd .. StackTop
  BY DEF Inv, TypeOK
<1>2. \A f \in Frame : f.fp \in StaticEnd .. StackTop /\ f.saved \in StaticEnd .. StackTop
  OBVIOUS
<1> HIDE DEF Frame
<1>3. /\ Len(frames) \in Nat /\ DOMAIN frames = 1 .. Len(frames)
      /\ \A i \in DOMAIN frames : frames[i] \in Frame
  BY <1>1
<1> QED
  BY <1>1, <1>2, <1>3, LayoutAssumption

(* What is stored outside of the stack leaves the frames alone. *)
LEMMA FramesKeep ==
    ASSUME Inv, UNCHANGED stack,
           \A a \in StaticEnd .. StackTop - 1 : mem'[a] = mem[a]
    PROVE  FramesKept' /\ FramesNest'
<1>1. sp' = sp /\ frames' = frames
  BY DEF stack
<1>2. FramesNest'
  BY <1>1 DEF Inv, FramesNest
<1>3. ASSUME NEW i \in DOMAIN frames
      PROVE  frames[i].fp \in StaticEnd .. StackTop /\ frames[i].saved \in StaticEnd .. StackTop
  BY FrameFacts
<1>4. ASSUME NEW i \in DOMAIN frames, NEW a \in frames[i].fp .. frames[i].saved - 1
      PROVE  mem'[a] = mem[a]
  <2>1. StaticEnd \in Nat /\ StackTop \in Nat
    BY LayoutAssumption
  <2>2. a \in StaticEnd .. StackTop - 1
    BY <1>3, <2>1
  <2> QED
    BY <2>2
<1>5. FramesKept'
  BY <1>1, <1>4 DEF Inv, FramesKept, Inner
<1> QED
  BY <1>2, <1>5

(* A step that stores into no first word of a freed block leaves the chain  *)
(* linked.                                                                  *)
LEMMA ChainKeep ==
    ASSUME Inv, chain' = chain, freeList' = freeList,
           \A i \in DOMAIN chain : mem'[chain[i]] = mem[chain[i]],
           live' \cap Freed = {}, live' \cap Passing' = {}, Freed \cap Passing' = {}
    PROVE  ChainLinked'
<1>1. Freed' = Freed
  BY DEF Freed
<1> QED
  BY <1>1 DEF Inv, ChainLinked

(* A step that leaves the heap alone and hands out nothing. *)
LEMMA HeapSame ==
    ASSUME Inv, UNCHANGED heap, Passing' \subseteq Passing
    PROVE  /\ BlocksApart' /\ BrkAligned' /\ ChainLinked'
           /\ \A p \in Blocks : CapacityOf(p)' = CapacityOf(p)
<1>1. /\ mem' = mem /\ brk' = brk /\ freeList' = freeList /\ live' = live /\ chain' = chain
  BY DEF heap
<1>2. Freed' = Freed
  BY <1>1 DEF Freed
<1>3. Blocks' \subseteq Blocks
  BY <1>1, <1>2 DEF Blocks
<1>4. BlocksApart' /\ BrkAligned'
  BY <1>1, <1>3, BlocksKeep
<1>5. /\ live \cap Freed = {} /\ live \cap Passing = {} /\ Freed \cap Passing = {}
  BY DEF Inv, ChainLinked
<1>6. ChainLinked'
  BY <1>1, <1>5, ChainKeep
<1> QED
  BY <1>1, <1>4, <1>6 DEF CapacityOf

(* A step that leaves the stack and all of memory alone. *)
LEMMA StackSame ==
    ASSUME Inv, UNCHANGED stack, mem' = mem
    PROVE  FramesKept' /\ FramesNest'
BY FramesKeep

-----------------------------------------------------------------------------
(* Each step keeps the invariant: first the calls that change no memory.    *)
LEMMA AnswersKeeps ==
    ASSUME Inv, NEW r \in Address, NEW bytes \in Nat, Answers(r, bytes)
    PROVE  Inv'
<1>1. /\ pc = "idle" /\ pc' = "idle" /\ ret' = r /\ asked' = bytes
      /\ UNCHANGED <<heap, search, stack, panicked>>
  BY DEF Answers, Idle, Returns
<1>2. Passing' \subseteq Passing
  BY <1>1 DEF Passing
<1>3. BlocksApart' /\ BrkAligned' /\ ChainLinked'
  BY <1>1, <1>2, HeapSame
<1>4. FramesKept' /\ FramesNest'
  BY <1>1, StackSame DEF heap
<1>5. TypeOK'
  BY <1>1 DEF Inv, TypeOK, heap, search, stack
<1>6. SearchInv' /\ CallInv' /\ GotInv'
  BY <1>1 DEF SearchInv, CallInv, GotInv
<1> QED
  BY <1>3, <1>4, <1>5, <1>6 DEF Inv

LEMMA StutterKeeps == ASSUME Inv, UNCHANGED vars PROVE Inv'
<1>1. UNCHANGED <<heap, search, stack, pc, ret, asked, panicked>>
  BY DEF vars
<1>2. Passing' \subseteq Passing
  BY <1>1 DEF Passing, search
<1>3. BlocksApart' /\ BrkAligned' /\ ChainLinked'
  BY <1>1, <1>2, HeapSame
<1>4. FramesKept' /\ FramesNest'
  BY <1>1, StackSame DEF heap
<1>5. TypeOK'
  BY <1>1 DEF Inv, TypeOK, heap, search, stack
<1>6. SearchInv' /\ CallInv' /\ GotInv'
  BY <1>1 DEF Inv, SearchInv, CallInv, GotInv, Between, CapacityOf, heap, search
<1> QED
  BY <1>3, <1>4, <1>5, <1>6 DEF Inv

(* malloc starts at the head of the chain. *)
LEMMA MallocKeeps ==
    ASSUME Inv, NEW fn \in {"malloc", "calloc", "realloc"}, NEW n \in Nat, NEW bytes \in Nat,
           NEW old \in Address, Malloc(fn, n, bytes, old),
           n <= Largest => n = bytes,
           fn = "malloc" => bytes \in Sizes,
           fn = "calloc" => \E count \in Counts, size \in Sizes : bytes = count * size,
           fn = "realloc" => bytes \in Sizes /\ old \in live /\ CapacityOf(old) < n
    PROVE  Inv'
<1>0. Limit \in Nat /\ Limit > 0 /\ Largest \in Int /\ 0 \in Address
  BY BlockFacts, LayoutAssumption, UnitAssumption DEF Address, Largest
<1>1. CASE n > Largest
  BY <1>0, <1>1, AnswersKeeps DEF Malloc, NULL
<1>2. CASE n <= Largest
  <2>1. /\ pc = "idle" /\ pc' = "search"
        /\ call' = [fn |-> fn, n |-> n, bytes |-> bytes, old |-> old]
        /\ cap' = Capacity(n) /\ prev' = 0 /\ cur' = freeList
        /\ UNCHANGED <<heap, got, ret, asked, stack, panicked>>
    BY <1>0, <1>2 DEF Malloc, Idle
  <2>2. Passing' \subseteq Passing
    BY <2>1 DEF Passing
  <2>3. BlocksApart' /\ BrkAligned' /\ ChainLinked'
    BY <2>1, <2>2, HeapSame
  <2>4. FramesKept' /\ FramesNest'
    BY <2>1, StackSame DEF heap
  <2>5. /\ cap' \in Nat /\ cap' >= n /\ cap' >= Unit /\ cap' % Unit = 0 /\ cap' < IntHalf
    BY <1>2, <2>1, CapacityCovers
  <2>6. cap' \in 0 .. IntHalf
    BY <2>5, LayoutAssumption
  <2>7. call' \in [fn : {"malloc", "calloc", "realloc"}, n : Nat, bytes : Nat, old : Address]
    BY <2>1
  <2>8. TypeOK'
    BY <1>0, <2>1, <2>6, <2>7 DEF Inv, TypeOK, heap, stack
  <2>9. SearchInv'
    <3>1. chain' = chain /\ freeList' = freeList /\ Len(chain) \in Nat
      BY <2>1 DEF heap, Inv, TypeOK
    <3>2. freeList = IF chain = <<>> THEN 0 ELSE chain[1]
      BY DEF Inv, ChainLinked
    <3>3. chain = <<>> <=> Len(chain) = 0
      BY DEF Inv, TypeOK
    <3>4. Between(0)'
      BY <2>1, <3>1, <3>2, <3>3 DEF Between
    <3> QED
      BY <2>1, <2>5, <3>1, <3>4 DEF SearchInv
  <2>10. CallInv' /\ GotInv'
    <3>1. live' = live /\ mem' = mem
      BY <2>1 DEF heap
    <3> QED
      BY <1>2, <2>1, <3>1 DEF CallInv, GotInv, CapacityOf
  <2> QED
    BY <2>3, <2>4, <2>8, <2>9, <2>10 DEF Inv
<1> QED
  BY <1>0, <1>1, <1>2

LEMMA CallocKeeps ==
    ASSUME Inv, NEW count \in Counts, NEW size \in Sizes, Calloc(count, size)
    PROVE  Inv'
<1>1. count \in Nat /\ size \in Nat /\ 0 \in Address
  BY ProgramAssumption, BlockFacts DEF Address
<1>2. CASE size # 0 /\ count > Largest \div size
  <2>1. count * size \in Nat
    BY <1>1
  <2> QED
    BY <1>1, <1>2, <2>1, AnswersKeeps DEF Calloc, NULL
<1>3. CASE ~(size # 0 /\ count > Largest \div size)
  <2>1. /\ count * size \in Nat /\ (count * size) % Word = count * size
    BY <1>1, <1>3, ProductFits
  <2> QED
    BY <1>1, <1>3, <2>1, MallocKeeps DEF Calloc
<1> QED
  BY <1>2, <1>3

-----------------------------------------------------------------------------
(* A freed block goes to the head of the chain. *)
LEMMA Pushed ==
    ASSUME NEW S, NEW s \in Seq(S), NEW x \in S
    PROVE  /\ <<x>> \o s \in Seq(S) /\ Len(<<x>> \o s) = Len(s) + 1
           /\ DOMAIN (<<x>> \o s) = 1 .. Len(s) + 1
           /\ (<<x>> \o s)[1] = x
           /\ \A i \in 1 .. Len(s) : (<<x>> \o s)[i + 1] = s[i]
<1>1. Len(<<x>>) = 1 /\ <<x>> \in Seq(S) /\ Len(s) \in Nat
  OBVIOUS
<1> QED
  BY <1>1

LEMMA ChainLength == ASSUME Inv PROVE Len(chain) \in Nat
BY DEF Inv, TypeOK

LEMMA ChainFacts ==
    ASSUME Inv
    PROVE  /\ chain \in Seq(Address) /\ Len(chain) \in Nat /\ DOMAIN chain = 1 .. Len(chain)
           /\ chain = <<>> <=> Len(chain) = 0
           /\ \A i \in 1 .. Len(chain) :
                chain[i] \in Blocks /\ chain[i] \in Freed /\ chain[i] \in Nat /\ chain[i] > 0
                /\ chain[i] \in Address
<1>1. /\ chain \in Seq(Address) /\ Len(chain) \in Nat /\ DOMAIN chain = 1 .. Len(chain)
      /\ chain = <<>> <=> Len(chain) = 0
  BY DEF Inv, TypeOK
<1>2. \A i \in 1 .. Len(chain) : chain[i] \in Freed /\ chain[i] \in Blocks
  BY <1>1 DEF Freed, Blocks
<1> QED
  BY <1>1, <1>2, BlockFacts

LEMMA PushKeepsChain ==
    ASSUME Inv, NEW p \in live, chain' = <<p>> \o chain, freeList' = p, mem'[p] = freeList,
           \A i \in DOMAIN chain : mem'[chain[i]] = mem[chain[i]],
           live' \cap ({p} \cup Freed) = {}, live' \cap Passing' = {},
           ({p} \cup Freed) \cap Passing' = {}
    PROVE  ChainLinked' /\ Freed' = {p} \cup Freed /\ chain' \in Seq(Address)
<1>1. p \in Address /\ p \notin Freed
  BY DEF Inv, TypeOK, ChainLinked
<1>2. /\ chain' \in Seq(Address) /\ Len(chain') = Len(chain) + 1 /\ DOMAIN chain' = 1 .. Len(chain) + 1
      /\ chain'[1] = p /\ \A i \in 1 .. Len(chain) : chain'[i + 1] = chain[i]
  BY <1>1, ChainFacts, Pushed
<1>3. \A i \in 1 .. Len(chain) + 1 : i = 1 \/ (i - 1 \in 1 .. Len(chain) /\ chain'[i] = chain[i - 1])
  <2> SUFFICES ASSUME NEW i \in 1 .. Len(chain) + 1, i # 1
               PROVE  i - 1 \in 1 .. Len(chain) /\ chain'[i] = chain[i - 1]
    OBVIOUS
  <2>1. i - 1 \in 1 .. Len(chain) /\ (i - 1) + 1 = i
    BY ChainFacts
  <2> QED
    BY <1>2, <2>1
<1>4. Freed' = {p} \cup Freed
  <2>1. Freed' = {chain'[i] : i \in 1 .. Len(chain) + 1}
    BY <1>2 DEF Freed
  <2>2. Freed = {chain[i] : i \in 1 .. Len(chain)}
    BY ChainFacts DEF Freed
  <2>3. \A i \in 1 .. Len(chain) : i + 1 \in 1 .. Len(chain) + 1
    BY ChainFacts
  <2>4. 1 \in 1 .. Len(chain) + 1
    BY ChainFacts
  <2>5. Freed' \subseteq {p} \cup Freed
    BY <1>2, <1>3, <2>1, <2>2
  <2>6. \A i \in 1 .. Len(chain) : chain[i] \in Freed'
    BY <1>2, <2>1, <2>3
  <2>7. p \in Freed'
    BY <1>2, <2>1, <2>4
  <2> QED
    BY <2>2, <2>5, <2>6, <2>7
<1>5. freeList' = IF chain' = <<>> THEN 0 ELSE chain'[1]
  BY <1>2, ChainFacts
<1>6. ASSUME NEW i \in DOMAIN chain'
      PROVE  mem'[chain'[i]] = IF i = Len(chain') THEN 0 ELSE chain'[i + 1]
  <2>1. CASE i = 1
    <3>1. mem'[chain'[i]] = IF chain = <<>> THEN 0 ELSE chain[1]
      BY <1>2, <2>1 DEF Inv, ChainLinked
    <3>2. chain # <<>> => chain'[2] = chain[1]
      <4>1. chain # <<>> => 1 \in 1 .. Len(chain)
        BY ChainFacts
      <4> QED
        BY <1>2, <4>1
    <3> QED
      BY <1>2, <2>1, <3>1, <3>2, ChainFacts
  <2>2. CASE i # 1
    <3>1. i - 1 \in 1 .. Len(chain) /\ chain'[i] = chain[i - 1]
      BY <1>2, <1>3, <2>2
    <3>2. mem'[chain'[i]] = IF i - 1 = Len(chain) THEN 0 ELSE chain[(i - 1) + 1]
      BY <3>1, ChainFacts DEF Inv, ChainLinked
    <3>3. i - 1 # Len(chain) => i \in 1 .. Len(chain) /\ (i - 1) + 1 = i
      <4>1. i \in 1 .. Len(chain) + 1 /\ Len(chain) \in Nat
        BY <1>2, ChainFacts
      <4> QED
        BY <2>2, <4>1
    <3>4. i - 1 # Len(chain) => chain'[i + 1] = chain[i]
      BY <1>2, <3>3
    <3> QED
      BY <1>2, <3>1, <3>2, <3>3, <3>4, ChainFacts
  <2> QED
    BY <2>1, <2>2
<1>7. ASSUME NEW i \in DOMAIN chain', NEW j \in DOMAIN chain', chain'[i] = chain'[j]
      PROVE  i = j
  <2>1. \A k \in 1 .. Len(chain) : chain[k] # p
    BY <1>1, ChainFacts
  <2>2. i \in 1 .. Len(chain) + 1 /\ j \in 1 .. Len(chain) + 1 /\ i \in Int /\ j \in Int
    BY <1>2
  <2>3. i = 1 <=> j = 1
    BY <1>2, <1>3, <1>7, <2>1, <2>2
  <2>4. CASE i # 1
    <3>1. i - 1 \in 1 .. Len(chain) /\ j - 1 \in 1 .. Len(chain) /\ chain[i - 1] = chain[j - 1]
      BY <1>3, <1>7, <2>2, <2>3, <2>4
    <3>2. i - 1 = j - 1
      BY <3>1, ChainFacts DEF Inv, ChainLinked
    <3> QED
      BY <2>2, <3>2
  <2> QED
    BY <2>3, <2>4
<1>8. ChainLinked'
  BY <1>4, <1>5, <1>6, <1>7 DEF ChainLinked
<1> QED
  BY <1>2, <1>4, <1>8

LEMMA FreeKeeps == ASSUME Inv, NEW p \in live, Free(p) PROVE Inv'
<1>1. /\ pc = "idle" /\ pc' = "idle" /\ ret' = NULL /\ asked' = 0
      /\ mem' = [mem EXCEPT ![p] = freeList] /\ freeList' = p
      /\ live' = live \ {p} /\ chain' = <<p>> \o chain
      /\ UNCHANGED <<brk, search, stack, panicked>>
  BY DEF Free, Idle, Push, Returns
<1>2. p \in Blocks /\ p \in Payload(p) /\ p \in Address /\ 0 \in Address
  <2>1. p \in Blocks
    BY DEF Blocks
  <2> QED
    BY <2>1, BlockFacts DEF Payload, Address
<1>3. \A q \in Blocks : q - Unit # p
  BY <1>2, PayloadApart
<1>4. \A a \in Address : a # p => mem'[a] = mem[a]
  BY <1>1 DEF Inv, TypeOK
<1>5. mem'[p] = freeList
  BY <1>1, <1>2 DEF Inv, TypeOK
<1>6. \A i \in DOMAIN chain : mem'[chain[i]] = mem[chain[i]]
  <2>1. \A i \in DOMAIN chain : chain[i] # p /\ chain[i] \in Address
    BY ChainFacts, BlockFacts DEF Inv, ChainLinked
  <2> QED
    BY <1>4, <2>1
<1>7. Passing' = {} /\ live' \cap ({p} \cup Freed) = {}
  BY <1>1 DEF Passing, Inv, ChainLinked
<1>8. ChainLinked' /\ Freed' = {p} \cup Freed /\ chain' \in Seq(Address)
  BY <1>1, <1>5, <1>6, <1>7, PushKeepsChain
<1>9. Blocks' \subseteq Blocks
  BY <1>1, <1>2, <1>7, <1>8 DEF Blocks
<1>10. \A q \in Blocks : mem'[q - Unit] = mem[q - Unit]
  BY <1>3, <1>4, BlockFacts
<1>11. BlocksApart' /\ BrkAligned'
  BY <1>1, <1>9, <1>10, BlocksKeep
<1>12. FramesKept' /\ FramesNest'
  <2>1. ASSUME NEW a \in StaticEnd .. StackTop - 1
        PROVE  mem'[a] = mem[a]
    <3>1. a \in Address /\ a # p
      BY <1>2, PayloadApart, BlockFacts, LayoutAssumption DEF Address
    <3> QED
      BY <1>4, <3>1
  <2> QED
    BY <1>1, <2>1, FramesKeep
<1>13. mem' \in [Address -> Int]
  <2>1. freeList \in Int
    BY LayoutAssumption DEF Inv, TypeOK, Address
  <2> QED
    BY <1>1, <2>1 DEF Inv, TypeOK
<1>14. TypeOK'
  BY <1>1, <1>2, <1>8, <1>13 DEF Inv, TypeOK, search, stack, NULL
<1>15. SearchInv' /\ CallInv' /\ GotInv'
  BY <1>1 DEF SearchInv, CallInv, GotInv
<1> QED
  BY <1>8, <1>11, <1>12, <1>14, <1>15 DEF Inv

LEMMA ReallocKeeps ==
    ASSUME Inv, NEW p \in live \cup {NULL}, NEW n \in Sizes, Realloc(p, n)
    PROVE  Inv'
<1>1. n \in Nat /\ 0 \in Address /\ live \subseteq Address
  <2>1. live \subseteq Address
    BY DEF Inv, TypeOK
  <2>2. 0 \in Address
    BY BlockFacts DEF Address
  <2> QED
    BY <2>1, <2>2, ProgramAssumption
<1>2. CASE p = NULL /\ Malloc("malloc", n, n, 0)
  BY <1>1, <1>2, MallocKeeps
<1>3. CASE p \in live /\ n = 0 /\ Free(p)
  BY <1>3, FreeKeeps
<1>4. CASE p \in live /\ n > 0 /\ n <= CapacityOf(p) /\ Answers(p, n)
  BY <1>1, <1>4, AnswersKeeps
<1>5. CASE p \in live /\ n > CapacityOf(p) /\ Malloc("realloc", n, n, p)
  <2>1. CapacityOf(p) \in Nat
    BY <1>5, BlockFacts DEF Blocks
  <2>2. CapacityOf(p) < n
    BY <1>1, <1>5, <2>1
  <2> QED
    BY <1>1, <1>5, <2>2, MallocKeeps
<1> QED
  BY <1>2, <1>3, <1>4, <1>5 DEF Realloc

-----------------------------------------------------------------------------
(* malloc's loop. *)
LEMMA LoopFacts ==
    ASSUME Inv, pc = "search"
    PROVE  /\ Passing = {}
           /\ cap \in Nat /\ cap >= Unit /\ cap % Unit = 0 /\ call.n <= cap /\ call.n \in Nat
           /\ \E i \in Nat :
                /\ i <= Len(chain)
                /\ prev = IF i = 0 THEN 0 ELSE chain[i]
                /\ cur = IF i = Len(chain) THEN 0 ELSE chain[i + 1]
                /\ cur = 0 <=> i = Len(chain)
                /\ prev = 0 <=> i = 0
<1>1. Passing = {}
  BY DEF Passing
<1>2. cap \in Nat /\ cap >= Unit /\ cap % Unit = 0 /\ call.n <= cap /\ call.n \in Nat
  <2>1. cap \in 0 .. IntHalf /\ call.n \in Nat
    BY DEF Inv, TypeOK
  <2> QED
    BY <2>1, LayoutAssumption DEF Inv, SearchInv
<1>3. PICK i \in 0 .. Len(chain) : Between(i)
  BY DEF Inv, SearchInv
<1>4. i \in Nat /\ Len(chain) \in Nat /\ i <= Len(chain)
  BY ChainLength
<1>5. i # Len(chain) => chain[i + 1] > 0
  <2>1. i # Len(chain) => i + 1 \in 1 .. Len(chain)
    BY <1>4
  <2> QED
    BY <2>1, ChainFacts
<1>6. i # 0 => chain[i] > 0
  <2>1. i # 0 => i \in 1 .. Len(chain)
    BY <1>4
  <2> QED
    BY <2>1, ChainFacts
<1>7. (cur = 0 <=> i = Len(chain)) /\ (prev = 0 <=> i = 0)
  BY <1>3, <1>5, <1>6 DEF Between
<1> QED
  BY <1>1, <1>2, <1>3, <1>4, <1>7 DEF Between

LEMMA NextFreedKeeps == ASSUME Inv, NextFreed PROVE Inv'
<1>1. /\ pc = "search" /\ pc' = "search" /\ cur # 0 /\ prev' = cur /\ cur' = mem[cur]
      /\ UNCHANGED <<cap, call, ret, asked, stack, panicked, heap, got>>
  BY DEF NextFreed, Searching
<1>2. PICK i \in Nat : i <= Len(chain) /\ i # Len(chain) /\ cur = chain[i + 1]
  BY <1>1, LoopFacts
<1>3. i + 1 \in 1 .. Len(chain) /\ i + 1 \in 0 .. Len(chain) /\ i + 1 # 0
  BY <1>2, ChainLength
<1>4. cur = chain[i + 1] /\ cur' = IF i + 1 = Len(chain) THEN 0 ELSE chain[(i + 1) + 1]
  BY <1>1, <1>2, <1>3, ChainFacts DEF Inv, ChainLinked
<1>5. chain' = chain
  BY <1>1 DEF heap
<1>6. Between(i + 1)'
  BY <1>1, <1>3, <1>4, <1>5 DEF Between
<1>7. SearchInv'
  BY <1>1, <1>3, <1>5, <1>6 DEF Inv, SearchInv
<1>8. BlocksApart' /\ BrkAligned' /\ ChainLinked'
  BY <1>1, HeapSame DEF Passing
<1>9. FramesKept' /\ FramesNest'
  BY <1>1, StackSame DEF heap
<1>10. CallInv' /\ GotInv'
  BY <1>1 DEF Inv, CallInv, GotInv, CapacityOf, heap
<1>11. cur' \in Address
  <2>1. i + 1 # Len(chain) => (i + 1) + 1 \in 1 .. Len(chain)
    BY <1>3, ChainLength
  <2>2. i + 1 # Len(chain) => chain[(i + 1) + 1] \in Address
    BY <2>1, ChainFacts
  <2>3. 0 \in Address
    BY BlockFacts DEF Address
  <2> QED
    BY <1>4, <2>2, <2>3
<1>12. TypeOK'
  BY <1>1, <1>11 DEF Inv, TypeOK, heap, stack
<1> QED
  BY <1>7, <1>8, <1>9, <1>10, <1>12 DEF Inv

(* The chain without its k-th block. *)
LEMMA WithoutFacts ==
    ASSUME NEW S, NEW s \in Seq(S), NEW k \in 1 .. Len(s),
           \A i, j \in DOMAIN s : s[i] = s[j] => i = j
    PROVE  /\ Without(s, s[k]) \in Seq(S) /\ Len(Without(s, s[k])) = Len(s) - 1
           /\ DOMAIN Without(s, s[k]) = 1 .. Len(s) - 1
           /\ \A i \in 1 .. Len(s) - 1 :
                Without(s, s[k])[i] = IF i < k THEN s[i] ELSE s[i + 1]
<1> DEFINE w == Without(s, s[k])
<1>1. Len(s) \in Nat /\ DOMAIN s = 1 .. Len(s) /\ k \in Nat /\ Len(s) - 1 \in Nat
  OBVIOUS
<1>2. ASSUME NEW i \in 1 .. Len(s) - 1
      PROVE  (\E j \in 1 .. i : s[j] = s[k]) <=> k <= i
  <2>1. \A j \in 1 .. i : j \in DOMAIN s
    BY <1>1
  <2>2. k <= i => k \in 1 .. i
    BY <1>1
  <2> QED
    BY <1>1, <2>1, <2>2
<1>3. w = [i \in 1 .. Len(s) - 1 |-> IF k <= i THEN s[i + 1] ELSE s[i]]
  BY <1>2 DEF Without
<1>4. \A i \in 1 .. Len(s) - 1 : (IF k <= i THEN s[i + 1] ELSE s[i]) \in S
  <2>1. \A i \in 1 .. Len(s) - 1 : i \in 1 .. Len(s) /\ i + 1 \in 1 .. Len(s)
    BY <1>1
  <2> QED
    BY <2>1
<1> HIDE DEF w
<1>5. w \in Seq(S) /\ Len(w) = Len(s) - 1 /\ DOMAIN w = 1 .. Len(s) - 1
  BY <1>1, <1>3, <1>4
<1>6. \A i \in 1 .. Len(s) - 1 : w[i] = IF i < k THEN s[i] ELSE s[i + 1]
  BY <1>1, <1>3
<1> QED
  BY <1>5, <1>6 DEF w

LEMMA TakeFreedKeeps == ASSUME Inv, TakeFreed PROVE Inv'
<1>1. /\ pc = "search" /\ pc' = "got" /\ cur # 0 /\ CapacityOf(cur) >= cap /\ got' = cur
      /\ IF prev = 0 THEN freeList' = mem[cur] /\ mem' = mem
         ELSE mem' = [mem EXCEPT ![prev] = mem[cur]] /\ freeList' = freeList
      /\ chain' = Without(chain, cur)
      /\ UNCHANGED <<cap, call, ret, asked, stack, panicked, brk, live, prev, cur>>
  BY DEF TakeFreed, Searching
<1>2. PICK i \in Nat : /\ i <= Len(chain) /\ i # Len(chain) /\ cur = chain[i + 1]
                       /\ prev = 0 <=> i = 0
                       /\ i # 0 => prev = chain[i]
  BY <1>1, LoopFacts
<1> DEFINE k == i + 1
<1>3. k \in 1 .. Len(chain) /\ cur = chain[k] /\ k \in Nat /\ k = i + 1
  BY <1>2, ChainLength
<1> HIDE DEF k
<1>4. mem[cur] = IF k = Len(chain) THEN 0 ELSE chain[k + 1]
  BY <1>3, ChainFacts DEF Inv, ChainLinked
<1>5. /\ chain' \in Seq(Address) /\ Len(chain') = Len(chain) - 1
      /\ DOMAIN chain' = 1 .. Len(chain) - 1
      /\ \A j \in 1 .. Len(chain) - 1 : chain'[j] = IF j < k THEN chain[j] ELSE chain[j + 1]
  BY <1>1, <1>3, ChainFacts, WithoutFacts DEF Inv, ChainLinked
<1>6. i # 0 => /\ prev = chain[i] /\ i \in 1 .. Len(chain) /\ prev \in Blocks
               /\ prev \in Payload(prev)
  <2> SUFFICES ASSUME i # 0
               PROVE  /\ prev = chain[i] /\ i \in 1 .. Len(chain) /\ prev \in Blocks
                      /\ prev \in Payload(prev)
    OBVIOUS
  <2>1. prev = chain[i] /\ i \in 1 .. Len(chain)
    BY <1>2, ChainLength
  <2>2. prev \in Blocks
    BY <2>1, ChainFacts
  <2> QED
    BY <2>1, <2>2, BlockFacts DEF Payload
<1>7. \A a \in Address : i = 0 \/ a # prev => mem'[a] = mem[a]
  BY <1>1, <1>2 DEF Inv, TypeOK
<1>8. i # 0 => mem'[prev] = mem[cur]
  BY <1>1, <1>2 DEF Inv, TypeOK
<1>9. freeList' = IF chain' = <<>> THEN 0 ELSE chain'[1]
  <2>1. chain' = <<>> <=> Len(chain) = 1
    BY <1>5, ChainFacts
  <2>2. CASE i = 0
    <3>1. freeList' = IF Len(chain) = 1 THEN 0 ELSE chain[2]
      BY <1>1, <1>2, <1>3, <1>4, <2>2
    <3>2. Len(chain) # 1 => 1 \in 1 .. Len(chain) - 1
      BY <1>3, ChainFacts
    <3>3. Len(chain) # 1 => chain'[1] = chain[2]
      BY <1>3, <1>5, <2>2, <3>2
    <3> QED
      BY <2>1, <3>1, <3>3
  <2>3. CASE i # 0
    <3>1. freeList' = chain[1] /\ Len(chain) # 1
      BY <1>1, <1>2, <1>3, <2>3, ChainFacts DEF Inv, ChainLinked
    <3>2. 1 \in 1 .. Len(chain) - 1 /\ 1 < k
      BY <1>2, <1>3, <2>3, <3>1, ChainLength
    <3> QED
      BY <1>5, <2>1, <3>1, <3>2
  <2> QED
    BY <2>2, <2>3
<1>10. ASSUME NEW j \in DOMAIN chain'
       PROVE  mem'[chain'[j]] = IF j = Len(chain') THEN 0 ELSE chain'[j + 1]
  <2>1. j \in 1 .. Len(chain) - 1 /\ j \in 1 .. Len(chain) /\ j + 1 \in 1 .. Len(chain) /\ j \in Nat
    BY <1>5, ChainFacts
  <2>2. j # Len(chain) - 1 => j + 1 \in 1 .. Len(chain) - 1 /\ (j + 1) + 1 \in 1 .. Len(chain)
    BY <2>1, ChainFacts
  <2>3. CASE j = i
    <3>1. chain'[j] = prev /\ mem'[chain'[j]] = IF k = Len(chain) THEN 0 ELSE chain[k + 1]
      BY <1>3, <1>4, <1>5, <1>6, <1>8, <2>1, <2>3
    <3>2. j # Len(chain) - 1 => chain'[j + 1] = chain[k + 1]
      BY <1>3, <1>5, <2>2, <2>3
    <3> QED
      BY <1>3, <1>5, <2>1, <2>3, <3>1, <3>2, ChainFacts
  <2>4. CASE j < i
    <3>1. chain'[j] = chain[j] /\ chain[j] \in Address /\ (i # 0 => chain[j] # prev)
      <4>1. j < k /\ j # i
        BY <1>2, <1>3, <2>1, <2>4
      <4>2. chain'[j] = chain[j]
        BY <1>5, <2>1, <4>1
      <4>3. i # 0 => chain[j] # chain[i]
        BY <1>6, <2>1, <4>1, ChainFacts DEF Inv, ChainLinked
      <4> QED
        BY <1>6, <2>1, <4>2, <4>3, ChainFacts
    <3>2. mem'[chain'[j]] = chain[j + 1]
      BY <1>2, <1>7, <2>1, <2>4, <3>1, ChainFacts DEF Inv, ChainLinked
    <3>3. j # Len(chain) - 1 /\ chain'[j + 1] = chain[j + 1]
      BY <1>2, <1>3, <1>5, <2>1, <2>2, <2>4, ChainFacts
    <3> QED
      BY <1>5, <3>2, <3>3
  <2>5. CASE j > i
    <3>1. chain'[j] = chain[j + 1] /\ chain[j + 1] \in Address /\ (i # 0 => chain[j + 1] # prev)
      <4>1. ~(j < k) /\ j + 1 # i /\ j + 1 \in 1 .. Len(chain)
        BY <1>2, <1>3, <2>1, <2>5
      <4>2. i # 0 => chain[j + 1] # chain[i]
        BY <1>6, <4>1, ChainFacts DEF Inv, ChainLinked
      <4> QED
        BY <1>5, <1>6, <2>1, <4>1, <4>2, ChainFacts
    <3>2. mem'[chain'[j]] = IF j + 1 = Len(chain) THEN 0 ELSE chain[(j + 1) + 1]
      BY <1>7, <2>1, <3>1, ChainFacts DEF Inv, ChainLinked
    <3>3. j # Len(chain) - 1 => chain'[j + 1] = chain[(j + 1) + 1]
      BY <1>2, <1>3, <1>5, <2>1, <2>2, <2>5
    <3> QED
      BY <1>5, <2>1, <3>2, <3>3, ChainFacts
  <2> QED
    BY <1>2, <2>1, <2>3, <2>4, <2>5
<1>11. ASSUME NEW j \in DOMAIN chain', NEW m \in DOMAIN chain', chain'[j] = chain'[m]
       PROVE  j = m
  <2> DEFINE at(x) == IF x < k THEN x ELSE x + 1
  <2>1. /\ j \in 1 .. Len(chain) - 1 /\ m \in 1 .. Len(chain) - 1 /\ j \in Nat /\ m \in Nat
        /\ at(j) \in 1 .. Len(chain) /\ at(m) \in 1 .. Len(chain)
    BY <1>3, <1>5, ChainFacts
  <2>2. chain'[j] = chain[at(j)] /\ chain'[m] = chain[at(m)]
    BY <1>5, <2>1
  <2>3. at(j) = at(m)
    BY <1>11, <2>1, <2>2, ChainFacts DEF Inv, ChainLinked
  <2> QED
    BY <1>3, <2>1, <2>3
<1>12. Freed' \subseteq Freed \ {cur}
  <2> SUFFICES ASSUME NEW j \in 1 .. Len(chain) - 1
               PROVE  chain'[j] \in Freed \ {cur}
    BY <1>5 DEF Freed
  <2> DEFINE at == IF j < k THEN j ELSE j + 1
  <2>1. at \in 1 .. Len(chain) /\ at # k
    BY <1>3, ChainFacts
  <2>2. chain'[j] = chain[at]
    BY <1>5
  <2> HIDE DEF at
  <2>3. chain[at] # chain[k]
    BY <1>3, <2>1, ChainFacts DEF Inv, ChainLinked
  <2> QED
    BY <1>3, <2>1, <2>2, <2>3, ChainFacts
<1>13. Passing' = {cur} /\ cur \in Freed /\ cur \in Blocks /\ live' = live
  BY <1>1, <1>3, ChainFacts DEF Passing, NULL
<1>14. ChainLinked'
  <2>1. live' \cap Freed' = {} /\ live' \cap Passing' = {} /\ Freed' \cap Passing' = {}
    BY <1>12, <1>13 DEF Inv, ChainLinked
  <2> QED
    BY <1>9, <1>10, <1>11, <2>1 DEF ChainLinked
<1>15. \A p \in Blocks : mem'[p - Unit] = mem[p - Unit]
  <2> SUFFICES ASSUME NEW p \in Blocks
               PROVE  mem'[p - Unit] = mem[p - Unit]
    OBVIOUS
  <2>1. p - Unit \in Address /\ (i # 0 => p - Unit # prev)
    BY <1>6, BlockFacts, PayloadApart
  <2> QED
    BY <1>7, <2>1
<1>16. BlocksApart' /\ BrkAligned'
  <2>1. Blocks' \subseteq Blocks
    BY <1>12, <1>13 DEF Blocks
  <2> QED
    BY <1>1, <1>15, <2>1, BlocksKeep
<1>17. FramesKept' /\ FramesNest'
  <2>1. ASSUME NEW a \in StaticEnd .. StackTop - 1
        PROVE  mem'[a] = mem[a]
    <3>1. a \in Address /\ (i # 0 => a # prev)
      BY <1>6, PayloadApart, BlockFacts, LayoutAssumption DEF Address
    <3> QED
      BY <1>7, <3>1
  <2> QED
    BY <1>1, <2>1, FramesKeep
<1>18. freeList' \in Address /\ mem' \in [Address -> Int] /\ mem[cur] \in Int
  <2>1. mem[cur] \in Address
    <3>1. k # Len(chain) => k + 1 \in 1 .. Len(chain)
      BY <1>3, ChainLength
    <3>2. k # Len(chain) => chain[k + 1] \in Address
      BY <3>1, ChainFacts
    <3>3. 0 \in Address
      BY BlockFacts DEF Address
    <3> QED
      BY <1>4, <3>2, <3>3
  <2>2. \A a \in Address : a \in Int
    BY LayoutAssumption DEF Address
  <2> QED
    BY <1>1, <2>1, <2>2 DEF Inv, TypeOK
<1>19. TypeOK'
  BY <1>1, <1>5, <1>18 DEF Inv, TypeOK, stack
<1>20. SearchInv' /\ GotInv'
  <2>1. CapacityOf(cur)' = CapacityOf(cur) /\ CapacityOf(cur) \in Nat
    BY <1>1, <1>13, <1>15, BlockFacts DEF CapacityOf
  <2>2. call' = call /\ call.n <= cap /\ call.n \in Nat /\ cap \in Nat
    BY <1>1, LoopFacts
  <2>3. got' = cur /\ CapacityOf(got)' = CapacityOf(cur)
    BY <1>1, <1>15, <1>13 DEF CapacityOf
  <2> QED
    BY <1>1, <2>1, <2>2, <2>3 DEF SearchInv, GotInv
<1>21. CallInv'
  <2>1. \A p \in live : CapacityOf(p)' = CapacityOf(p)
    BY <1>15 DEF CapacityOf, Blocks
  <2> QED
    BY <1>1, <2>1 DEF Inv, CallInv
<1> QED
  BY <1>14, <1>16, <1>17, <1>19, <1>20, <1>21 DEF Inv

LEMMA ExtendKeeps == ASSUME Inv, Extend PROVE Inv'
<1>1. /\ pc = "search" /\ pc' = "got" /\ cur = 0 /\ End <= Limit /\ brk' = End
      /\ mem' = [mem EXCEPT ![brk] = cap] /\ got' = brk + Unit
      /\ UNCHANGED <<cap, call, ret, asked, stack, panicked, freeList, live, chain, prev, cur>>
  BY DEF Extend, Searching
<1>0. brk + Unit \in Nat
  BY BlockFacts
<1> PICK new \in Nat : new = brk + Unit
  BY <1>0
<1>2. /\ cap \in Nat /\ cap >= Unit /\ cap % Unit = 0 /\ call.n <= cap /\ call.n \in Nat
      /\ Passing = {}
  BY <1>1, LoopFacts
<1>3. /\ brk \in Nat /\ brk <= Limit /\ StackTop <= brk /\ Limit \in Nat
      /\ Unit \in Nat /\ Unit > 0 /\ StackTop \in Nat
  BY BlockFacts
<1>4. brk' = brk + Unit + cap /\ brk' \in Nat /\ brk' <= Limit /\ brk \in Address /\ new \in Address
      /\ new \in Nat /\ new # 0
  BY <1>1, <1>2, <1>3 DEF End, Address
<1>5. mem'[brk] = cap /\ \A a \in Address : a # brk => mem'[a] = mem[a]
  BY <1>1, <1>4 DEF Inv, TypeOK
<1>6. \A p \in Blocks : mem'[p - Unit] = mem[p - Unit] /\ p < brk /\ p \in Address
  <2> SUFFICES ASSUME NEW p \in Blocks
               PROVE  mem'[p - Unit] = mem[p - Unit] /\ p < brk /\ p \in Address
    OBVIOUS
  <2>1. p - Unit \in Address /\ p - Unit # brk /\ p < brk /\ p \in Address
    BY <1>3, BlockFacts
  <2> QED
    BY <1>5, <2>1
<1>7. Freed' = Freed /\ Passing' = {new} /\ live' = live
  BY <1>1, <1>4 DEF Freed, Passing, NULL
<1>8. Blocks' = Blocks \cup {new} /\ new \notin Blocks
  <2>1. new \notin Blocks
    BY <1>3, <1>6
  <2> QED
    BY <1>2, <1>7, <2>1 DEF Blocks
<1>9. /\ \A p \in Blocks : CapacityOf(p)' = CapacityOf(p)
      /\ CapacityOf(new)' = cap
  <2>1. new - Unit = brk
    BY <1>3
  <2> QED
    BY <1>5, <1>6, <2>1 DEF CapacityOf
<1>10. brk % Unit = 0 /\ new % Unit = 0 /\ brk' % Unit = 0
  <2>1. brk % Unit = 0 /\ Unit % Unit = 0
    BY <1>3, SMT DEF Inv, BrkAligned
  <2>2. new % Unit = 0
    BY <1>3, <2>1, MultipleSum
  <2>3. (new + cap) % Unit = 0
    BY <1>2, <1>4, <2>2, MultipleSum
  <2>4. brk' = new + cap
    BY <1>2, <1>3, <1>4
  <2> QED
    BY <2>1, <2>2, <2>3, <2>4
<1>11. ASSUME NEW p \in Blocks'
       PROVE  /\ p % Unit = 0 /\ p - Unit >= StackTop
              /\ CapacityOf(p)' >= Unit /\ CapacityOf(p)' % Unit = 0
              /\ p + CapacityOf(p)' <= brk'
  <2>1. CASE p \in Blocks
    BY <1>2, <1>3, <1>4, <1>9, <2>1, BlockFacts
  <2>2. CASE p = new
    BY <1>2, <1>3, <1>4, <1>9, <1>10, <2>2
  <2> QED
    BY <1>8, <2>1, <2>2
<1>12. ASSUME NEW p \in Blocks', NEW q \in Blocks', p # q
       PROVE  p + CapacityOf(p)' <= q - Unit \/ q + CapacityOf(q)' <= p - Unit
  <2>1. CASE p \in Blocks /\ q \in Blocks
    BY <1>9, <1>12, <2>1 DEF Inv, BlocksApart
  <2>2. CASE p \in Blocks /\ q = new
    BY <1>3, <1>9, <2>2, BlockFacts
  <2>3. CASE p = new /\ q \in Blocks
    BY <1>3, <1>9, <2>3, BlockFacts
  <2> QED
    BY <1>8, <1>12, <2>1, <2>2, <2>3
<1>13. BlocksApart'
  <2>1. BlocksApart' <=>
          /\ \A p \in Blocks' :
                /\ p % Unit = 0 /\ p - Unit >= StackTop
                /\ CapacityOf(p)' >= Unit /\ CapacityOf(p)' % Unit = 0
                /\ p + CapacityOf(p)' <= brk'
          /\ \A p, q \in Blocks' :
                p # q => p + CapacityOf(p)' <= q - Unit \/ q + CapacityOf(q)' <= p - Unit
    BY DEF BlocksApart
  <2> QED
    BY <1>11, <1>12, <2>1
<1>14. ChainLinked'
  <2>1. \A i \in DOMAIN chain : mem'[chain[i]] = mem[chain[i]]
    <3>1. \A i \in DOMAIN chain : chain[i] \in Blocks
      BY ChainFacts
    <3>2. \A i \in DOMAIN chain : chain[i] \in Address /\ chain[i] # brk
      BY <1>3, <1>6, <3>1
    <3> QED
      BY <1>5, <3>2
  <2>2. live \cap Freed = {} /\ live \cap {new} = {} /\ Freed \cap {new} = {}
    BY <1>8 DEF Inv, ChainLinked, Blocks
  <2> QED
    BY <1>1, <1>7, <2>1, <2>2, ChainKeep
<1>15. FramesKept' /\ FramesNest'
  <2>1. ASSUME NEW a \in StaticEnd .. StackTop - 1
        PROVE  mem'[a] = mem[a]
    <3>1. a \in Address /\ a # brk
      BY <1>3, LayoutAssumption DEF Address
    <3> QED
      BY <1>5, <3>1
  <2> QED
    BY <1>1, <2>1, FramesKeep
<1>16. TypeOK'
  <2>1. mem' \in [Address -> Int] /\ brk' \in StackTop .. Limit
    <3>1. brk' \in StackTop .. Limit
      BY <1>2, <1>3, <1>4
    <3>2. mem \in [Address -> Int] /\ cap \in Int
      BY DEF Inv, TypeOK
    <3> QED
      BY <1>1, <3>1, <3>2
  <2>2. /\ freeList' = freeList /\ cap' = cap /\ prev' = prev /\ cur' = cur /\ call' = call
        /\ ret' = ret /\ asked' = asked /\ live' = live /\ chain' = chain
        /\ sp' = sp /\ frames' = frames /\ panicked' = panicked
        /\ got' \in Address /\ pc' \in {"idle", "search", "got"}
    BY <1>1, <1>4 DEF stack
  <2> QED
    BY <2>1, <2>2 DEF Inv, TypeOK
<1>17. SearchInv' /\ GotInv' /\ BrkAligned'
  <2>1. got' = new /\ CapacityOf(got)' = CapacityOf(new)'
    BY <1>1 DEF CapacityOf
  <2> QED
    BY <1>1, <1>2, <1>9, <1>10, <2>1 DEF SearchInv, GotInv, BrkAligned
<1>18. CallInv'
  <2>1. \A p \in live : CapacityOf(p)' = CapacityOf(p)
    BY <1>9 DEF Blocks
  <2> QED
    BY <1>1, <2>1 DEF Inv, CallInv
<1> QED
  BY <1>13, <1>14, <1>15, <1>16, <1>17, <1>18 DEF Inv

LEMMA ExhaustedKeeps == ASSUME Inv, Exhausted PROVE Inv'
<1>1. /\ pc = "search" /\ pc' = "got" /\ got' = NULL
      /\ UNCHANGED <<cap, call, ret, asked, stack, panicked, heap, prev, cur>>
  BY DEF Exhausted, Searching
<1>2. BlocksApart' /\ BrkAligned' /\ ChainLinked'
  <2>1. Passing' = {}
    BY <1>1 DEF Passing
  <2> QED
    BY <1>1, <2>1, HeapSame
<1>3. FramesKept' /\ FramesNest'
  BY <1>1, StackSame DEF heap
<1>4. SearchInv' /\ CallInv' /\ GotInv'
  BY <1>1 DEF Inv, SearchInv, CallInv, GotInv, CapacityOf, heap
<1>5. TypeOK'
  <2>1. NULL \in Address
    BY BlockFacts DEF Address, NULL
  <2> QED
    BY <1>1, <2>1 DEF Inv, TypeOK, heap, stack
<1> QED
  BY <1>2, <1>3, <1>4, <1>5 DEF Inv

-----------------------------------------------------------------------------
(* What is stored in the payloads of some blocks touches no header, no      *)
(* other block and nothing below the heap.                                  *)
LEMMA StoredInside ==
    ASSUME Inv, NEW Q, Q \subseteq Blocks,
           \A a \in Address : (\A q \in Q : a \notin Payload(q)) => mem'[a] = mem[a]
    PROVE  /\ \A p \in Blocks : mem'[p - Unit] = mem[p - Unit]
           /\ \A p \in Blocks \ Q : \A a \in Payload(p) : mem'[a] = mem[a]
           /\ \A a \in 0 .. StackTop - 1 : mem'[a] = mem[a]
           /\ \A i \in DOMAIN chain : chain[i] \notin Q => mem'[chain[i]] = mem[chain[i]]
<1>1. ASSUME NEW p \in Blocks
      PROVE  mem'[p - Unit] = mem[p - Unit]
  <2>1. p - Unit \in Address /\ \A q \in Q : p - Unit \notin Payload(q)
    BY BlockFacts, PayloadApart
  <2> QED
    BY <2>1
<1>2. ASSUME NEW p \in Blocks \ Q, NEW a \in Payload(p)
      PROVE  mem'[a] = mem[a]
  <2>1. a \in Address /\ \A q \in Q : a \notin Payload(q)
    BY PayloadApart
  <2> QED
    BY <2>1
<1>3. ASSUME NEW a \in 0 .. StackTop - 1
      PROVE  mem'[a] = mem[a]
  <2>1. a \in Address
    BY BlockFacts DEF Address
  <2>2. \A q \in Q : a \notin Payload(q)
    BY BlockFacts, PayloadApart
  <2> QED
    BY <2>1, <2>2
<1>4. ASSUME NEW i \in DOMAIN chain, chain[i] \notin Q
      PROVE  mem'[chain[i]] = mem[chain[i]]
  <2>1. chain[i] \in Blocks
    BY ChainFacts
  <2>2. chain[i] \in Payload(chain[i])
    BY <2>1, BlockFacts DEF Payload
  <2> QED
    BY <1>2, <1>4, <2>1, <2>2
<1> QED
  BY <1>1, <1>2, <1>3, <1>4

(* malloc has returned to its caller. *)
LEMMA GotFacts ==
    ASSUME Inv, NEW fn, Got(fn)
    PROVE  /\ pc = "got" /\ call.fn = fn /\ call.n = call.bytes /\ call.bytes \in Nat
           /\ got \in Address /\ 0 \in Address
           /\ got # NULL => /\ got \in Blocks /\ Passing = {got}
                            /\ got \notin live /\ got \notin Freed
                            /\ call.n <= CapacityOf(got)
           /\ UNCHANGED <<brk, stack, panicked>>
<1>1. pc = "got" /\ call.fn = fn /\ UNCHANGED <<brk, stack, panicked>>
  BY DEF Got
<1>2. call.n = call.bytes /\ call.bytes \in Nat /\ got \in Address
  BY <1>1 DEF Inv, TypeOK, CallInv
<1>3. 0 \in Address
  BY BlockFacts DEF Address
<1>4. ASSUME got # NULL
      PROVE  /\ got \in Blocks /\ Passing = {got}
             /\ got \notin live /\ got \notin Freed
             /\ call.n <= CapacityOf(got)
  <2>1. Passing = {got}
    BY <1>1, <1>4 DEF Passing
  <2>2. got \notin live /\ got \notin Freed
    BY <2>1 DEF Inv, ChainLinked
  <2>3. call.n <= CapacityOf(got)
    BY <1>1, <1>4 DEF Inv, GotInv
  <2> QED
    BY <2>1, <2>2, <2>3 DEF Blocks
<1> QED
  BY <1>1, <1>2, <1>3, <1>4

LEMMA GotKeeps ==
    ASSUME Inv, NEW fn, Got(fn), NEW r \in Address, Returns(r, call.bytes),
           live' \subseteq Address, mem' \in [Address -> Int], freeList' \in Address,
           chain' \in Seq(Address), BlocksApart', BrkAligned', ChainLinked',
           \A a \in 0 .. StackTop - 1 : mem'[a] = mem[a]
    PROVE  Inv'
<1>1. /\ pc' = "idle" /\ ret' = r /\ asked' = call.bytes
      /\ cap' = 0 /\ prev' = 0 /\ cur' = 0 /\ call' = NoCall /\ got' = 0
      /\ UNCHANGED <<brk, stack, panicked>>
  BY DEF Got, Returns
<1>2. FramesKept' /\ FramesNest'
  <2>1. \A a \in StaticEnd .. StackTop - 1 : a \in 0 .. StackTop - 1
    BY LayoutAssumption
  <2> QED
    BY <1>1, <2>1, FramesKeep
<1>3. NoCall \in [fn : {"malloc", "calloc", "realloc"}, n : Nat, bytes : Nat, old : Address]
  BY GotFacts DEF NoCall
<1>4. 0 \in 0 .. IntHalf /\ 0 \in Address /\ call.bytes \in Nat
  BY GotFacts, LayoutAssumption
<1>5. TypeOK'
  BY <1>1, <1>3, <1>4 DEF Inv, TypeOK, stack
<1>6. SearchInv' /\ CallInv' /\ GotInv'
  BY <1>1 DEF SearchInv, CallInv, GotInv
<1> QED
  BY <1>2, <1>5, <1>6 DEF Inv

(* The block malloc found becomes one the program holds. *)
LEMMA TakenKeeps ==
    ASSUME Inv, NEW fn, Got(fn), Returns(got, call.bytes),
           live' = IF got = NULL THEN live ELSE live \cup {got},
           UNCHANGED <<freeList, chain>>, mem' \in [Address -> Int],
           \A a \in Address : (got = NULL \/ a \notin Payload(got)) => mem'[a] = mem[a]
    PROVE  Inv'
<1> DEFINE Q == IF got = NULL THEN {} ELSE {got}
<1>1. pc' = "idle" /\ brk' = brk /\ Passing' = {} /\ Freed' = Freed
  BY DEF Returns, Got, Passing, Freed
<1>2. Q \subseteq Blocks /\ \A a \in Address : (\A q \in Q : a \notin Payload(q)) => mem'[a] = mem[a]
  BY GotFacts
<1>3. /\ \A p \in Blocks : mem'[p - Unit] = mem[p - Unit]
      /\ \A a \in 0 .. StackTop - 1 : mem'[a] = mem[a]
      /\ \A i \in DOMAIN chain : chain[i] \notin Q => mem'[chain[i]] = mem[chain[i]]
  <2> HIDE DEF Q
  <2> QED
    BY <1>2, StoredInside
<1>4. BlocksApart' /\ BrkAligned'
  <2>1. Blocks' \subseteq Blocks
    BY <1>1, GotFacts DEF Blocks
  <2> QED
    BY <1>1, <1>3, <2>1, BlocksKeep
<1>5. ChainLinked'
  <2>1. \A i \in DOMAIN chain : chain[i] \notin Q
    BY GotFacts DEF Freed
  <2>2. live' \cap Freed = {}
    BY GotFacts DEF Inv, ChainLinked
  <2> HIDE DEF Q
  <2> QED
    BY <1>1, <1>3, <2>1, <2>2, ChainKeep
<1>6. live' \subseteq Address /\ freeList' \in Address /\ chain' \in Seq(Address)
  BY GotFacts DEF Inv, TypeOK
<1> QED
  BY <1>3, <1>4, <1>5, <1>6, GotFacts, GotKeeps

LEMMA MallocGotKeeps == ASSUME Inv, MallocGot PROVE Inv'
<1>1. mem \in [Address -> Int]
  BY DEF Inv, TypeOK
<1> QED
  BY <1>1, TakenKeeps DEF MallocGot

LEMMA CallocGotKeeps == ASSUME Inv, CallocGot PROVE Inv'
<1>1. /\ Got("calloc") /\ Returns(got, call.bytes)
      /\ live' = IF got = NULL THEN live ELSE live \cup {got}
      /\ mem' = [a \in Address |->
                    IF got # NULL /\ got <= a /\ a < got + call.n THEN 0 ELSE mem[a]]
      /\ UNCHANGED <<freeList, chain>>
  BY DEF CallocGot
<1>2. mem \in [Address -> Int]
  BY DEF Inv, TypeOK
<1>3. mem' \in [Address -> Int]
  BY <1>1, <1>2
<1>4. ASSUME NEW a \in Address, got = NULL \/ a \notin Payload(got)
      PROVE  mem'[a] = mem[a]
  <2>1. CASE got = NULL
    BY <1>1, <2>1
  <2>2. CASE got # NULL
    <3>1. /\ got \in Nat /\ CapacityOf(got) \in Nat /\ call.n \in Nat /\ call.n <= CapacityOf(got)
          /\ a \in Int
      BY <1>1, <2>2, GotFacts, BlockFacts, LayoutAssumption DEF Address
    <3>2. ~(got <= a /\ a < got + call.n)
      BY <1>4, <2>2, <3>1 DEF Payload
    <3> QED
      BY <1>1, <3>2
  <2> QED
    BY <2>1, <2>2
<1> QED
  BY <1>1, <1>3, <1>4, TakenKeeps

LEMMA ReallocFailsKeeps == ASSUME Inv, ReallocFails PROVE Inv'
<1>1. /\ Got("realloc") /\ got = NULL /\ Returns(NULL, call.bytes)
      /\ UNCHANGED <<mem, freeList, live, chain>>
  BY DEF ReallocFails
<1>2. BlocksApart' /\ BrkAligned' /\ ChainLinked'
  <2>1. Passing' = {} /\ brk' = brk
    BY <1>1 DEF Returns, Passing, Got
  <2> QED
    BY <1>1, <2>1, HeapSame DEF heap
<1>3. live' \subseteq Address /\ mem' \in [Address -> Int] /\ freeList' \in Address
      /\ chain' \in Seq(Address) /\ NULL \in Address
  BY <1>1, GotFacts DEF Inv, TypeOK, NULL
<1> QED
  BY <1>1, <1>2, <1>3, GotKeeps

(* The old block and the new one are two, and the old one fits in the new. *)
LEMMA MovesFacts ==
    ASSUME Inv, ReallocMoves
    PROVE  /\ call.old \in live /\ call.old \in Blocks /\ call.old \in Address
           /\ got \in Blocks /\ got # call.old
           /\ CapacityOf(call.old) \in Nat /\ CapacityOf(got) \in Nat
           /\ CapacityOf(call.old) < call.bytes /\ call.bytes <= CapacityOf(got)
           /\ call.bytes \in Sizes /\ call.bytes \in Nat
           /\ mem'[call.old] = freeList
           /\ \A a \in Address : a \notin Payload(got) /\ a # call.old => mem'[a] = mem[a]
           /\ \A a \in Address :
                got <= a /\ a < got + CapacityOf(call.old) /\ a # call.old =>
                    mem'[a] = mem[a - got + call.old]
           /\ mem' \in [Address -> Int]
<1>1. /\ Got("realloc") /\ got # NULL
      /\ mem' = [Copied(call.old, CapacityOf(call.old)) EXCEPT ![call.old] = freeList]
  BY DEF ReallocMoves
<1>2. /\ got \in Blocks /\ got \notin live /\ call.n = call.bytes /\ call.bytes \in Nat
      /\ call.n <= CapacityOf(got) /\ pc = "got" /\ call.fn = "realloc"
  BY <1>1, GotFacts
<1>3. call.old \in live /\ CapacityOf(call.old) < call.n /\ call.bytes \in Sizes
  BY <1>2 DEF Inv, CallInv
<1>4. call.old \in Blocks /\ got # call.old
  BY <1>2, <1>3 DEF Blocks
<1>5. /\ CapacityOf(call.old) \in Nat /\ CapacityOf(got) \in Nat
      /\ call.old \in Nat /\ got \in Nat /\ call.old \in Address
  BY <1>2, <1>4, BlockFacts
<1> DEFINE size == CapacityOf(call.old)
           copied == [a \in Address |->
                        IF got <= a /\ a < got + size THEN mem[a - got + call.old] ELSE mem[a]]
<1>6. mem' = [copied EXCEPT ![call.old] = freeList]
  BY <1>1 DEF Copied
<1>7. mem \in [Address -> Int] /\ freeList \in Int
  BY LayoutAssumption DEF Inv, TypeOK, Address
<1>8. size \in Nat /\ size < CapacityOf(got)
  BY <1>2, <1>3, <1>5
<1>9. size = CapacityOf(call.old)
  OBVIOUS
<1> HIDE DEF size
<1>10. ASSUME NEW a \in Address, got <= a, a < got + size
       PROVE  a - got + call.old \in Address
  <2>1. a \in Nat /\ Limit \in Nat
    BY LayoutAssumption DEF Address
  <2>2. a - got + call.old \in Payload(call.old)
    BY <1>5, <1>8, <1>9, <1>10, <2>1 DEF Payload
  <2> QED
    BY <1>4, <2>2, PayloadApart
<1>11. copied \in [Address -> Int]
  BY <1>7, <1>10
<1>12. /\ mem'[call.old] = freeList
       /\ \A a \in Address : a # call.old => mem'[a] = copied[a]
       /\ mem' \in [Address -> Int]
  BY <1>5, <1>6, <1>7, <1>11
<1>13. ASSUME NEW a \in Address, a \notin Payload(got), a # call.old
       PROVE  mem'[a] = mem[a]
  <2>1. a \in Nat
    BY LayoutAssumption DEF Address
  <2>2. ~(got <= a /\ a < got + size)
    BY <1>5, <1>8, <1>13, <2>1 DEF Payload
  <2> QED
    BY <1>12, <1>13, <2>2
<1>14. ASSUME NEW a \in Address, got <= a, a < got + size, a # call.old
       PROVE  mem'[a] = mem[a - got + call.old]
  BY <1>12, <1>14
<1> QED
  BY <1>2, <1>3, <1>4, <1>5, <1>9, <1>12, <1>13, <1>14

LEMMA ReallocMovesKeeps == ASSUME Inv, ReallocMoves PROVE Inv'
<1>1. /\ Got("realloc") /\ got # NULL /\ Returns(got, call.bytes)
      /\ freeList' = call.old
      /\ live' = (live \ {call.old}) \cup {got} /\ chain' = <<call.old>> \o chain
  BY DEF ReallocMoves
<1>2. pc' = "idle" /\ brk' = brk /\ Passing' = {}
  BY <1>1 DEF Returns, Got, Passing
<1>3. call.old \in live /\ call.old \in Blocks /\ call.old \in Payload(call.old)
  BY MovesFacts, BlockFacts DEF Payload
<1> PICK old \in live : old = call.old
  BY <1>3
<1> DEFINE Q == {got, old}
<1>4. Q \subseteq Blocks /\ \A a \in Address : (\A q \in Q : a \notin Payload(q)) => mem'[a] = mem[a]
  BY <1>3, MovesFacts
<1>5. /\ \A p \in Blocks : mem'[p - Unit] = mem[p - Unit]
      /\ \A a \in 0 .. StackTop - 1 : mem'[a] = mem[a]
      /\ \A i \in DOMAIN chain : chain[i] \notin Q => mem'[chain[i]] = mem[chain[i]]
  <2> HIDE DEF Q
  <2> QED
    BY <1>4, StoredInside
<1>6. got \notin Freed /\ old \notin Freed /\ got # old /\ Passing = {got}
  BY <1>1, GotFacts, MovesFacts DEF Inv, ChainLinked
<1>7. ChainLinked' /\ Freed' = {old} \cup Freed /\ chain' \in Seq(Address)
  <2>1. \A i \in DOMAIN chain : chain[i] \notin Q
    BY <1>6 DEF Freed
  <2>2. live' \cap ({old} \cup Freed) = {}
    BY <1>1, <1>6 DEF Inv, ChainLinked
  <2>3. mem'[old] = freeList
    BY MovesFacts
  <2> HIDE DEF Q
  <2> QED
    BY <1>1, <1>2, <1>5, <2>1, <2>2, <2>3, PushKeepsChain
<1>8. BlocksApart' /\ BrkAligned'
  <2>1. Blocks' \subseteq Blocks
    BY <1>1, <1>2, <1>3, <1>6, <1>7 DEF Blocks
  <2> QED
    BY <1>2, <1>5, <2>1, BlocksKeep
<1>9. live' \subseteq Address /\ freeList' \in Address /\ mem' \in [Address -> Int] /\ got \in Address
  BY <1>1, MovesFacts, GotFacts DEF Inv, TypeOK
<1> QED
  BY <1>1, <1>5, <1>7, <1>8, <1>9, GotKeeps

LEMMA FillKeeps == ASSUME Inv, NEW p \in live, NEW v \in Data, Fill(p, v) PROVE Inv'
<1>1. /\ pc = "idle" /\ pc' = "idle" /\ ret' = p /\ asked' = 0
      /\ mem' = [a \in Address |-> IF p <= a /\ a < p + CapacityOf(p) THEN v ELSE mem[a]]
      /\ UNCHANGED <<brk, freeList, live, chain, search, stack, panicked>>
  BY DEF Fill, Idle, Returns
<1>2. p \in Blocks /\ p \in Nat /\ CapacityOf(p) \in Nat /\ p \in Address /\ p \notin Freed
  <2>1. p \in Blocks
    BY DEF Blocks
  <2> QED
    BY <2>1, BlockFacts DEF Inv, ChainLinked
<1>3. ASSUME NEW a \in Address, a \notin Payload(p)
      PROVE  mem'[a] = mem[a]
  <2>1. a \in Nat
    BY LayoutAssumption DEF Address
  <2> QED
    BY <1>1, <1>2, <1>3, <2>1 DEF Payload
<1>4. /\ \A q \in Blocks : mem'[q - Unit] = mem[q - Unit]
      /\ \A a \in 0 .. StackTop - 1 : mem'[a] = mem[a]
      /\ \A i \in DOMAIN chain : chain[i] \notin {p} => mem'[chain[i]] = mem[chain[i]]
  <2>1. {p} \subseteq Blocks /\ \A a \in Address : (\A q \in {p} : a \notin Payload(q)) => mem'[a] = mem[a]
    BY <1>2, <1>3
  <2> QED
    BY <2>1, StoredInside
<1>5. Passing' = {} /\ Passing = {} /\ Freed' = Freed
  BY <1>1 DEF Passing, Freed
<1>6. BlocksApart' /\ BrkAligned'
  <2>1. Blocks' \subseteq Blocks
    BY <1>1, <1>5 DEF Blocks
  <2> QED
    BY <1>1, <1>4, <2>1, BlocksKeep
<1>7. ChainLinked'
  <2>1. \A i \in DOMAIN chain : mem'[chain[i]] = mem[chain[i]]
    BY <1>2, <1>4 DEF Freed
  <2>2. live \cap Freed = {}
    BY DEF Inv, ChainLinked
  <2> QED
    BY <1>1, <1>5, <2>1, <2>2, ChainKeep
<1>8. FramesKept' /\ FramesNest'
  <2>1. \A a \in StaticEnd .. StackTop - 1 : a \in 0 .. StackTop - 1
    BY LayoutAssumption
  <2> QED
    BY <1>1, <1>4, <2>1, FramesKeep
<1>9. mem' \in [Address -> Int]
  BY <1>1, ProgramAssumption DEF Inv, TypeOK
<1>10. TypeOK'
  BY <1>1, <1>2, <1>9 DEF Inv, TypeOK, search, stack
<1>11. SearchInv' /\ CallInv' /\ GotInv'
  BY <1>1 DEF SearchInv, CallInv, GotInv
<1> QED
  BY <1>6, <1>7, <1>8, <1>10, <1>11 DEF Inv

-----------------------------------------------------------------------------
(* The stack. *)
Frame == [saved : StaticEnd .. StackTop, fp : StaticEnd .. StackTop, stored : Data \cup {Unset}]

(* A step of the program in its frames leaves the heap to itself. *)
LEMMA OnStackKeeps ==
    ASSUME Inv, OnStack, \A a \in Address : a >= StackTop => mem'[a] = mem[a],
           mem' \in [Address -> Int], sp' \in StaticEnd .. StackTop, frames' \in Seq(Frame),
           panicked' \in BOOLEAN, FramesKept', FramesNest'
    PROVE  Inv'
<1>1. /\ pc = "idle" /\ pc' = "idle"
      /\ UNCHANGED <<brk, freeList, live, chain, search, ret, asked>>
  BY DEF OnStack, Idle
<1>2. Passing' = {} /\ Passing = {} /\ Freed' = Freed
  BY <1>1 DEF Passing, Freed
<1>3. BlocksApart' /\ BrkAligned'
  <2>1. Blocks' = Blocks
    BY <1>1, <1>2 DEF Blocks
  <2>2. \A p \in Blocks : mem'[p - Unit] = mem[p - Unit]
    BY BlockFacts
  <2> QED
    BY <1>1, <2>1, <2>2, BlocksKeep
<1>4. ChainLinked'
  <2>1. \A i \in DOMAIN chain : mem'[chain[i]] = mem[chain[i]]
    <3>1. \A i \in DOMAIN chain : chain[i] \in Blocks
      BY ChainFacts
    <3>2. \A p \in Blocks : p \in Address /\ p >= StackTop
      BY BlockFacts
    <3> QED
      BY <3>1, <3>2
  <2>2. live \cap Freed = {}
    BY DEF Inv, ChainLinked
  <2> QED
    BY <1>1, <1>2, <2>1, <2>2, ChainKeep
<1>5. TypeOK'
  BY <1>1 DEF Inv, TypeOK, search, Frame
<1>6. SearchInv' /\ CallInv' /\ GotInv'
  BY <1>1 DEF SearchInv, CallInv, GotInv
<1> QED
  BY <1>3, <1>4, <1>5, <1>6 DEF Inv

LEMMA Appended ==
    ASSUME NEW S, NEW s \in Seq(S), NEW x \in S
    PROVE  /\ Append(s, x) \in Seq(S) /\ Len(Append(s, x)) = Len(s) + 1
           /\ DOMAIN Append(s, x) = 1 .. Len(s) + 1
           /\ Append(s, x)[Len(s) + 1] = x
           /\ \A i \in 1 .. Len(s) : Append(s, x)[i] = s[i]
  OBVIOUS

LEMMA Shortened ==
    ASSUME NEW S, NEW s \in Seq(S), Len(s) > 0
    PROVE  /\ SubSeq(s, 1, Len(s) - 1) \in Seq(S)
           /\ Len(SubSeq(s, 1, Len(s) - 1)) = Len(s) - 1
           /\ DOMAIN SubSeq(s, 1, Len(s) - 1) = 1 .. Len(s) - 1
           /\ \A i \in 1 .. Len(s) - 1 : SubSeq(s, 1, Len(s) - 1)[i] = s[i]
<1> DEFINE m == Len(s) - 1
           u == SubSeq(s, 1, m)
<1>1. m \in Nat /\ m + 1 = Len(s) /\ \A i \in 1 .. Len(s) : s[i] \in S
  OBVIOUS
<1> HIDE DEF m
<1>2. \A i \in 1 .. m : s[i] \in S
  BY <1>1
<1>3. u \in Seq(S) /\ Len(u) = (IF 1 <= m THEN m - 1 + 1 ELSE 0)
      /\ \A i \in 1 .. m - 1 + 1 : u[i] = s[1 + i - 1]
  BY <1>1, <1>2, SubSeqProperties
<1>4. Len(u) = m /\ \A i \in 1 .. m : u[i] = s[i]
  <2> HIDE DEF u
  <2> QED
    BY <1>1, <1>3
<1>5. DOMAIN u = 1 .. Len(u)
  <2> HIDE DEF u
  <2> QED
    BY <1>3
<1> QED
  BY <1>3, <1>4, <1>5 DEF m

(* Whether a sequence is empty, by its length. *)
LEMMA EmptyByLength == ASSUME NEW S, NEW s \in Seq(S) PROVE s = <<>> <=> Len(s) = 0
  OBVIOUS

LEMMA EnterKeeps == ASSUME Inv, NEW size \in FrameSizes, Enter(size) PROVE Inv'
<1>1. /\ OnStack /\ mem' = mem /\ panicked' = (sp - size < StaticEnd)
      /\ IF panicked' THEN UNCHANGED stack
         ELSE sp' = sp - size /\ frames' = Opened(size)
  BY DEF Enter
<1>2. mem \in [Address -> Int] /\ frames \in Seq(Frame)
  BY DEF Inv, TypeOK, Frame
<1>3. sp \in StaticEnd .. StackTop /\ StaticEnd \in Nat /\ StackTop \in Nat /\ size \in Nat
      /\ Len(frames) \in Nat
  BY FrameFacts, ProgramAssumption
<1>4. CASE sp - size < StaticEnd
  <2>1. sp' = sp /\ frames' = frames /\ panicked' = TRUE
    BY <1>1, <1>4 DEF stack
  <2>2. FramesKept' /\ FramesNest'
    BY <1>1, <2>1, StackSame DEF stack
  <2> QED
    BY <1>1, <1>2, <1>3, <2>1, <2>2, OnStackKeeps
<1>5. CASE ~(sp - size < StaticEnd)
  <2> DEFINE n == Len(frames)
             f == [saved |-> sp, fp |-> sp - size, stored |-> Unset]
  <2>1. sp' = sp - size /\ frames' = Append(frames, f) /\ panicked' = FALSE
    <3>1. panicked' = FALSE
      <4>1. (sp - size < StaticEnd) = FALSE
        BY <1>5, SMT
      <4> QED
        BY <1>1, <4>1, Zenon
    <3>2. sp' = sp - size /\ frames' = Opened(size)
      BY <1>1, <3>1, Zenon
    <3> QED
      BY <3>1, <3>2, Zenon DEF Opened
  <2>2. f \in Frame /\ sp' \in StaticEnd .. StackTop
    BY <1>3, <1>5, <2>1 DEF Frame
  <2>3. f.saved = sp /\ f.fp = sp - size /\ f.stored = Unset
    OBVIOUS
  <2> HIDE DEF f
  <2>4. /\ frames' \in Seq(Frame) /\ Len(frames') = n + 1 /\ DOMAIN frames' = 1 .. n + 1
        /\ frames'[n + 1] = f /\ \A i \in 1 .. n : frames'[i] = frames[i]
    BY <1>2, <2>1, <2>2, Appended
  <2>5. sp = IF n = 0 THEN StackTop ELSE frames[n].fp
    <3>1. frames = <<>> <=> n = 0
      BY <1>2
    <3> QED
      BY <3>1 DEF Inv, FramesKept, Inner
  <2>6. FramesKept'
    <3>1. sp' = Inner' .fp /\ frames' # <<>>
      BY <1>3, <2>1, <2>3, <2>4 DEF Inner
    <3>2. ASSUME NEW i \in DOMAIN frames', frames'[i].stored # Unset
          PROVE  \A a \in frames'[i].fp .. frames'[i].saved - 1 : mem'[a] = frames'[i].stored
      <4>1. i \in 1 .. n /\ frames'[i] = frames[i]
        BY <1>3, <2>3, <2>4, <3>2
      <4> QED
        BY <1>1, <3>2, <4>1, FrameFacts DEF Inv, FramesKept
    <3> QED
      BY <3>1, <3>2 DEF FramesKept
  <2>7. ASSUME NEW i \in DOMAIN frames'
        PROVE  /\ frames'[i].fp <= frames'[i].saved
               /\ frames'[i].saved = IF i = 1 THEN StackTop ELSE frames'[i - 1].fp
    <3>1. CASE i = n + 1
      <4>1. i # 1 => n \in 1 .. n /\ i - 1 = n
        BY <1>3, <3>1
      <4> QED
        BY <1>3, <2>3, <2>4, <2>5, <3>1, <4>1
    <3>2. CASE i # n + 1
      <4>1. i \in 1 .. n /\ (i # 1 => i - 1 \in 1 .. n)
        BY <1>3, <2>4, <3>2
      <4> QED
        BY <2>4, <4>1, FrameFacts DEF Inv, FramesNest
    <3> QED
      BY <3>1, <3>2
  <2>8. ASSUME NEW i \in DOMAIN frames', NEW j \in DOMAIN frames', i < j
        PROVE  frames'[j].saved <= frames'[i].fp
    <3>1. i \in 1 .. n /\ i \in Int /\ j \in Int
      BY <1>3, <2>4, <2>8
    <3>2. CASE j = n + 1
      <4>1. sp <= frames[i].fp
        <5>1. n \in 1 .. n /\ n # 0
          BY <1>3, <3>1
        <5>2. i = n \/ frames[n].saved <= frames[i].fp
          BY <1>3, <3>1, <5>1, FrameFacts DEF Inv, FramesNest
        <5>3. frames[n].fp <= frames[n].saved /\ sp = frames[n].fp
          BY <2>5, <5>1, FrameFacts DEF Inv, FramesNest
        <5>4. frames[n].fp \in Int /\ frames[n].saved \in Int /\ frames[i].fp \in Int
          BY <3>1, <5>1, FrameFacts
        <5> QED
          BY <5>2, <5>3, <5>4
      <4> QED
        BY <2>3, <2>4, <3>1, <3>2, <4>1
    <3>3. CASE j # n + 1
      <4>1. j \in 1 .. n
        BY <1>3, <2>4, <3>3
      <4> QED
        BY <2>4, <2>8, <3>1, <4>1, FrameFacts DEF Inv, FramesNest
    <3> QED
      BY <3>2, <3>3
  <2>9. FramesNest'
    BY <2>7, <2>8 DEF FramesNest
  <2> QED
    BY <1>1, <1>2, <2>1, <2>2, <2>4, <2>6, <2>9, OnStackKeeps
<1> QED
  BY <1>4, <1>5

LEMMA LeaveKeeps == ASSUME Inv, Leave PROVE Inv'
<1> DEFINE n == Len(frames)
<1>1. /\ OnStack /\ frames # <<>> /\ sp' = frames[n].saved
      /\ frames' = SubSeq(frames, 1, n - 1) /\ mem' = mem /\ panicked' = panicked
  BY DEF Leave, Inner
<1>2. mem \in [Address -> Int] /\ frames \in Seq(Frame) /\ panicked \in BOOLEAN
  BY DEF Inv, TypeOK, Frame
<1>3. n \in Nat /\ n \in 1 .. n /\ n \in DOMAIN frames
  BY <1>1, <1>2
<1>4. /\ frames' \in Seq(Frame) /\ Len(frames') = n - 1 /\ DOMAIN frames' = 1 .. n - 1
      /\ \A i \in 1 .. n - 1 : frames'[i] = frames[i]
  <2>1. Len(frames) > 0
    BY <1>3
  <2> QED
    BY <1>1, <1>2, <2>1, Shortened
<1>5. sp' = IF n = 1 THEN StackTop ELSE frames[n - 1].fp
  BY <1>1, <1>3 DEF Inv, FramesNest
<1>6. FramesKept'
  <2>1. sp' = IF frames' = <<>> THEN StackTop ELSE Inner' .fp
    <3>1. frames' = <<>> <=> n = 1
      <4>1. frames' = <<>> <=> Len(frames') = 0
        BY <1>4, EmptyByLength
      <4> HIDE DEF n
      <4> QED
        BY <1>3, <1>4, <4>1
    <3>2. n # 1 => n - 1 \in 1 .. n - 1
      <4>1. n \in Nat /\ n >= 1
        BY <1>3
      <4> HIDE DEF n
      <4> QED
        BY <4>1
    <3>3. n # 1 => Inner' = frames[n - 1]
      BY <1>4, <3>2 DEF Inner
    <3> QED
      BY <1>5, <3>1, <3>3
  <2>2. \A i \in 1 .. n - 1 : i \in DOMAIN frames
    BY <1>3, FrameFacts
  <2> QED
    BY <1>1, <1>4, <2>1, <2>2 DEF Inv, FramesKept
<1>7. FramesNest'
  <2>1. \A i \in 1 .. n - 1 : i \in DOMAIN frames /\ (i # 1 => i - 1 \in 1 .. n - 1)
    BY <1>3, FrameFacts
  <2> QED
    BY <1>4, <2>1 DEF Inv, FramesNest
<1>8. sp' \in StaticEnd .. StackTop
  BY <1>1, <1>3, FrameFacts
<1> QED
  BY <1>1, <1>2, <1>4, <1>6, <1>7, <1>8, OnStackKeeps

LEMMA StoreLocalsKeeps == ASSUME Inv, NEW v \in Data, StoreLocals(v) PROVE Inv'
<1> DEFINE n == Len(frames)
<1>1. /\ OnStack /\ frames # <<>> /\ sp' = sp /\ panicked' = panicked
      /\ mem' = [a \in Address |-> IF frames[n].fp <= a /\ a < frames[n].saved THEN v ELSE mem[a]]
      /\ frames' = [frames EXCEPT ![n].stored = v]
  BY DEF StoreLocals, Inner
<1>2. mem \in [Address -> Int] /\ frames \in Seq(Frame) /\ panicked \in BOOLEAN /\ v \in Int
  BY ProgramAssumption DEF Inv, TypeOK, Frame
<1>3. n \in Nat /\ n \in 1 .. n /\ n \in DOMAIN frames /\ DOMAIN frames = 1 .. n
  BY <1>1, <1>2
<1>4. /\ frames[n].fp \in StaticEnd .. StackTop /\ frames[n].saved \in StaticEnd .. StackTop
      /\ StaticEnd \in Nat /\ StackTop \in Nat /\ sp \in StaticEnd .. StackTop
  BY <1>3, FrameFacts
<1>5. frames[n] \in Frame
  BY <1>2, <1>3
<1>6. frames' = [frames EXCEPT ![n] = [frames[n] EXCEPT !.stored = v]]
  BY <1>1
<1> DEFINE f == [frames[n] EXCEPT !.stored = v]
<1>7. f \in Frame /\ f.fp = frames[n].fp /\ f.saved = frames[n].saved /\ f.stored = v
  BY <1>5 DEF Frame
<1> HIDE DEF f
<1>8. /\ frames' \in Seq(Frame) /\ Len(frames') = n /\ DOMAIN frames' = 1 .. n
      /\ frames'[n] = f /\ \A i \in 1 .. n : i # n => frames'[i] = frames[i]
  BY <1>2, <1>3, <1>6, <1>7 DEF f
<1>9. \A i \in 1 .. n : frames'[i].fp = frames[i].fp /\ frames'[i].saved = frames[i].saved
  BY <1>7, <1>8
<1>10. mem' \in [Address -> Int] /\ \A a \in Address : a >= StackTop => mem'[a] = mem[a]
  <2>1. \A a \in Address : a \in Nat
    BY LayoutAssumption DEF Address
  <2> QED
    BY <1>1, <1>2, <1>4, <2>1
<1>11. FramesKept'
  <2>1. sp' = Inner' .fp /\ frames' # <<>>
    <3>1. sp = frames[n].fp
      BY <1>1 DEF Inv, FramesKept, Inner
    <3>2. frames' # <<>>
      <4>1. frames' = <<>> <=> Len(frames') = 0
        BY <1>8, EmptyByLength
      <4> HIDE DEF n
      <4> QED
        BY <1>3, <1>8, <4>1
    <3> QED
      BY <1>1, <1>7, <1>8, <3>1, <3>2 DEF Inner
  <2>2. ASSUME NEW i \in 1 .. n, frames'[i].stored # Unset,
               NEW a \in frames'[i].fp .. frames'[i].saved - 1
        PROVE  mem'[a] = frames'[i].stored
    <3>1. frames[i].fp \in StaticEnd .. StackTop /\ frames[i].saved \in StaticEnd .. StackTop
      BY <1>3, FrameFacts
    <3>2. a \in frames[i].fp .. frames[i].saved - 1 /\ a \in Address /\ a \in Nat
      BY <1>4, <1>9, <3>1, LayoutAssumption DEF Address
    <3>3. CASE i = n
      BY <1>1, <1>4, <1>7, <1>8, <3>2, <3>3
    <3>4. CASE i # n
      <4>1. i < n
        BY <1>3, <3>4
      <4>2. frames[n].saved <= frames[i].fp
        BY <1>3, <4>1 DEF Inv, FramesNest
      <4>3. mem'[a] = mem[a]
        BY <1>1, <1>4, <3>1, <3>2, <4>2
      <4>4. mem[a] = frames[i].stored
        BY <1>3, <1>8, <2>2, <3>2, <3>4 DEF Inv, FramesKept
      <4> QED
        BY <1>8, <3>4, <4>3, <4>4
    <3> QED
      BY <3>3, <3>4
  <2> QED
    BY <1>8, <2>1, <2>2 DEF FramesKept
<1>12. FramesNest'
  <2>1. \A i \in 1 .. n : i # 1 => i - 1 \in 1 .. n
    BY <1>3
  <2> QED
    BY <1>3, <1>8, <1>9, <2>1 DEF Inv, FramesNest
<1> QED
  BY <1>1, <1>2, <1>4, <1>8, <1>10, <1>11, <1>12, OnStackKeeps

-----------------------------------------------------------------------------
LEMMA InvInitially == Init => Inv
<1> SUFFICES ASSUME Init
             PROVE  Inv
  OBVIOUS
<1>1. /\ Unit \in Nat /\ Unit > 0 /\ StaticEnd \in Nat /\ StackTop \in Nat /\ Limit \in Nat
      /\ Unit <= StaticEnd /\ StaticEnd <= StackTop /\ StackTop <= Limit
      /\ StackTop % Unit = 0 /\ IntHalf \in Nat
  BY UnitAssumption, LayoutAssumption
<1>2. 0 \in Address
  BY <1>1 DEF Address
<1>3. /\ brk = StackTop /\ freeList = 0 /\ cap = 0 /\ prev = 0 /\ cur = 0
      /\ call = [fn |-> "malloc", n |-> 0, bytes |-> 0, old |-> 0] /\ got = 0
      /\ pc = "idle" /\ ret = 0 /\ asked = 0 /\ live = {} /\ chain = <<>>
      /\ sp = StackTop /\ frames = <<>> /\ panicked = FALSE
  BY DEF Init, NoCall, NULL
<1>4. mem \in [Address -> Int]
  <2>1. PICK d \in Data : mem = [a \in Address |-> IF Unit <= a /\ a < StaticEnd THEN d ELSE 0]
    BY DEF Init
  <2> QED
    BY <2>1, ProgramAssumption
<1>5. TypeOK
  <2>1. /\ brk \in StackTop .. Limit /\ cap \in 0 .. IntHalf /\ sp \in StaticEnd .. StackTop
    BY <1>1, <1>3
  <2>2. panicked \in BOOLEAN
    BY <1>3, Zenon
  <2>3. call \in [fn : {"malloc", "calloc", "realloc"}, n : Nat, bytes : Nat, old : Address]
    BY <1>2, <1>3
  <2> QED
    BY <1>2, <1>3, <1>4, <2>1, <2>2, <2>3 DEF TypeOK
<1>6. Freed = {} /\ Passing = {} /\ Blocks = {}
  BY <1>3 DEF Freed, Passing, Blocks
<1>7. BrkAligned /\ BlocksApart /\ ChainLinked
  BY <1>1, <1>3, <1>6 DEF BrkAligned, BlocksApart, ChainLinked
<1>8. FramesKept /\ FramesNest
  BY <1>3 DEF FramesKept, FramesNest
<1>9. SearchInv /\ CallInv /\ GotInv
  BY <1>3 DEF SearchInv, CallInv, GotInv
<1> QED
  BY <1>5, <1>7, <1>8, <1>9 DEF Inv

LEMMA InvInductive == Inv /\ [Next]_vars => Inv'
<1> SUFFICES ASSUME Inv, [Next]_vars
             PROVE  Inv'
  OBVIOUS
<1>1. Sizes \subseteq Nat /\ 0 \in Address
  BY ProgramAssumption, BlockFacts DEF Address
<1>2. ASSUME NEW n \in Sizes, Malloc("malloc", n, n, 0)
      PROVE  Inv'
  BY <1>1, <1>2, MallocKeeps
<1>3. ASSUME NEW count \in Counts, NEW size \in Sizes, Calloc(count, size)
      PROVE  Inv'
  BY <1>3, CallocKeeps
<1>4. ASSUME NEW p \in live, Free(p)
      PROVE  Inv'
  BY <1>4, FreeKeeps
<1>5. CASE FreeNull
  BY <1>1, <1>5, AnswersKeeps DEF FreeNull, NULL
<1>6. ASSUME NEW p \in live \cup {NULL}, NEW n \in Sizes, Realloc(p, n)
      PROVE  Inv'
  BY <1>6, ReallocKeeps
<1>7. ASSUME NEW p \in live, NEW v \in Data, Fill(p, v)
      PROVE  Inv'
  BY <1>7, FillKeeps
<1>8. CASE Allocates
  BY <1>8, NextFreedKeeps, TakeFreedKeeps, ExtendKeeps, ExhaustedKeeps, MallocGotKeeps,
     CallocGotKeeps, ReallocFailsKeeps, ReallocMovesKeeps DEF Allocates
<1>9. ASSUME NEW size \in FrameSizes, Enter(size)
      PROVE  Inv'
  BY <1>9, EnterKeeps
<1>10. CASE Leave
  BY <1>10, LeaveKeeps
<1>11. ASSUME NEW v \in Data, StoreLocals(v)
       PROVE  Inv'
  BY <1>11, StoreLocalsKeeps
<1>12. CASE UNCHANGED vars
  BY <1>12, StutterKeeps
<1> QED
  BY <1>2, <1>3, <1>4, <1>5, <1>6, <1>7, <1>8, <1>9, <1>10, <1>11, <1>12, Zenon DEF Next

LEMMA InvAlways == Spec => []Inv
BY InvInitially, InvInductive, PTL DEF Spec

-----------------------------------------------------------------------------
(* The break never passes the limit, every pointer the allocator follows is *)
(* an index of the array, and the C stack pointer never leaves the stack.   *)
THEOREM TypeCorrect == Spec => []TypeOK
<1>1. Inv => TypeOK
  BY DEF Inv
<1> QED
  BY <1>1, InvAlways, PTL

(* Whatever malloc, calloc, realloc and free are asked in whatever order,   *)
(* blocks and their headers never overlap, and no header is overwritten.    *)
THEOREM BlocksNeverOverlap == Spec => []BlocksApart
<1>1. Inv => BlocksApart
  BY DEF Inv
<1> QED
  BY <1>1, InvAlways, PTL

(* The free list, as memory links it, goes through each freed block once    *)
(* and ends; no block is freed and held at once.                            *)
THEOREM FreeListCorrect == Spec => []ChainLinked
<1>1. Inv => ChainLinked
  BY DEF Inv
<1> QED
  BY <1>1, InvAlways, PTL

(* A function finds its locals as it left them after the calls it made: the *)
(* heap and inner frames never store into an open frame.                    *)
THEOREM LocalsKept == Spec => []FramesKept
<1>1. Inv => FramesKept
  BY DEF Inv
<1> QED
  BY <1>1, InvAlways, PTL

-----------------------------------------------------------------------------
(* What each step that stores in the heap stores into. *)
LEMMA FreeStores ==
    ASSUME Inv, NEW p \in live, Free(p)
    PROVE  \A a \in Address : a \notin Payload(p) => mem'[a] = mem[a]
<1>1. mem' = [mem EXCEPT ![p] = freeList]
  BY DEF Free, Push
<1>2. p \in Blocks
  BY DEF Blocks
<1>3. p \in Payload(p)
  BY <1>2, BlockFacts DEF Payload
<1> QED
  BY <1>1, <1>3 DEF Inv, TypeOK

LEMMA TakeFreedStores ==
    ASSUME Inv, TakeFreed
    PROVE  \A a \in Address : (\A q \in Freed : a \notin Payload(q)) => mem'[a] = mem[a]
<1>1. /\ pc = "search" /\ IF prev = 0 THEN mem' = mem
                           ELSE mem' = [mem EXCEPT ![prev] = mem[cur]]
  BY DEF TakeFreed, Searching
<1>2. CASE prev = 0
  BY <1>1, <1>2
<1>3. CASE prev # 0
  <2>1. PICK i \in Nat : i <= Len(chain) /\ i # 0 /\ prev = chain[i]
    BY <1>1, <1>3, LoopFacts
  <2>2. i \in 1 .. Len(chain)
    BY <2>1, ChainLength
  <2>3. prev \in Freed /\ prev \in Blocks
    BY <2>1, <2>2, ChainFacts
  <2>4. prev \in Payload(prev)
    BY <2>3, BlockFacts DEF Payload
  <2> QED
    BY <1>1, <1>3, <2>3, <2>4 DEF Inv, TypeOK
<1> QED
  BY <1>2, <1>3

LEMMA ExtendStores ==
    ASSUME Inv, Extend
    PROVE  \A a \in Address : a # brk => mem'[a] = mem[a]
BY DEF Extend, Inv, TypeOK

LEMMA CallocGotStores ==
    ASSUME Inv, CallocGot
    PROVE  /\ \A a \in Address : (\A q \in Passing : a \notin Payload(q)) => mem'[a] = mem[a]
           /\ got # NULL => \A a \in Address : got <= a /\ a < got + call.n => mem'[a] = 0
<1>1. /\ Got("calloc")
      /\ mem' = [a \in Address |->
                    IF got # NULL /\ got <= a /\ a < got + call.n THEN 0 ELSE mem[a]]
  BY DEF CallocGot
<1>2. ASSUME NEW a \in Address, \A q \in Passing : a \notin Payload(q)
      PROVE  mem'[a] = mem[a]
  <2>1. CASE got = NULL
    BY <1>1, <2>1
  <2>2. CASE got # NULL
    <3>1. /\ got \in Nat /\ CapacityOf(got) \in Nat /\ call.n \in Nat /\ call.n <= CapacityOf(got)
          /\ a \in Int /\ Passing = {got}
      BY <1>1, <2>2, GotFacts, BlockFacts, LayoutAssumption DEF Address
    <3>2. ~(got <= a /\ a < got + call.n)
      BY <1>2, <3>1 DEF Payload
    <3> QED
      BY <1>1, <3>2
  <2> QED
    BY <2>1, <2>2
<1> QED
  BY <1>1, <1>2

LEMMA FillStores ==
    ASSUME Inv, NEW p \in live, NEW v, Fill(p, v)
    PROVE  /\ \A a \in Address : a \notin Payload(p) => mem'[a] = mem[a]
           /\ \A a \in Payload(p) : mem'[a] = v
<1>1. mem' = [a \in Address |-> IF p <= a /\ a < p + CapacityOf(p) THEN v ELSE mem[a]]
  BY DEF Fill
<1>2. p \in Blocks
  BY DEF Blocks
<1>3. p \in Nat /\ CapacityOf(p) \in Nat
  BY <1>2, BlockFacts
<1>4. \A a \in Address : a \in Nat
  BY LayoutAssumption DEF Address
<1>5. \A a \in Payload(p) : a \in Address /\ p <= a /\ a < p + CapacityOf(p)
  BY <1>2, <1>3, PayloadApart DEF Payload
<1> QED
  BY <1>1, <1>3, <1>4, <1>5 DEF Payload

LEMMA StaticBelow ==
    ASSUME Inv, \A a \in 0 .. StackTop - 1 : mem'[a] = mem[a]
    PROVE  StaticUntouched
<1>1. \A a \in Unit .. StaticEnd - 1 : a \in 0 .. StackTop - 1
  BY UnitAssumption, LayoutAssumption
<1> QED
  BY <1>1 DEF StaticUntouched

LEMMA StoredAbove ==
    ASSUME Inv, NEW Q, Q \subseteq Blocks,
           \A a \in Address : (\A q \in Q : a \notin Payload(q)) => mem'[a] = mem[a]
    PROVE  StaticUntouched
BY StoredInside, StaticBelow

LEMMA StepKeepsStatic == Inv /\ [Next]_vars => StaticUntouched
<1> SUFFICES ASSUME Inv, [Next]_vars
             PROVE  StaticUntouched
  OBVIOUS
<1>1. ASSUME mem' = mem
      PROVE  StaticUntouched
  BY <1>1 DEF StaticUntouched
<1>2. ASSUME NEW fn, NEW n, NEW bytes, NEW old, Malloc(fn, n, bytes, old)
      PROVE  mem' = mem
  BY <1>2 DEF Malloc, Answers, heap
<1>3. ASSUME NEW count, NEW size, Calloc(count, size)
      PROVE  mem' = mem
  BY <1>2, <1>3 DEF Calloc, Answers, heap
<1>4. ASSUME NEW p \in live, Free(p)
      PROVE  StaticUntouched
  <2>1. {p} \subseteq Blocks /\ \A a \in Address : (\A q \in {p} : a \notin Payload(q)) => mem'[a] = mem[a]
    BY <1>4, FreeStores DEF Blocks
  <2> QED
    BY <2>1, StoredAbove
<1>5. ASSUME NEW p \in live \cup {NULL}, NEW n \in Sizes, Realloc(p, n)
      PROVE  StaticUntouched
  BY <1>1, <1>2, <1>4, <1>5 DEF Realloc, Answers, heap
<1>6. ASSUME NEW p \in live, NEW v \in Data, Fill(p, v)
      PROVE  StaticUntouched
  <2>1. {p} \subseteq Blocks /\ \A a \in Address : (\A q \in {p} : a \notin Payload(q)) => mem'[a] = mem[a]
    BY <1>6, FillStores DEF Blocks
  <2> QED
    BY <2>1, StoredAbove
<1>7. CASE Allocates
  <2>1. CASE TakeFreed
    <3>1. Freed \subseteq Blocks
      BY DEF Blocks
    <3> QED
      BY <2>1, <3>1, TakeFreedStores, StoredAbove
  <2>2. CASE Extend
    <3>1. \A a \in 0 .. StackTop - 1 : a \in Address /\ a # brk
      BY BlockFacts DEF Address
    <3> QED
      BY <2>2, <3>1, ExtendStores, StaticBelow
  <2>3. CASE CallocGot
    <3>1. Passing \subseteq Blocks
      BY DEF Blocks
    <3> QED
      BY <2>3, <3>1, CallocGotStores, StoredAbove
  <2>4. CASE ReallocMoves
    <3> DEFINE Q == {got, call.old}
    <3>1. Q \subseteq Blocks
      BY <2>4, MovesFacts
    <3>2. call.old \in Payload(call.old)
      BY <2>4, MovesFacts, BlockFacts DEF Payload
    <3>3. \A a \in Address : (\A q \in Q : a \notin Payload(q)) => mem'[a] = mem[a]
      BY <2>4, <3>2, MovesFacts
    <3> QED
      BY <3>1, <3>3, StoredAbove
  <2>5. CASE NextFreed \/ Exhausted \/ MallocGot \/ ReallocFails
    BY <1>1, <2>5 DEF NextFreed, Exhausted, MallocGot, ReallocFails, heap
  <2> QED
    BY <1>7, <2>1, <2>2, <2>3, <2>4, <2>5 DEF Allocates
<1>8. ASSUME NEW v \in Data, StoreLocals(v)
      PROVE  StaticUntouched
  <2>1. /\ frames # <<>>
        /\ mem' = [a \in Address |-> IF Inner.fp <= a /\ a < Inner.saved THEN v ELSE mem[a]]
    BY <1>8 DEF StoreLocals
  <2>2. Inner.fp \in StaticEnd .. StackTop
    <3>1. Len(frames) \in DOMAIN frames
      BY <2>1 DEF Inv, TypeOK
    <3> QED
      BY <3>1, FrameFacts DEF Inner
  <2>3. ASSUME NEW a \in Unit .. StaticEnd - 1
        PROVE  mem'[a] = mem[a]
    <3>1. a \in Address /\ ~(Inner.fp <= a)
      BY <2>2, UnitAssumption, LayoutAssumption DEF Address
    <3> QED
      BY <2>1, <3>1
  <2> QED
    BY <2>3 DEF StaticUntouched
<1>9. CASE FreeNull \/ Leave \/ \E size \in FrameSizes : Enter(size)
  BY <1>1, <1>9 DEF FreeNull, Answers, heap, Leave, Enter
<1>10. CASE UNCHANGED vars
  BY <1>1, <1>10 DEF vars, heap
<1> QED
  BY <1>1, <1>2, <1>3, <1>4, <1>5, <1>6, <1>7, <1>8, <1>9, <1>10, Zenon DEF Next

(* Nothing the program or the runtime does stores into the static block:    *)
(* c2da_lin_enter panics before the stack grows into it.                    *)
THEOREM StaticNeverStored == Spec => StaticKept
<1>1. Inv /\ [Next]_vars => [StaticUntouched]_vars
  BY StepKeepsStatic
<1> QED
  BY <1>1, InvAlways, PTL DEF Spec, StaticKept

-----------------------------------------------------------------------------
(* The steps of the heap, as steps of CHeap on the blocks that are held.    *)
LEMMA HeldFacts ==
    /\ DOMAIN HeldBlocks = live
    /\ \A p \in live :
        /\ HeldBlocks[p] = [o \in 0 .. CapacityOf(p) - 1 |-> mem[p + o]]
        /\ DOMAIN HeldBlocks[p] = 0 .. CapacityOf(p) - 1
        /\ \A o \in 0 .. CapacityOf(p) - 1 : HeldBlocks[p][o] = mem[p + o]
BY DEF HeldBlocks

LEMMA HeldFactsAfter ==
    /\ DOMAIN HeldBlocks' = live'
    /\ \A p \in live' :
        /\ HeldBlocks'[p] = [o \in 0 .. mem'[p - Unit] - 1 |-> mem'[p + o]]
        /\ DOMAIN HeldBlocks'[p] = 0 .. mem'[p - Unit] - 1
        /\ \A o \in 0 .. mem'[p - Unit] - 1 : HeldBlocks'[p][o] = mem'[p + o]
BY DEF HeldBlocks, CapacityOf

(* A block whose header and payload a step leaves alone. *)
LEMMA SameBlock ==
    ASSUME Inv, NEW p \in live, p \in live', mem'[p - Unit] = mem[p - Unit],
           \A a \in Payload(p) : mem'[a] = mem[a]
    PROVE  HeldBlocks'[p] = HeldBlocks[p]
<1>1. p \in Blocks
  BY DEF Blocks
<1>2. p \in Nat /\ CapacityOf(p) \in Nat
  BY <1>1, BlockFacts
<1>3. \A o \in 0 .. CapacityOf(p) - 1 : p + o \in Payload(p)
  BY <1>2 DEF Payload
<1>4. mem'[p - Unit] = CapacityOf(p)
  BY DEF CapacityOf
<1>5. [o \in 0 .. CapacityOf(p) - 1 |-> mem'[p + o]] = [o \in 0 .. CapacityOf(p) - 1 |-> mem[p + o]]
  BY <1>3
<1>6. HeldBlocks'[p] = [o \in 0 .. CapacityOf(p) - 1 |-> mem'[p + o]]
  BY <1>4, HeldFactsAfter
<1>7. HeldBlocks[p] = [o \in 0 .. CapacityOf(p) - 1 |-> mem[p + o]]
  BY HeldFacts
<1> QED
  BY <1>5, <1>6, <1>7

(* Blocks a step neither frees nor stores into. *)
LEMMA SameBlocks ==
    ASSUME Inv, NEW Q, Q \subseteq Blocks,
           \A a \in Address : (\A q \in Q : a \notin Payload(q)) => mem'[a] = mem[a]
    PROVE  \A p \in (live \cap live') \ Q : HeldBlocks'[p] = HeldBlocks[p]
<1> SUFFICES ASSUME NEW p \in (live \cap live') \ Q
             PROVE  HeldBlocks'[p] = HeldBlocks[p]
  OBVIOUS
<1>1. p \in Blocks \ Q
  BY DEF Blocks
<1>2. mem'[p - Unit] = mem[p - Unit] /\ \A a \in Payload(p) : mem'[a] = mem[a]
  BY <1>1, StoredInside
<1> QED
  BY <1>2, SameBlock

LEMMA HeldSame ==
    ASSUME Inv, live' = live, \A p \in live : HeldBlocks'[p] = HeldBlocks[p]
    PROVE  HeldBlocks' = HeldBlocks
<1>1. HeldBlocks = [p \in live |-> HeldBlocks[p]]
  BY DEF HeldBlocks
<1>2. HeldBlocks' = [p \in live |-> HeldBlocks'[p]]
  BY DEF HeldBlocks
<1> QED
  BY <1>1, <1>2

LEMMA NoFrames == C!InFrames = {}
BY DEF C!InFrames

(* Two runs of cells, one of which ends before the other begins. *)
LEMMA Disjoint ==
    ASSUME NEW p \in Int, NEW q \in Int, NEW c \in Int, NEW d \in Int, NEW u \in Nat,
           p + c <= q - u \/ q + d <= p - u, NEW o \in 0 .. c - 1, NEW k \in 0 .. d - 1
    PROVE  p + o # q + k
OBVIOUS

(* A call that returns a block: the others keep their bytes, and the one it *)
(* returns lies apart from them, because blocks do after the step too.      *)
LEMMA ReturnsBlock ==
    ASSUME Inv, Inv', NEW S, S \subseteq live, NEW size \in Nat,
           ret' \notin S, live' = S \cup {ret'}, size <= mem'[ret' - Unit],
           \A p \in S : HeldBlocks'[p] = HeldBlocks[p]
    PROVE  C!Return(S, size)
<1>1. live' \subseteq Blocks' /\ ret' \in Blocks' /\ ret' \in live'
  BY DEF Blocks
<1>2. \A p \in Blocks' : CapacityOf(p)' = mem'[p - Unit]
  BY DEF CapacityOf
<1>3. ASSUME NEW p \in Blocks'
      PROVE  p \in Nat /\ p > 0 /\ p % Unit = 0 /\ mem'[p - Unit] \in Int
  <2>1. p \in Address /\ p - Unit >= StackTop /\ p % Unit = 0
    <3>1. TypeOK' /\ BlocksApart'
      BY DEF Inv
    <3>2. p \in Address
      BY <3>1 DEF TypeOK, Blocks, Freed, Passing
    <3> QED
      BY <3>1, <3>2 DEF BlocksApart
  <2>2. p \in Nat /\ p - Unit \in Address
    BY <2>1, UnitAssumption, LayoutAssumption DEF Address
  <2>3. mem'[p - Unit] \in Int
    BY <2>2 DEF Inv, TypeOK
  <2> QED
    BY <2>1, <2>2, <2>3, UnitAssumption, LayoutAssumption DEF Address
<1>4. ret' # NULL /\ ret' % Unit = 0
  BY <1>1, <1>3 DEF NULL
<1>5. DOMAIN HeldBlocks' = S \cup {ret'}
  BY HeldFactsAfter
<1>6. 0 .. size - 1 \subseteq DOMAIN HeldBlocks'[ret']
  <2>1. DOMAIN HeldBlocks'[ret'] = 0 .. mem'[ret' - Unit] - 1
    BY <1>1, HeldFactsAfter
  <2>2. mem'[ret' - Unit] \in Int
    BY <1>1, <1>3
  <2> QED
    BY <2>1, <2>2
<1>7. ASSUME NEW p \in S
      PROVE  C!Bytes(p) \cap {ret' + o : o \in DOMAIN HeldBlocks'[ret']} = {}
  <2>1. p \in live' /\ p # ret' /\ p \in Blocks'
    BY <1>1
  <2>2. DOMAIN HeldBlocks[p] = 0 .. mem'[p - Unit] - 1
    BY <2>1, HeldFactsAfter
  <2>3. DOMAIN HeldBlocks'[ret'] = 0 .. mem'[ret' - Unit] - 1
    BY <1>1, HeldFactsAfter
  <2>4. \/ p + mem'[p - Unit] <= ret' - Unit
        \/ ret' + mem'[ret' - Unit] <= p - Unit
    BY <1>1, <1>2, <2>1 DEF Inv, BlocksApart
  <2>5. ASSUME NEW o \in 0 .. mem'[p - Unit] - 1, NEW k \in 0 .. mem'[ret' - Unit] - 1
        PROVE  p + o # ret' + k
    <3>1. /\ p \in Nat /\ ret' \in Nat /\ mem'[p - Unit] \in Int /\ mem'[ret' - Unit] \in Int
          /\ Unit \in Nat /\ Unit > 0
      BY <1>1, <1>3, <2>1, UnitAssumption
    <3>2. PICK c \in Int, d \in Int, q \in Nat :
              c = mem'[p - Unit] /\ d = mem'[ret' - Unit] /\ q = ret'
      BY <3>1
    <3>3. o \in 0 .. c - 1 /\ k \in 0 .. d - 1
      BY <3>2
    <3>4. p + c <= q - Unit \/ q + d <= p - Unit
      BY <2>4, <3>2
    <3>5. p + o # q + k
      BY <3>1, <3>3, <3>4, Disjoint
    <3> QED
      BY <3>2, <3>5
  <2>6. C!Bytes(p) = {p + o : o \in 0 .. mem'[p - Unit] - 1}
    BY <2>2 DEF C!Bytes
  <2> QED
    BY <2>3, <2>5, <2>6
<1> QED
  BY <1>4, <1>5, <1>6, <1>7 DEF C!Return

(* Steps of CHeap's program that this one takes: they change what it sees.  *)
Visible == HeldBlocks' = HeldBlocks /\ ret' = ret /\ asked' = asked

LEMMA NotVisible == ASSUME Visible PROVE UNCHANGED C!vars
BY DEF Visible, C!vars

(* A call that answers NULL at once refuses. *)
LEMMA AnswersRefuses ==
    ASSUME Inv, NEW bytes, Answers(NULL, bytes)
    PROVE  C!Refuse /\ asked' = bytes /\ HeldBlocks' = HeldBlocks
<1>1. mem' = mem /\ live' = live /\ ret' = NULL /\ asked' = bytes
  BY DEF Answers, Returns, heap
<1>2. HeldBlocks' = HeldBlocks
  BY <1>1 DEF HeldBlocks, CapacityOf
<1> QED
  BY <1>1, <1>2 DEF C!Refuse

(* malloc's start shows nothing, unless it answers at once. *)
LEMMA MallocRefuses ==
    ASSUME Inv, NEW fn, NEW n, NEW bytes, NEW old, Malloc(fn, n, bytes, old)
    PROVE  Visible \/ (C!Refuse /\ asked' = bytes /\ HeldBlocks' = HeldBlocks)
<1>1. CASE Answers(NULL, bytes)
  BY <1>1, AnswersRefuses
<1>2. CASE ~Answers(NULL, bytes)
  <2>1. mem' = mem /\ live' = live /\ ret' = ret /\ asked' = asked
    BY <1>2 DEF Malloc, heap
  <2> QED
    BY <2>1 DEF Visible, HeldBlocks, CapacityOf
<1> QED
  BY <1>1, <1>2

LEMMA FreeMaps ==
    ASSUME Inv, NEW p \in live, Free(p)
    PROVE  C!Free(p)
<1>1. live' = live \ {p} /\ ret' = NULL /\ asked' = 0
  BY DEF Free, Returns
<1>2. {p} \subseteq Blocks /\ \A a \in Address : (\A q \in {p} : a \notin Payload(q)) => mem'[a] = mem[a]
  BY FreeStores DEF Blocks
<1>3. \A q \in (live \cap live') \ {p} : HeldBlocks'[q] = HeldBlocks[q]
  BY <1>2, SameBlocks
<1>4. HeldBlocks' = [q \in live \ {p} |-> HeldBlocks[q]]
  <2>1. HeldBlocks' = [q \in live \ {p} |-> HeldBlocks'[q]]
    BY <1>1 DEF HeldBlocks
  <2> QED
    BY <1>1, <1>3, <2>1
<1> QED
  BY <1>1, <1>4, HeldFacts, NoFrames DEF C!Free, C!Release, C!Held

LEMMA ReallocMaps ==
    ASSUME Inv, Inv', NEW p \in live \cup {NULL}, NEW n \in Sizes, Realloc(p, n)
    PROVE  Visible \/ C!Realloc(p, n)
<1>1. p \notin C!InFrames /\ n \in Nat /\ C!Held = live
  BY NoFrames, HeldFacts, ProgramAssumption DEF C!Held
<1>2. ~(NULL \in live)
  <2>1. live \subseteq Blocks
    BY DEF Blocks
  <2> QED
    BY <2>1, BlockFacts DEF NULL
<1>3. CASE p = NULL /\ Malloc("malloc", n, n, 0)
  BY <1>1, <1>3, MallocRefuses DEF C!Realloc, C!Malloc
<1>4. CASE p \in live /\ n = 0 /\ Free(p)
  BY <1>1, <1>4, FreeMaps DEF C!Realloc
<1>5. CASE p \in live /\ n > 0 /\ n <= CapacityOf(p) /\ Answers(p, n)
  <2>1. mem' = mem /\ live' = live /\ ret' = p /\ asked' = n
    BY <1>5 DEF Answers, Returns, heap
  <2>2. HeldBlocks' = HeldBlocks
    BY <2>1 DEF HeldBlocks, CapacityOf
  <2>3. C!Return(live \ {p}, n)
    <3>1. n <= mem'[ret' - Unit]
      BY <1>5, <2>1 DEF CapacityOf
    <3>2. live' = (live \ {p}) \cup {ret'} /\ ret' \notin live \ {p}
      BY <1>5, <2>1
    <3> QED
      BY <1>1, <2>2, <3>1, <3>2, ReturnsBlock
  <2>4. C!Resize(p, n)
    BY <1>1, <2>1, <2>2, <2>3 DEF C!Resize
  <2> QED
    BY <1>1, <1>5, <2>4 DEF C!Realloc
<1>6. CASE p \in live /\ n > CapacityOf(p) /\ Malloc("realloc", n, n, p)
  <2>1. n # 0
    <3>1. p \in Blocks
      BY <1>6 DEF Blocks
    <3> QED
      BY <1>6, <3>1, BlockFacts
  <2> QED
    BY <1>1, <1>6, <2>1, MallocRefuses DEF C!Realloc
<1> QED
  BY <1>3, <1>4, <1>5, <1>6 DEF Realloc

LEMMA FillMaps ==
    ASSUME Inv, NEW p \in live, NEW v \in Data, Fill(p, v)
    PROVE  C!Fill(p, v)
<1>1. live' = live /\ ret' = p /\ asked' = 0
  BY DEF Fill, Returns
<1>2. {p} \subseteq Blocks /\ \A a \in Address : (\A q \in {p} : a \notin Payload(q)) => mem'[a] = mem[a]
  BY FillStores DEF Blocks
<1>3. \A q \in live \ {p} : HeldBlocks'[q] = HeldBlocks[q]
  BY <1>1, <1>2, SameBlocks
<1>4. p \in Blocks /\ p \in Nat /\ CapacityOf(p) \in Nat /\ mem'[p - Unit] = CapacityOf(p)
  <2>1. p \in Blocks
    BY DEF Blocks
  <2>2. mem'[p - Unit] = mem[p - Unit]
    BY <1>2, <2>1, StoredInside
  <2> QED
    BY <2>1, <2>2, BlockFacts DEF CapacityOf
<1>5. HeldBlocks'[p] = [o \in DOMAIN HeldBlocks[p] |-> v]
  <2>1. \A o \in 0 .. CapacityOf(p) - 1 : mem'[p + o] = v
    <3>1. \A o \in 0 .. CapacityOf(p) - 1 : p + o \in Payload(p)
      BY <1>4 DEF Payload
    <3> QED
      BY <3>1, FillStores
  <2>2. HeldBlocks'[p] = [o \in 0 .. CapacityOf(p) - 1 |-> mem'[p + o]]
    BY <1>1, <1>4, HeldFactsAfter
  <2>3. DOMAIN HeldBlocks[p] = 0 .. CapacityOf(p) - 1
    BY HeldFacts
  <2> QED
    BY <2>1, <2>2, <2>3
<1>6. HeldBlocks' = [HeldBlocks EXCEPT ![p] = [o \in DOMAIN HeldBlocks[p] |-> v]]
  <2>1. HeldBlocks' = [q \in live |-> HeldBlocks'[q]] /\ HeldBlocks = [q \in live |-> HeldBlocks[q]]
    BY <1>1 DEF HeldBlocks
  <2> QED
    BY <1>3, <1>5, <2>1
<1> QED
  BY <1>1, <1>6, HeldFacts DEF C!Fill, C!Held

(* malloc's loop and the steps of the stack store into no held block. *)
LEMMA LoopNotVisible ==
    ASSUME Inv, NextFreed \/ TakeFreed \/ Extend \/ Exhausted
    PROVE  Visible
<1>1. live' = live /\ ret' = ret /\ asked' = asked
  BY DEF NextFreed, TakeFreed, Extend, Exhausted, Searching, heap
<1>2. CASE NextFreed \/ Exhausted
  <2>1. mem' = mem
    BY <1>2 DEF NextFreed, Exhausted, heap
  <2> QED
    BY <1>1, <2>1 DEF Visible, HeldBlocks, CapacityOf
<1>3. CASE TakeFreed
  <2>1. Freed \subseteq Blocks /\ live \cap Freed = {}
    BY DEF Blocks, Inv, ChainLinked
  <2>2. \A p \in (live \cap live') \ Freed : HeldBlocks'[p] = HeldBlocks[p]
    BY <1>3, <2>1, TakeFreedStores, SameBlocks
  <2>3. \A p \in live : HeldBlocks'[p] = HeldBlocks[p]
    BY <1>1, <2>1, <2>2
  <2> QED
    BY <1>1, <2>3, HeldSame DEF Visible
<1>4. CASE Extend
  <2>1. ASSUME NEW p \in live
        PROVE  HeldBlocks'[p] = HeldBlocks[p]
    <3>1. p \in Blocks
      BY DEF Blocks
    <3>2. p - Unit \in Address /\ p - Unit # brk
      BY <3>1, BlockFacts
    <3>3. \A a \in Payload(p) : a \in Address /\ a # brk
      BY <3>1, PayloadApart, BlockFacts
    <3> QED
      BY <1>1, <1>4, <3>2, <3>3, ExtendStores, SameBlock
  <2> QED
    BY <1>1, <2>1, HeldSame DEF Visible
<1> QED
  BY <1>2, <1>3, <1>4

LEMMA StackNotVisible ==
    ASSUME Inv, OnStack, \A a \in Address : a >= StackTop => mem'[a] = mem[a]
    PROVE  Visible
<1>1. live' = live /\ ret' = ret /\ asked' = asked
  BY DEF OnStack
<1>2. ASSUME NEW p \in live
      PROVE  HeldBlocks'[p] = HeldBlocks[p]
  <2>1. p \in Blocks
    BY DEF Blocks
  <2>2. mem'[p - Unit] = mem[p - Unit]
    BY <2>1, BlockFacts
  <2>3. \A a \in Payload(p) : mem'[a] = mem[a]
    BY <2>1, PayloadApart
  <2> QED
    BY <1>1, <2>2, <2>3, SameBlock
<1> QED
  BY <1>1, <1>2, HeldSame DEF Visible

LEMMA StoreLocalsNotVisible ==
    ASSUME Inv, NEW v \in Data, StoreLocals(v)
    PROVE  Visible
<1>1. /\ OnStack /\ frames # <<>>
      /\ mem' = [a \in Address |-> IF Inner.fp <= a /\ a < Inner.saved THEN v ELSE mem[a]]
  BY DEF StoreLocals
<1>2. Inner.saved \in StaticEnd .. StackTop
  <2>1. Len(frames) \in DOMAIN frames
    BY <1>1 DEF Inv, TypeOK
  <2> QED
    BY <2>1, FrameFacts DEF Inner
<1>3. \A a \in Address : a >= StackTop => mem'[a] = mem[a]
  <2>1. \A a \in Address : a \in Nat
    BY LayoutAssumption DEF Address
  <2> QED
    BY <1>1, <1>2, <2>1, LayoutAssumption
<1> QED
  BY <1>1, <1>3, StackNotVisible

(* What malloc and calloc got they return; the others are as they were.     *)
LEMMA TakenReturns ==
    ASSUME Inv, Inv', NEW fn, Got(fn), Returns(got, call.bytes), got # NULL,
           live' = live \cup {got},
           \A a \in Address : (\A q \in Passing : a \notin Payload(q)) => mem'[a] = mem[a]
    PROVE  C!Return(live, call.bytes)
<1>1. /\ got \in Blocks /\ Passing = {got} /\ got \notin live /\ call.n = call.bytes
      /\ call.bytes \in Nat /\ call.n <= CapacityOf(got)
  BY GotFacts
<1>2. ret' = got
  BY DEF Returns
<1>3. Passing \subseteq Blocks
  BY DEF Blocks
<1>4. \A p \in (live \cap live') \ Passing : HeldBlocks'[p] = HeldBlocks[p]
  BY <1>3, SameBlocks
<1>5. \A p \in live : HeldBlocks'[p] = HeldBlocks[p]
  BY <1>1, <1>4
<1>6. mem'[got - Unit] = mem[got - Unit]
  BY <1>1, <1>3, StoredInside
<1> QED
  BY <1>1, <1>2, <1>5, <1>6, ReturnsBlock DEF CapacityOf

LEMMA RefusedMaps ==
    ASSUME NEW fn, Got(fn), Returns(got, call.bytes), got = NULL, live' = live, mem' = mem
    PROVE  C!Refuse /\ asked' = call.bytes
<1>1. HeldBlocks' = HeldBlocks
  BY DEF HeldBlocks, CapacityOf
<1> QED
  BY <1>1 DEF C!Refuse, Returns

LEMMA MallocGotMaps ==
    ASSUME Inv, Inv', MallocGot
    PROVE  \E size \in Sizes : C!Malloc(size)
<1>1. /\ Got("malloc") /\ Returns(got, call.bytes) /\ mem' = mem
      /\ live' = IF got = NULL THEN live ELSE live \cup {got}
  BY DEF MallocGot
<1>2. call.bytes \in Sizes /\ asked' = call.bytes
  BY <1>1 DEF Inv, CallInv, Got, Returns
<1>3. CASE got = NULL
  BY <1>1, <1>2, <1>3, RefusedMaps DEF C!Malloc
<1>4. CASE got # NULL
  <2>1. C!Return(live, call.bytes)
    BY <1>1, <1>4, TakenReturns
  <2> QED
    BY <1>2, <2>1, HeldFacts DEF C!Malloc, C!Held
<1> QED
  BY <1>3, <1>4

LEMMA CallocGotMaps ==
    ASSUME Inv, Inv', CallocGot
    PROVE  \E count \in Counts, size \in Sizes : C!Calloc(count, size)
<1>1. /\ Got("calloc") /\ Returns(got, call.bytes)
      /\ live' = IF got = NULL THEN live ELSE live \cup {got}
      /\ mem' = [a \in Address |->
                    IF got # NULL /\ got <= a /\ a < got + call.n THEN 0 ELSE mem[a]]
  BY DEF CallocGot
<1>2. PICK count \in Counts, size \in Sizes : call.bytes = count * size
  BY <1>1 DEF Inv, CallInv, Got
<1>3. asked' = call.bytes /\ ret' = got
  BY <1>1 DEF Returns
<1>4. CASE got = NULL
  <2>1. mem' = mem
    <3>1. mem = [a \in Address |-> mem[a]]
      BY DEF Inv, TypeOK
    <3> QED
      BY <1>1, <1>4, <3>1
  <2>2. C!Refuse
    BY <1>1, <1>4, <2>1, RefusedMaps
  <2> QED
    BY <1>2, <1>3, <2>2 DEF C!Calloc
<1>5. CASE got # NULL
  <2>1. C!Return(live, call.bytes)
    BY <1>1, <1>5, CallocGotStores, TakenReturns
  <2>2. \A o \in 0 .. call.bytes - 1 : HeldBlocks'[ret'][o] = 0
    <3>1. /\ got \in Blocks /\ call.n = call.bytes /\ call.n \in Nat /\ call.n <= CapacityOf(got)
          /\ got \in live'
      BY <1>1, <1>5, GotFacts
    <3>2. mem'[got - Unit] = CapacityOf(got)
      <4>1. Passing \subseteq Blocks
        BY DEF Blocks
      <4> QED
        BY <3>1, <4>1, CallocGotStores, StoredInside DEF CapacityOf
    <3>3. got \in Nat /\ CapacityOf(got) \in Nat
      BY <3>1, BlockFacts
    <3>4. ASSUME NEW o \in 0 .. call.bytes - 1
          PROVE  HeldBlocks'[got][o] = 0
      <4>1. o \in 0 .. CapacityOf(got) - 1
        BY <3>1, <3>3
      <4>2. HeldBlocks'[got][o] = mem'[got + o]
        BY <3>1, <3>2, <4>1, HeldFactsAfter
      <4>3. got + o \in Payload(got)
        BY <3>3, <4>1 DEF Payload
      <4>4. got + o \in Address /\ got <= got + o /\ got + o < got + call.n
        BY <3>1, <3>3, <4>3, PayloadApart
      <4> QED
        BY <1>5, <4>2, <4>4, CallocGotStores
    <3> QED
      BY <1>3, <3>4
  <2>3. C!Zeroed(count * size)
    BY <1>2, <2>1, <2>2, HeldFacts DEF C!Zeroed, C!Held
  <2> QED
    BY <1>2, <1>3, <2>3 DEF C!Calloc
<1> QED
  BY <1>4, <1>5

LEMMA ReallocFailsMaps ==
    ASSUME Inv, ReallocFails
    PROVE  \E p \in Address, size \in Sizes : C!Realloc(p, size)
<1>1. /\ Got("realloc") /\ got = NULL /\ Returns(NULL, call.bytes)
      /\ mem' = mem /\ live' = live
  BY DEF ReallocFails
<1>2. /\ call.bytes \in Sizes /\ call.old \in live /\ CapacityOf(call.old) < call.bytes
      /\ call.old \in Address
  BY <1>1, GotFacts DEF Inv, CallInv, TypeOK
<1>3. call.bytes # 0
  <2>1. call.old \in Blocks
    BY <1>2 DEF Blocks
  <2> QED
    BY <1>2, <2>1, BlockFacts
<1>4. C!Refuse /\ asked' = call.bytes
  BY <1>1, RefusedMaps
<1>5. C!Realloc(call.old, call.bytes)
  BY <1>3, <1>4, NoFrames DEF C!Realloc
<1> QED
  BY <1>2, <1>5

LEMMA ReallocMovesMaps ==
    ASSUME Inv, Inv', ReallocMoves
    PROVE  \E p \in Address, size \in Sizes : C!Realloc(p, size)
<1>1. /\ Got("realloc") /\ got # NULL /\ Returns(got, call.bytes)
      /\ live' = (live \ {call.old}) \cup {got}
  BY DEF ReallocMoves
<1>2. asked' = call.bytes /\ ret' = got /\ got \notin live
  BY <1>1, GotFacts DEF Returns
<1>3. PICK old \in Address : old = call.old
  BY MovesFacts
<1> DEFINE Q == {got, old}
<1>4. /\ old \in live /\ old \in Blocks /\ got \in Blocks /\ got # old
      /\ CapacityOf(old) \in Nat /\ CapacityOf(got) \in Nat /\ CapacityOf(old) < call.bytes
      /\ call.bytes <= CapacityOf(got) /\ call.bytes \in Sizes /\ call.bytes \in Nat
  BY <1>3, MovesFacts
<1>5. Q \subseteq Blocks /\ \A a \in Address : (\A q \in Q : a \notin Payload(q)) => mem'[a] = mem[a]
  <2>1. old \in Payload(old)
    BY <1>4, BlockFacts DEF Payload
  <2> QED
    BY <1>3, <1>4, <2>1, MovesFacts
<1>6. \A p \in live \ {old} : HeldBlocks'[p] = HeldBlocks[p]
  <2>1. \A p \in (live \cap live') \ Q : HeldBlocks'[p] = HeldBlocks[p]
    <3> HIDE DEF Q
    <3> QED
      BY <1>5, SameBlocks
  <2> QED
    BY <1>1, <1>2, <1>3, <2>1
<1>7. mem'[got - Unit] = CapacityOf(got)
  <2>1. mem'[got - Unit] = mem[got - Unit]
    <3> HIDE DEF Q
    <3> QED
      BY <1>4, <1>5, StoredInside
  <2> QED
    BY <2>1 DEF CapacityOf
<1>8. C!Return(live \ {old}, call.bytes)
  <2>1. live' = (live \ {old}) \cup {ret'} /\ ret' \notin live \ {old}
    BY <1>1, <1>2, <1>3
  <2>2. call.bytes <= mem'[ret' - Unit]
    BY <1>2, <1>4, <1>7
  <2> QED
    BY <1>4, <1>6, <2>1, <2>2, ReturnsBlock
<1>9. ASSUME NEW o \in DOMAIN HeldBlocks[old], o < call.bytes
      PROVE  HeldBlocks'[ret'][o] = HeldBlocks[old][o]
  <2>1. o \in 0 .. CapacityOf(old) - 1 /\ HeldBlocks[old][o] = mem[old + o]
    BY <1>4, HeldFacts
  <2>2. o \in 0 .. CapacityOf(got) - 1 /\ got \in Nat /\ old \in Nat
    BY <1>4, <2>1, BlockFacts
  <2>3. HeldBlocks'[got][o] = mem'[got + o]
    BY <1>1, <1>7, <2>2, HeldFactsAfter
  <2>4. got + o \in Payload(got) /\ old \in Payload(old)
    BY <1>4, <2>1, <2>2 DEF Payload
  <2>5. got + o \in Address /\ got + o # old
    BY <1>4, <2>4, PayloadApart
  <2>6. got <= got + o /\ got + o < got + CapacityOf(old)
    BY <1>4, <2>1, <2>2
  <2>7. mem'[got + o] = mem[(got + o) - got + old]
    BY <1>3, <2>5, <2>6, MovesFacts
  <2>8. (got + o) - got + old = old + o
    BY <2>1, <2>2
  <2> QED
    BY <1>2, <2>1, <2>3, <2>7, <2>8
<1>10. C!Resize(old, call.bytes)
  BY <1>2, <1>8, <1>9, HeldFacts DEF C!Resize, C!Held
<1>11. C!Realloc(old, call.bytes)
  BY <1>4, <1>10, NoFrames, HeldFacts DEF C!Realloc, C!Held
<1> QED
  BY <1>4, <1>11

LEMMA StepMaps == Inv /\ Inv' /\ [Next]_vars => [C!Next]_(C!vars)
<1> SUFFICES ASSUME Inv, Inv', [Next]_vars
             PROVE  [C!Next]_(C!vars)
  OBVIOUS
<1>1. ASSUME Visible
      PROVE  [C!Next]_(C!vars)
  BY <1>1, NotVisible
<1>2. /\ NULL \in Address /\ live \subseteq Address /\ NULL \notin C!InFrames
      /\ DOMAIN HeldBlocks = live /\ NULL \notin live
  <2>1. live \subseteq Blocks
    BY DEF Blocks
  <2> QED
    BY <2>1, BlockFacts, NoFrames, HeldFacts DEF NULL, Address
<1>3. ASSUME NEW n \in Sizes, Malloc("malloc", n, n, 0)
      PROVE  [C!Next]_(C!vars)
  <2>1. Visible \/ C!Malloc(n)
    BY <1>3, MallocRefuses DEF C!Malloc
  <2> QED
    BY <1>1, <2>1 DEF C!Next
<1>4. ASSUME NEW count \in Counts, NEW size \in Sizes, Calloc(count, size)
      PROVE  [C!Next]_(C!vars)
  <2>1. Visible \/ (C!Refuse /\ asked' = count * size)
    BY <1>4, MallocRefuses, AnswersRefuses DEF Calloc
  <2>2. Visible \/ C!Calloc(count, size)
    BY <2>1 DEF C!Calloc
  <2> QED
    BY <1>1, <2>2 DEF C!Next
<1>5. ASSUME NEW p \in live, Free(p)
      PROVE  [C!Next]_(C!vars)
  <2>1. C!Free(p) /\ p \in Address
    BY <1>2, <1>5, FreeMaps
  <2> QED
    BY <2>1 DEF C!Next
<1>6. CASE FreeNull
  <2>1. C!Refuse /\ asked' = 0 /\ HeldBlocks' = HeldBlocks
    BY <1>6, AnswersRefuses DEF FreeNull
  <2>2. HeldBlocks = [q \in live \ {NULL} |-> HeldBlocks[q]]
    <3>1. live \ {NULL} = live
      BY <1>2
    <3> QED
      BY <3>1 DEF HeldBlocks
  <2>3. C!Free(NULL)
    BY <1>2, <2>1, <2>2 DEF C!Free, C!Release, C!Held, C!Refuse
  <2> QED
    BY <1>2, <2>3 DEF C!Next
<1>7. ASSUME NEW p \in live \cup {NULL}, NEW n \in Sizes, Realloc(p, n)
      PROVE  [C!Next]_(C!vars)
  <2>1. Visible \/ C!Realloc(p, n)
    BY <1>7, ReallocMaps
  <2>2. p \in Address
    BY <1>2
  <2> QED
    BY <1>1, <2>1, <2>2 DEF C!Next
<1>8. ASSUME NEW p \in live, NEW v \in Data, Fill(p, v)
      PROVE  [C!Next]_(C!vars)
  <2>1. C!Fill(p, v) /\ p \in C!Held
    BY <1>2, <1>8, FillMaps DEF C!Held
  <2> QED
    BY <2>1 DEF C!Next
<1>9. CASE Allocates
  <2>1. CASE NextFreed \/ TakeFreed \/ Extend \/ Exhausted
    BY <1>1, <2>1, LoopNotVisible
  <2>2. CASE MallocGot
    BY <2>2, MallocGotMaps DEF C!Next
  <2>3. CASE CallocGot
    BY <2>3, CallocGotMaps DEF C!Next
  <2>4. CASE ReallocFails \/ ReallocMoves
    BY <2>4, ReallocFailsMaps, ReallocMovesMaps DEF C!Next
  <2> QED
    BY <1>9, <2>1, <2>2, <2>3, <2>4 DEF Allocates
<1>10. CASE Leave \/ \E size \in FrameSizes : Enter(size)
  <2>1. OnStack /\ mem' = mem
    BY <1>10 DEF Leave, Enter
  <2> QED
    BY <1>1, <2>1, StackNotVisible
<1>11. ASSUME NEW v \in Data, StoreLocals(v)
       PROVE  [C!Next]_(C!vars)
  BY <1>1, <1>11, StoreLocalsNotVisible
<1>12. CASE UNCHANGED vars
  <2>1. mem' = mem /\ live' = live /\ ret' = ret /\ asked' = asked
    BY <1>12 DEF vars, heap
  <2>2. Visible
    BY <2>1 DEF Visible, HeldBlocks, CapacityOf
  <2> QED
    BY <1>1, <2>2
<1> QED
  BY <1>3, <1>4, <1>5, <1>6, <1>7, <1>8, <1>9, <1>10, <1>11, <1>12, Zenon DEF Next

LEMMA MapsInitially == Init => C!Init
<1> SUFFICES ASSUME Init
             PROVE  C!Init
  OBVIOUS
<1>1. live = {} /\ ret = NULL /\ asked = 0
  BY DEF Init
<1>2. HeldBlocks = <<>>
  BY <1>1 DEF HeldBlocks
<1> QED
  BY <1>1, <1>2 DEF C!Init

(* The linear heap is a C heap: every call returns what CHeap lets it       *)
(* return.  calloc's storage is zero though it is reused; realloc's block   *)
(* keeps the old bytes, and a realloc that fails the old block; free gives  *)
(* back one block; and no call changes a block it was not asked about, for  *)
(* every order of calls and every array limit.                              *)
THEOREM LinearHeapIsCHeap == Spec => ImplementsCHeap
<1>1. Inv /\ Inv' /\ [Next]_vars => [C!Next]_(C!vars)
  BY StepMaps
<1> QED
  BY <1>1, MapsInitially, InvAlways, PTL DEF Spec, ImplementsCHeap, C!Spec
=============================================================================
