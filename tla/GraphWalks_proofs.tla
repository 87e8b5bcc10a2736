-------------------------- MODULE GraphWalks_proofs --------------------------
(* The two walks that lay out modules are right for every graph.              *)
(* The sorting of a module's objects: while it walks, what an object on the   *)
(* path has looked at is printed, or is the next on the path, or closed a     *)
(* cycle.  While it spreads, the users of every cyclic object that has been   *)
(* taken off the work list are cyclic.  Every cyclic object stands in a       *)
(* circle of objects.                                                         *)
(* The search for components: a unit whose visit has not returned reaches     *)
(* every held unit visited since, and every held unit reaches the unit of a   *)
(* visit that has not returned; what is closed leads to closed units only.    *)
(* So a visit whose low is its own index has above it on the stack a set that *)
(* nothing leaves but to closed units, and whose units reach each other.      *)
EXTENDS GlobalOrder, UnitComponents, WellFoundedInduction, FiniteSetTheorems, TLAPS

LEMMA LeastFacts ==
    ASSUME NEW us \in SUBSET Nat, us # {}
    PROVE  Min(us) \in us /\ \A v \in us : Min(us) <= v
<1> DEFINE R == OpToRel(<, Nat)
<1>1. IsWellFoundedOn(R, Nat)
  BY NatLessThanWellFounded DEF OpToRel
<1>2. PICK x \in us : \A y \in us : ~(<<y, x>> \in R)
  <2> HIDE DEF R
  <2> QED
    BY <1>1, WFMin, Zenon
<1>3. \A y \in us : x <= y
  <2> TAKE y \in us
  <2>1. x \in Nat /\ y \in Nat
    BY <1>2
  <2>2. ~(y < x)
    BY <1>2, <2>1 DEF OpToRel
  <2> QED
    BY <2>1, <2>2
<1> QED
  BY <1>2, <1>3, Zenon DEF Min

LEMMA LowerFacts ==
    ASSUME NEW m \in Nat, NEW n \in Nat, NEW l, l = Min({m, n})
    PROVE  l \in Nat /\ l <= m /\ l <= n /\ (l = m \/ (l = n /\ n < m))
<1>1. l \in {m, n} /\ \A v \in {m, n} : l <= v
  BY LeastFacts
<1> QED
  BY <1>1

LEMMA AppendFacts ==
    ASSUME NEW S, NEW s \in Seq(S), NEW x \in S
    PROVE  /\ Append(s, x) \in Seq(S) /\ Len(s) \in Nat /\ Len(Append(s, x)) = Len(s) + 1
           /\ DOMAIN s = 1 .. Len(s) /\ DOMAIN Append(s, x) = 1 .. Len(s) + 1
           /\ \A i \in 1 .. Len(s) : Append(s, x)[i] = s[i]
           /\ Append(s, x)[Len(s) + 1] = x
OBVIOUS

LEMMA PrefixFacts ==
    ASSUME NEW S, NEW s \in Seq(S), NEW m \in 0 .. Len(s)
    PROVE  /\ SubSeq(s, 1, m) \in Seq(S) /\ Len(SubSeq(s, 1, m)) = m
           /\ DOMAIN s = 1 .. Len(s) /\ DOMAIN SubSeq(s, 1, m) = 1 .. m
           /\ \A i \in 1 .. m : SubSeq(s, 1, m)[i] = s[i]
<1>1. Len(s) \in Nat /\ m \in Nat /\ m <= Len(s)
  OBVIOUS
<1>2. SubSeq(s, 1, m) = [i \in 1 .. m |-> s[i]]
  <2>1. SubSeq(s, 1, m) = [i \in 1 .. (m - 1) + 1 |-> s[(1 + i) - 1]]
    BY <1>1
  <2> QED
    BY <1>1, <2>1
<1>3. SubSeq(s, 1, m) \in [1 .. m -> S]
  <2>1. \A i \in 1 .. m : s[i] \in S
    BY <1>1
  <2> QED
    BY <1>2, <2>1
<1> QED
  BY <1>1, <1>2, <1>3

-----------------------------------------------------------------------------
Entry == [node : Objects, left : SUBSET Objects]

(* The path holds each object that is on it, once. *)
PathInv ==
    /\ \A k \in DOMAIN stack : visit[stack[k].node] = "on stack"
    /\ \A j, k \in DOMAIN stack : stack[j].node = stack[k].node => j = k
    /\ \A o \in Objects : visit[o] = "on stack" => \E k \in DOMAIN stack : stack[k].node = o

LookedInv ==
    \A k \in DOMAIN stack : \A d \in deps[stack[k].node] \ stack[k].left :
        \/ visit[d] = "done"
        \/ stack[k].node \in cyclic
        \/ k < Len(stack) /\ d = stack[k + 1].node

Settled(o) == o \in cyclic \/ \A d \in deps[o] : IsBefore(d, o)

LeftInv ==
    \A o \in Objects : visit[o] = "done" =>
        /\ \E k \in DOMAIN order : order[k] = o
        /\ Settled(o)

WalkInv == PathInv /\ LookedInv /\ LeftInv

SpreadInv ==
    /\ pass = "walk" => work = {}
    /\ pass # "walk" =>
           /\ \A o \in Objects : visit[o] = "done"
           /\ \A d \in cyclic \ work : Users(d) \subseteq cyclic
    /\ pass = "done" => work = {}

OrderInv == OrderTypeOK /\ WalkInv /\ SpreadInv

-----------------------------------------------------------------------------
LEMMA ObjectsAreNumbers ==
    ASSUME OrderTypeOK
    PROVE  /\ Objects \subseteq Nat /\ deps \in [Objects -> SUBSET Objects]
           /\ \A o \in Objects : deps[o] \in SUBSET Objects
BY DEF OrderTypeOK, IsInput, Objects

(* What stands at the end of the list stands behind everything in it. *)
LEMMA AppendedIsLast ==
    ASSUME NEW S, order \in Seq(S), NEW o \in S, order' = Append(order, o)
    PROVE  /\ \A k \in DOMAIN order : k \in DOMAIN order' /\ order'[k] = order[k]
           /\ Len(order) + 1 \in DOMAIN order' /\ order'[Len(order) + 1] = o
           /\ \A p, q : IsBefore(p, q) => IsBefore(p, q)'
           /\ \A p : (\E k \in DOMAIN order : order[k] = p) => IsBefore(p, o)'
<1>1. \A k \in DOMAIN order : k \in DOMAIN order' /\ order'[k] = order[k] /\ k < Len(order) + 1
  OBVIOUS
<1>2. Len(order) + 1 \in DOMAIN order' /\ order'[Len(order) + 1] = o
  OBVIOUS
<1>3. \A p, q : IsBefore(p, q) => IsBefore(p, q)'
  BY <1>1 DEF IsBefore
<1>4. \A p : (\E k \in DOMAIN order : order[k] = p) => IsBefore(p, o)'
  BY <1>1, <1>2 DEF IsBefore
<1> QED
  BY <1>1, <1>2, <1>3, <1>4

LEMMA InvInitially == OrderInit => OrderInv
<1> SUFFICES ASSUME OrderInit PROVE OrderInv
  OBVIOUS
<1>1. /\ IsInput(deps, inits, storage)
      /\ visit = [o \in DOMAIN deps |-> "unvisited"]
      /\ stack = <<>> /\ order = <<>> /\ cyclic = {} /\ work = {} /\ pass = "walk"
  BY DEF OrderInit, Sorting
<1>2. OrderTypeOK
  BY <1>1 DEF OrderTypeOK, Objects
<1>3. WalkInv
  BY <1>1 DEF WalkInv, PathInv, LookedInv, LeftInv, Objects
<1>4. SpreadInv
  BY <1>1 DEF SpreadInv
<1> QED
  BY <1>2, <1>3, <1>4 DEF OrderInv

(* What a step does that leaves the order, the cyclic objects and the input. *)
LEMMA SettledStays ==
    ASSUME NEW o, deps' = deps, cyclic \subseteq cyclic', Settled(o),
           \A p, q : IsBefore(p, q) => IsBefore(p, q)'
    PROVE  Settled(o)'
BY DEF Settled

LEMMA LeftStays ==
    ASSUME LeftInv, deps' = deps, order' = order, cyclic \subseteq cyclic',
           \A o \in Objects : visit'[o] = "done" => visit[o] = "done"
    PROVE  LeftInv'
<1> SUFFICES ASSUME NEW o \in Objects, visit'[o] = "done"
             PROVE  (\E k \in DOMAIN order' : order'[k] = o) /\ Settled(o)'
  BY DEF LeftInv, Objects
<1>1. (\E k \in DOMAIN order : order[k] = o) /\ Settled(o)
  BY DEF LeftInv
<1>2. \A p, q : IsBefore(p, q) => IsBefore(p, q)'
  BY DEF IsBefore
<1> QED
  BY <1>1, <1>2, SettledStays

-----------------------------------------------------------------------------
(* The path grows: by the first unvisited object, or by what its end names. *)
LEMMA EnterKeeps == ASSUME OrderInv, NEW root \in Objects, Enter(root) PROVE OrderInv'
<1>1. /\ pass = "walk" /\ stack = <<>> /\ visit[root] = "unvisited"
      /\ visit' = [visit EXCEPT ![root] = "on stack"]
      /\ stack' = Onto(<<>>, root)
      /\ deps' = deps /\ inits' = inits /\ storage' = storage /\ order' = order
      /\ cyclic' = cyclic /\ work' = work /\ pass' = pass
  BY DEF Enter
<1>2. Objects' = Objects
  BY <1>1 DEF Objects
<1>3. OrderTypeOK /\ WalkInv /\ SpreadInv /\ deps[root] \in SUBSET Objects
  BY ObjectsAreNumbers DEF OrderInv
<1>4. /\ visit' \in [Objects -> {"unvisited", "on stack", "done"}]
      /\ \A o \in Objects : visit'[o] = IF o = root THEN "on stack" ELSE visit[o]
  BY <1>1, <1>3 DEF OrderTypeOK
<1> DEFINE top == [node |-> root, left |-> deps[root]]
<1>5. top \in Entry
  BY <1>3 DEF Entry
<1>6. top.node = root /\ top.left = deps[root]
  OBVIOUS
<1> HIDE DEF top
<1>7. stack' = <<top>>
  <2>1. stack' = Append(<<>>, top)
    BY <1>1 DEF Onto, top
  <2> QED
    BY <2>1
<1>8. stack' \in Seq(Entry) /\ Len(stack') = 1 /\ DOMAIN stack' = {1} /\ stack'[1] = top
  BY <1>5, <1>7
<1>9. OrderTypeOK'
  BY <1>1, <1>2, <1>3, <1>4, <1>8 DEF OrderTypeOK, Entry, IsInput
<1>10. \A o \in Objects : visit[o] # "on stack"
  <2>1. Len(stack) = 0 /\ stack \in Seq(Entry)
    BY <1>1, <1>3 DEF OrderTypeOK, Entry
  <2>2. DOMAIN stack = {}
    BY <2>1
  <2> QED
    BY <2>2, <1>3 DEF WalkInv, PathInv
<1>11. PathInv'
  BY <1>2, <1>4, <1>6, <1>8, <1>10 DEF PathInv
<1>12. LookedInv'
  BY <1>1, <1>6, <1>8 DEF LookedInv
<1>13. LeftInv'
  BY <1>1, <1>3, <1>4, LeftStays DEF WalkInv
<1>14. SpreadInv'
  BY <1>1, <1>3 DEF SpreadInv
<1> QED
  BY <1>9, <1>11, <1>12, <1>13, <1>14 DEF OrderInv, WalkInv

(* The end of the path. *)
LEMMA TopFacts ==
    ASSUME OrderInv, stack # <<>>
    PROVE  /\ stack \in Seq(Entry) /\ Len(stack) \in Nat /\ Len(stack) >= 1
           /\ DOMAIN stack = 1 .. Len(stack) /\ Top = stack[Len(stack)]
           /\ Top \in Entry /\ Top.node \in Objects /\ Top.left \subseteq Objects
           /\ \A k \in DOMAIN stack : stack[k] \in Entry /\ stack[k].node \in Objects
<1>1. stack \in Seq(Entry)
  BY DEF OrderInv, OrderTypeOK, Entry
<1>2. Len(stack) \in Nat /\ Len(stack) >= 1 /\ DOMAIN stack = 1 .. Len(stack)
  BY <1>1
<1>3. \A k \in DOMAIN stack : stack[k] \in Entry
  BY <1>1
<1>4. \A k \in DOMAIN stack : stack[k].node \in Objects /\ stack[k].left \subseteq Objects
  BY <1>3 DEF Entry
<1>5. Len(stack) \in DOMAIN stack
  BY <1>2
<1> QED
  BY <1>1, <1>2, <1>3, <1>4, <1>5 DEF Top

(* A name is looked at: the rest of the path stays as it is. *)
LEMMA LookedFacts ==
    ASSUME OrderInv, stack # <<>>, NEW next \in Top.left
    PROVE  /\ next \in Objects
           /\ Looked(next) \in Seq(Entry) /\ Len(Looked(next)) = Len(stack)
           /\ DOMAIN Looked(next) = DOMAIN stack
           /\ \A k \in DOMAIN stack :
                  /\ Looked(next)[k].node = stack[k].node
                  /\ k < Len(stack) => Looked(next)[k] = stack[k]
           /\ Looked(next)[Len(stack)].left = Top.left \ {next}
<1>1. /\ stack \in Seq(Entry) /\ Len(stack) \in Nat /\ Len(stack) >= 1
      /\ DOMAIN stack = 1 .. Len(stack) /\ Top = stack[Len(stack)]
      /\ Top \in Entry /\ Top.node \in Objects /\ Top.left \subseteq Objects
      /\ \A k \in DOMAIN stack : stack[k] \in Entry
  BY TopFacts
<1>2. Looked(next) = [stack EXCEPT ![Len(stack)] = [Top EXCEPT !.left = @ \ {next}]]
  BY <1>1 DEF Looked
<1>3. /\ [Top EXCEPT !.left = @ \ {next}] \in Entry
      /\ [Top EXCEPT !.left = @ \ {next}].node = Top.node
      /\ [Top EXCEPT !.left = @ \ {next}].left = Top.left \ {next}
  BY <1>1 DEF Entry
<1>4. Looked(next) \in Seq(Entry) /\ Len(Looked(next)) = Len(stack)
  BY <1>1, <1>2, <1>3
<1>5. \A k \in DOMAIN stack :
          Looked(next)[k] = IF k = Len(stack) THEN [Top EXCEPT !.left = @ \ {next}] ELSE stack[k]
  BY <1>1, <1>2
<1> QED
  BY <1>1, <1>2, <1>3, <1>4, <1>5

-----------------------------------------------------------------------------
LEMMA DescendKeeps == ASSUME OrderInv, NEW next \in Objects, Descend(next) PROVE OrderInv'
<1>1. /\ pass = "walk" /\ stack # <<>> /\ next \in Top.left /\ visit[next] = "unvisited"
      /\ visit' = [visit EXCEPT ![next] = "on stack"]
      /\ stack' = Onto(Looked(next), next)
      /\ deps' = deps /\ inits' = inits /\ storage' = storage /\ order' = order
      /\ cyclic' = cyclic /\ work' = work /\ pass' = pass
  BY DEF Descend
<1>2. Objects' = Objects
  BY <1>1 DEF Objects
<1>3. OrderTypeOK /\ WalkInv /\ SpreadInv /\ deps[next] \in SUBSET Objects
  BY ObjectsAreNumbers DEF OrderInv
<1>4. /\ visit' \in [Objects -> {"unvisited", "on stack", "done"}]
      /\ \A o \in Objects : visit'[o] = IF o = next THEN "on stack" ELSE visit[o]
  BY <1>1, <1>3 DEF OrderTypeOK
<1> DEFINE top == [node |-> next, left |-> deps[next]]
           rest == Looked(next)
<1>5. top \in Entry /\ top.node = next /\ top.left = deps[next]
  BY <1>3 DEF Entry
<1>6. stack' = Append(rest, top)
  BY <1>1 DEF Onto
<1>7. /\ Len(stack) \in Nat /\ Len(stack) >= 1 /\ DOMAIN stack = 1 .. Len(stack)
      /\ \A k \in DOMAIN stack : stack[k].node \in Objects
  BY <1>1, TopFacts
<1>8. /\ rest \in Seq(Entry) /\ Len(rest) = Len(stack) /\ DOMAIN rest = DOMAIN stack
      /\ \A k \in DOMAIN stack :
             /\ rest[k].node = stack[k].node
             /\ k < Len(stack) => rest[k] = stack[k]
      /\ rest[Len(stack)].left = Top.left \ {next}
  BY <1>1, LookedFacts
<1> HIDE DEF top, rest
<1>9. /\ stack' \in Seq(Entry) /\ Len(stack') = Len(stack) + 1
      /\ DOMAIN stack' = 1 .. Len(stack) + 1
      /\ stack'[Len(stack) + 1] = top
      /\ \A k \in DOMAIN stack : stack'[k] = rest[k]
  BY <1>5, <1>6, <1>7, <1>8
<1>10. /\ \A k \in DOMAIN stack : stack'[k].node = stack[k].node
       /\ stack'[Len(stack) + 1].node = next
       /\ \A k \in DOMAIN stack' : k \in DOMAIN stack \/ k = Len(stack) + 1
       /\ Len(stack) + 1 \in DOMAIN stack' /\ \A k \in DOMAIN stack : k \in DOMAIN stack'
  BY <1>5, <1>7, <1>8, <1>9
<1>11. OrderTypeOK'
  BY <1>1, <1>2, <1>3, <1>4, <1>9 DEF OrderTypeOK, Entry, IsInput
<1>12. \A k \in DOMAIN stack : stack[k].node # next
  BY <1>1, <1>3 DEF WalkInv, PathInv
<1>13. PathInv'
  <2>1. (\A k \in DOMAIN stack : visit[stack[k].node] = "on stack")'
    <3> SUFFICES ASSUME NEW k \in DOMAIN stack' PROVE visit'[stack'[k].node] = "on stack"
      OBVIOUS
    <3>1. CASE k \in DOMAIN stack
      <4>1. visit[stack[k].node] = "on stack" /\ stack[k].node \in Objects
        BY <3>1, <1>3, <1>7 DEF WalkInv, PathInv
      <4> QED
        BY <4>1, <3>1, <1>4, <1>10
    <3>2. CASE k = Len(stack) + 1
      BY <3>2, <1>4, <1>10
    <3> QED
      BY <3>1, <3>2, <1>10
  <2>2. (\A j, k \in DOMAIN stack : stack[j].node = stack[k].node => j = k)'
    <3>1. \A j, k \in DOMAIN stack : stack[j].node = stack[k].node => j = k
      BY <1>3 DEF WalkInv, PathInv
    <3> QED
      BY <3>1, <1>10, <1>12
  <2>3. (\A o \in Objects : visit[o] = "on stack" => \E k \in DOMAIN stack : stack[k].node = o)'
    <3> SUFFICES ASSUME NEW o \in Objects, visit'[o] = "on stack"
                 PROVE  \E k \in DOMAIN stack' : stack'[k].node = o
      BY <1>2
    <3>1. CASE o = next
      BY <3>1, <1>10
    <3>2. CASE o # next
      <4>1. PICK k \in DOMAIN stack : stack[k].node = o
        BY <3>2, <1>3, <1>4 DEF WalkInv, PathInv
      <4> QED
        BY <4>1, <1>10
    <3> QED
      BY <3>1, <3>2
  <2> QED
    BY <2>1, <2>2, <2>3 DEF PathInv
<1>14. LookedInv'
  <2> SUFFICES ASSUME NEW k \in DOMAIN stack', NEW d \in deps[stack'[k].node] \ stack'[k].left
               PROVE  \/ visit'[d] = "done"
                      \/ stack'[k].node \in cyclic
                      \/ k < Len(stack') /\ d = stack'[k + 1].node
    BY <1>1 DEF LookedInv
  <2>1. CASE k = Len(stack) + 1
    BY <2>1, <1>5, <1>9
  <2>2. CASE k \in DOMAIN stack /\ k < Len(stack)
    <3>1. stack'[k] = stack[k] /\ k + 1 \in DOMAIN stack
      BY <2>2, <1>7, <1>8, <1>9
    <3>2. d \in deps[stack[k].node] \ stack[k].left
      BY <3>1
    <3>3. \/ visit[d] = "done"
          \/ stack[k].node \in cyclic
          \/ d = stack[k + 1].node
      BY <3>2, <2>2, <1>3 DEF WalkInv, LookedInv
    <3>4. d \in Objects
      BY <3>2, <2>2, <1>3, <1>7, ObjectsAreNumbers
    <3>5. visit[d] = "done" => visit'[d] = "done"
      BY <3>4, <1>1, <1>4
    <3>6. stack'[k + 1].node = stack[k + 1].node /\ k < Len(stack')
      BY <3>1, <1>10, <2>2, <1>9, <1>7
    <3> QED
      BY <3>1, <3>3, <3>5, <3>6
  <2>3. CASE k = Len(stack)
    <3>1. stack'[k].left = Top.left \ {next} /\ stack'[k].node = stack[k].node /\ k \in DOMAIN stack
      BY <2>3, <1>7, <1>8, <1>9
    <3>2. CASE d = next
      BY <3>2, <2>3, <1>7, <1>9, <1>10
    <3>3. CASE d # next
      <4>1. d \in deps[stack[k].node] \ stack[k].left
        BY <3>1, <3>3, <2>3 DEF Top
      <4>2. \/ visit[d] = "done"
            \/ stack[k].node \in cyclic
            \/ k < Len(stack) /\ d = stack[k + 1].node
        BY <4>1, <3>1, <1>3 DEF WalkInv, LookedInv
      <4>3. visit[d] = "done" => visit'[d] = "done"
        BY <4>1, <3>1, <1>1, <1>3, <1>4, <1>7, ObjectsAreNumbers
      <4> QED
        BY <4>2, <4>3, <3>1, <2>3, <1>7
    <3> QED
      BY <3>2, <3>3
  <2> QED
    BY <2>1, <2>2, <2>3, <1>7, <1>10
<1>15. LeftInv'
  BY <1>1, <1>3, <1>4, LeftStays DEF WalkInv
<1>16. SpreadInv'
  BY <1>1, <1>3 DEF SpreadInv
<1> QED
  BY <1>11, <1>13, <1>14, <1>15, <1>16 DEF OrderInv, WalkInv

(* The end of the path names what is on the path, or what is done. *)
LEMMA LookKeeps ==
    ASSUME OrderInv, NEW next \in Objects, pass = "walk", stack # <<>>, next \in Top.left,
           stack' = Looked(next), cyclic \subseteq cyclic', cyclic' \subseteq Objects,
           Top.node \in cyclic' \/ visit[next] = "done",
           UNCHANGED <<deps, inits, storage, visit, order, work, pass>>
    PROVE  OrderInv'
<1>1. /\ deps' = deps /\ inits' = inits /\ storage' = storage /\ visit' = visit
      /\ order' = order /\ work' = work /\ pass' = pass /\ Objects' = Objects
  BY DEF Objects
<1>2. OrderTypeOK /\ WalkInv /\ SpreadInv
  BY DEF OrderInv
<1>3. /\ Len(stack) \in Nat /\ Len(stack) >= 1 /\ DOMAIN stack = 1 .. Len(stack)
      /\ Top = stack[Len(stack)]
  BY TopFacts
<1>4. /\ stack' \in Seq(Entry) /\ Len(stack') = Len(stack) /\ DOMAIN stack' = DOMAIN stack
      /\ \A k \in DOMAIN stack :
             /\ stack'[k].node = stack[k].node
             /\ k < Len(stack) => stack'[k] = stack[k]
      /\ stack'[Len(stack)].left = Top.left \ {next}
  BY LookedFacts
<1>5. OrderTypeOK'
  BY <1>1, <1>2, <1>4 DEF OrderTypeOK, Entry, IsInput
<1>6. PathInv'
  <2>1. (\A k \in DOMAIN stack : visit[stack[k].node] = "on stack")'
    BY <1>1, <1>2, <1>4 DEF WalkInv, PathInv
  <2>2. (\A j, k \in DOMAIN stack : stack[j].node = stack[k].node => j = k)'
    <3>1. \A j, k \in DOMAIN stack : stack[j].node = stack[k].node => j = k
      BY <1>2 DEF WalkInv, PathInv
    <3> QED
      BY <3>1, <1>4
  <2>3. (\A o \in Objects : visit[o] = "on stack" => \E k \in DOMAIN stack : stack[k].node = o)'
    <3> SUFFICES ASSUME NEW o \in Objects, visit[o] = "on stack"
                 PROVE  \E k \in DOMAIN stack' : stack'[k].node = o
      BY <1>1
    <3>1. PICK k \in DOMAIN stack : stack[k].node = o
      BY <1>2 DEF WalkInv, PathInv
    <3> QED
      BY <3>1, <1>4
  <2> QED
    BY <2>1, <2>2, <2>3 DEF PathInv
<1>7. LookedInv'
  <2> SUFFICES ASSUME NEW k \in DOMAIN stack, NEW d \in deps[stack[k].node] \ stack'[k].left
               PROVE  \/ visit[d] = "done"
                      \/ stack[k].node \in cyclic'
                      \/ k < Len(stack) /\ d = stack'[k + 1].node
    BY <1>1, <1>4 DEF LookedInv
  <2>1. CASE d \notin stack[k].left
    <3>1. \/ visit[d] = "done"
          \/ stack[k].node \in cyclic
          \/ k < Len(stack) /\ d = stack[k + 1].node
      BY <2>1, <1>2 DEF WalkInv, LookedInv
    <3>2. k < Len(stack) => stack'[k + 1].node = stack[k + 1].node
      <4>1. k < Len(stack) => k + 1 \in DOMAIN stack
        BY <1>3
      <4> QED
        BY <4>1, <1>4
    <3> QED
      BY <3>1, <3>2
  <2>2. CASE d \in stack[k].left
    <3>1. k = Len(stack) /\ d = next
      BY <2>2, <1>3, <1>4
    <3> QED
      BY <3>1, <1>3
  <2> QED
    BY <2>1, <2>2
<1>8. LeftInv'
  BY <1>1, <1>2, LeftStays DEF WalkInv
<1>9. SpreadInv'
  BY <1>1, <1>2 DEF SpreadInv
<1> QED
  BY <1>5, <1>6, <1>7, <1>8, <1>9 DEF OrderInv, WalkInv

LEMMA CloseKeeps == ASSUME OrderInv, NEW next \in Objects, Close(next) PROVE OrderInv'
<1>1. stack # <<>> /\ cyclic' = cyclic \cup {Top.node}
  BY DEF Close
<1>2. Top.node \in Objects /\ cyclic \subseteq Objects
  BY <1>1, TopFacts DEF OrderInv, OrderTypeOK
<1> QED
  BY <1>1, <1>2, LookKeeps DEF Close

LEMMA SkipKeeps == ASSUME OrderInv, NEW next \in Objects, Skip(next) PROVE OrderInv'
<1>1. cyclic' = cyclic /\ cyclic \subseteq Objects
  BY DEF Skip, OrderInv, OrderTypeOK
<1> QED
  BY <1>1, LookKeeps DEF Skip

-----------------------------------------------------------------------------
LEMMA BelowTheLast ==
    ASSUME NEW n \in Nat, NEW k \in 1 .. n, k # n PROVE k \in 1 .. n - 1
OBVIOUS

(* The object at the end of the path is done: what it reaches is on no path   *)
(* above it, so it is done already, unless the object is on a cycle.          *)
LEMMA LeaveKeeps == ASSUME OrderInv, Leave PROVE OrderInv'
<1>0. PICK gone : gone = Top.node
  OBVIOUS
<1>1. /\ pass = "walk" /\ stack # <<>> /\ Top.left = {}
      /\ visit' = [visit EXCEPT ![gone] = "done"]
      /\ order' = Append(order, gone)
      /\ stack' = SubSeq(stack, 1, Len(stack) - 1)
      /\ deps' = deps /\ inits' = inits /\ storage' = storage
      /\ cyclic' = cyclic /\ work' = work /\ pass' = pass
  BY <1>0 DEF Leave
<1>2. Objects' = Objects
  BY <1>1 DEF Objects
<1>3. OrderTypeOK /\ WalkInv /\ SpreadInv
  BY DEF OrderInv
<1>4. /\ stack \in Seq(Entry) /\ Len(stack) \in Nat /\ Len(stack) >= 1
      /\ DOMAIN stack = 1 .. Len(stack) /\ Top = stack[Len(stack)] /\ gone = stack[Len(stack)].node
      /\ gone \in Objects
      /\ \A k \in DOMAIN stack : stack[k].node \in Objects
  BY <1>0, <1>1, TopFacts
<1>5. /\ visit' \in [Objects -> {"unvisited", "on stack", "done"}]
      /\ \A o \in Objects : visit'[o] = IF o = gone THEN "done" ELSE visit[o]
  BY <1>1, <1>3, <1>4 DEF OrderTypeOK
<1>6. /\ stack' \in Seq(Entry) /\ Len(stack') = Len(stack) - 1
      /\ DOMAIN stack' = 1 .. Len(stack) - 1
      /\ \A k \in 1 .. Len(stack) - 1 : k \in DOMAIN stack /\ stack'[k] = stack[k]
  BY <1>1, <1>4
<1>7. order \in Seq(Objects) /\ order' \in Seq(Objects)
  <2>1. order \in Seq(Objects)
    BY <1>3 DEF OrderTypeOK
  <2>2. Append(order, gone) \in Seq(Objects)
    BY <2>1, <1>4
  <2> QED
    BY <2>1, <2>2, <1>1
<1>8. /\ \A k \in DOMAIN order : k \in DOMAIN order' /\ order'[k] = order[k]
      /\ Len(order) + 1 \in DOMAIN order' /\ order'[Len(order) + 1] = gone
      /\ \A p, q : IsBefore(p, q) => IsBefore(p, q)'
      /\ \A p : (\E k \in DOMAIN order : order[k] = p) => IsBefore(p, gone)'
  BY <1>1, <1>4, <1>7, AppendedIsLast
<1>9. OrderTypeOK'
  BY <1>1, <1>2, <1>3, <1>5, <1>6, <1>7 DEF OrderTypeOK, Entry, IsInput
<1>10. PathInv'
  <2>1. (\A k \in DOMAIN stack : visit[stack[k].node] = "on stack")'
    <3> SUFFICES ASSUME NEW k \in DOMAIN stack' PROVE visit'[stack'[k].node] = "on stack"
      OBVIOUS
    <3>1. k \in DOMAIN stack /\ stack'[k] = stack[k] /\ k # Len(stack) /\ Len(stack) \in DOMAIN stack
      BY <1>4, <1>6
    <3>2. visit[stack[k].node] = "on stack" /\ stack[k].node # gone
      BY <3>1, <1>3, <1>4 DEF WalkInv, PathInv
    <3> QED
      BY <3>1, <3>2, <1>4, <1>5
  <2>2. (\A j, k \in DOMAIN stack : stack[j].node = stack[k].node => j = k)'
    <3> SUFFICES ASSUME NEW j \in DOMAIN stack', NEW k \in DOMAIN stack',
                        stack'[j].node = stack'[k].node
                 PROVE  j = k
      OBVIOUS
    <3>1. /\ j \in DOMAIN stack /\ stack'[j] = stack[j]
          /\ k \in DOMAIN stack /\ stack'[k] = stack[k]
      BY <1>6
    <3> QED
      BY <3>1, <1>3 DEF WalkInv, PathInv
  <2>3. (\A o \in Objects : visit[o] = "on stack" => \E k \in DOMAIN stack : stack[k].node = o)'
    <3> SUFFICES ASSUME NEW o \in Objects, visit'[o] = "on stack"
                 PROVE  \E k \in DOMAIN stack' : stack'[k].node = o
      BY <1>2
    <3>1. o # gone /\ visit[o] = "on stack"
      BY <1>5
    <3>2. PICK k \in DOMAIN stack : stack[k].node = o
      BY <3>1, <1>3 DEF WalkInv, PathInv
    <3>3. k # Len(stack)
      BY <3>1, <3>2, <1>4
    <3>4. k \in 1 .. Len(stack) - 1
      BY <3>3, <1>4, BelowTheLast
    <3>5. k \in DOMAIN stack' /\ stack'[k] = stack[k]
      BY <3>4, <1>6
    <3> QED
      BY <3>2, <3>5
  <2> QED
    BY <2>1, <2>2, <2>3 DEF PathInv
<1>11. LookedInv'
  <2> SUFFICES ASSUME NEW k \in DOMAIN stack', NEW d \in deps[stack'[k].node] \ stack'[k].left
               PROVE  \/ visit'[d] = "done"
                      \/ stack'[k].node \in cyclic
                      \/ k < Len(stack') /\ d = stack'[k + 1].node
    BY <1>1 DEF LookedInv
  <2>1. k \in DOMAIN stack /\ stack'[k] = stack[k] /\ k < Len(stack)
    BY <1>4, <1>6
  <2>2. \/ visit[d] = "done"
        \/ stack[k].node \in cyclic
        \/ d = stack[k + 1].node
    BY <2>1, <1>3 DEF WalkInv, LookedInv
  <2>3. d \in Objects
    BY <2>1, <1>3, <1>4, ObjectsAreNumbers
  <2>4. CASE d = stack[k + 1].node /\ k + 1 = Len(stack)
    BY <2>4, <2>3, <1>4, <1>5
  <2>5. CASE d = stack[k + 1].node /\ k + 1 # Len(stack)
    <3>1. k + 1 \in 1 .. Len(stack) - 1 /\ k < Len(stack')
      BY <2>1, <2>5, <1>4, <1>6
    <3> QED
      BY <3>1, <2>5, <1>6
  <2> QED
    BY <2>1, <2>2, <2>3, <2>4, <2>5, <1>5
<1>12. LeftInv'
  <2>1. Settled(gone)'
    <3> SUFFICES ASSUME gone \notin cyclic, NEW d \in deps[gone] PROVE IsBefore(d, gone)'
      BY <1>1 DEF Settled
    <3>1. Len(stack) \in DOMAIN stack /\ d \in deps[stack[Len(stack)].node] \ stack[Len(stack)].left
      BY <1>1, <1>4
    <3>2. visit[d] = "done"
      BY <3>1, <1>3, <1>4 DEF WalkInv, LookedInv
    <3>3. d \in Objects
      BY <1>3, <1>4, ObjectsAreNumbers
    <3>4. \E k \in DOMAIN order : order[k] = d
      BY <3>2, <3>3, <1>3 DEF WalkInv, LeftInv
    <3> QED
      BY <3>4, <1>8
  <2> SUFFICES ASSUME NEW o \in Objects, visit'[o] = "done"
               PROVE  (\E k \in DOMAIN order' : order'[k] = o) /\ Settled(o)'
    BY <1>2 DEF LeftInv
  <2>2. CASE o = gone
    <3>1. order'[Len(order) + 1] = o /\ Len(order) + 1 \in DOMAIN order'
      BY <2>2, <1>8
    <3>2. Settled(o)'
      BY <2>1, <2>2
    <3> QED
      BY <3>1, <3>2
  <2>3. CASE o # gone
    <3>1. (\E k \in DOMAIN order : order[k] = o) /\ Settled(o)
      BY <2>3, <1>3, <1>5 DEF WalkInv, LeftInv
    <3>2. Settled(o)'
      BY <3>1, <1>1, <1>8, SettledStays
    <3> QED
      BY <3>1, <3>2, <1>8
  <2> QED
    BY <2>2, <2>3
<1>13. SpreadInv'
  BY <1>1, <1>3 DEF SpreadInv
<1> QED
  BY <1>9, <1>10, <1>11, <1>12, <1>13 DEF OrderInv, WalkInv

-----------------------------------------------------------------------------
LEMMA EndWalkKeeps == ASSUME OrderInv, EndWalk PROVE OrderInv'
<1>1. /\ pass = "walk" /\ stack = <<>> /\ \A o \in Objects : visit[o] # "unvisited"
      /\ work' = cyclic /\ pass' = "spread"
      /\ deps' = deps /\ inits' = inits /\ storage' = storage /\ visit' = visit
      /\ stack' = stack /\ order' = order /\ cyclic' = cyclic
  BY DEF EndWalk
<1>2. Objects' = Objects
  BY <1>1 DEF Objects
<1>3. OrderTypeOK /\ WalkInv /\ SpreadInv
  BY DEF OrderInv
<1>4. OrderTypeOK'
  BY <1>1, <1>2, <1>3 DEF OrderTypeOK, IsInput
<1>5. PathInv' /\ LookedInv'
  <2>1. PathInv'
    BY <1>1, <1>2, <1>3 DEF WalkInv, PathInv
  <2>2. LookedInv'
    BY <1>1, <1>3 DEF WalkInv, LookedInv
  <2> QED
    BY <2>1, <2>2
<1>6. LeftInv'
  BY <1>1, <1>3, LeftStays DEF WalkInv
<1>7. DOMAIN stack = {}
  <2>1. Len(stack) = 0 /\ stack \in Seq(Entry)
    BY <1>1, <1>3 DEF OrderTypeOK, Entry
  <2> QED
    BY <2>1
<1>8. \A o \in Objects : visit[o] = "done"
  <2>1. \A o \in Objects : visit[o] # "on stack"
    BY <1>3, <1>7 DEF WalkInv, PathInv
  <2> QED
    BY <2>1, <1>1, <1>3 DEF OrderTypeOK
<1>9. SpreadInv'
  BY <1>1, <1>2, <1>8 DEF SpreadInv
<1> QED
  BY <1>4, <1>5, <1>6, <1>9 DEF OrderInv, WalkInv

LEMMA SpreadKeeps == ASSUME OrderInv, NEW o \in Objects, Spread(o) PROVE OrderInv'
<1>1. /\ pass = "spread" /\ o \in work
      /\ cyclic' = cyclic \cup Users(o)
      /\ work' = (work \ {o}) \cup (Users(o) \ cyclic)
      /\ deps' = deps /\ inits' = inits /\ storage' = storage /\ visit' = visit
      /\ stack' = stack /\ order' = order /\ pass' = pass
  BY DEF Spread
<1>2. Objects' = Objects /\ Users(o) \subseteq Objects /\ \A d : Users(d)' = Users(d)
  BY <1>1 DEF Objects, Users
<1>3. OrderTypeOK /\ WalkInv /\ SpreadInv
  BY DEF OrderInv
<1>4. OrderTypeOK'
  BY <1>1, <1>2, <1>3 DEF OrderTypeOK, IsInput
<1>5. PathInv'
  BY <1>1, <1>2, <1>3 DEF WalkInv, PathInv
<1>6. LookedInv'
  BY <1>1, <1>3 DEF WalkInv, LookedInv
<1>7. LeftInv'
  BY <1>1, <1>3, LeftStays DEF WalkInv
<1>8. \A d \in cyclic' \ work' : Users(d) \subseteq cyclic'
  BY <1>1, <1>3 DEF SpreadInv
<1>9. SpreadInv'
  BY <1>1, <1>2, <1>3, <1>8 DEF SpreadInv
<1> QED
  BY <1>4, <1>5, <1>6, <1>7, <1>9 DEF OrderInv, WalkInv

LEMMA EndSpreadKeeps == ASSUME OrderInv, EndSpread PROVE OrderInv'
<1>1. /\ pass = "spread" /\ work = {} /\ pass' = "done"
      /\ deps' = deps /\ inits' = inits /\ storage' = storage /\ visit' = visit
      /\ stack' = stack /\ order' = order /\ cyclic' = cyclic /\ work' = work
  BY DEF EndSpread
<1>2. Objects' = Objects /\ \A d : Users(d)' = Users(d)
  BY <1>1 DEF Objects, Users
<1>3. OrderTypeOK /\ WalkInv /\ SpreadInv
  BY DEF OrderInv
<1>4. OrderTypeOK'
  BY <1>1, <1>2, <1>3 DEF OrderTypeOK, IsInput
<1>5. PathInv'
  BY <1>1, <1>2, <1>3 DEF WalkInv, PathInv
<1>6. LookedInv'
  BY <1>1, <1>3 DEF WalkInv, LookedInv
<1>7. LeftInv'
  BY <1>1, <1>3, LeftStays DEF WalkInv
<1>8. SpreadInv'
  BY <1>1, <1>2, <1>3 DEF SpreadInv
<1> QED
  BY <1>4, <1>5, <1>6, <1>7, <1>8 DEF OrderInv, WalkInv

LEMMA StutterKeeps == ASSUME OrderInv, UNCHANGED orderVars PROVE OrderInv'
<1>1. /\ deps' = deps /\ inits' = inits /\ storage' = storage /\ visit' = visit
      /\ stack' = stack /\ order' = order /\ cyclic' = cyclic /\ work' = work /\ pass' = pass
  BY DEF orderVars
<1>2. OrderTypeOK /\ WalkInv /\ SpreadInv
  BY DEF OrderInv
<1>3. OrderTypeOK'
  BY <1>1, <1>2 DEF OrderTypeOK, IsInput, Objects
<1>4. PathInv'
  BY <1>1, <1>2 DEF WalkInv, PathInv, Objects
<1>5. LookedInv'
  BY <1>1, <1>2 DEF WalkInv, LookedInv
<1>6. LeftInv'
  BY <1>1, <1>2, LeftStays DEF WalkInv
<1>7. SpreadInv'
  BY <1>1, <1>2 DEF SpreadInv, Objects, Users
<1> QED
  BY <1>3, <1>4, <1>5, <1>6, <1>7 DEF OrderInv, WalkInv

LEMMA InvInductive == OrderInv /\ [OrderNext]_orderVars => OrderInv'
<1> SUFFICES ASSUME OrderInv, [OrderNext]_orderVars PROVE OrderInv'
  OBVIOUS
<1>1. CASE \E o \in Objects : Enter(o) \/ Descend(o) \/ Close(o) \/ Skip(o) \/ Spread(o)
  BY <1>1, EnterKeeps, DescendKeeps, CloseKeeps, SkipKeeps, SpreadKeeps
<1>2. CASE Leave \/ EndWalk \/ EndSpread
  BY <1>2, LeaveKeeps, EndWalkKeeps, EndSpreadKeeps
<1>3. CASE UNCHANGED orderVars
  BY <1>3, StutterKeeps
<1> QED
  BY <1>1, <1>2, <1>3 DEF OrderNext

-----------------------------------------------------------------------------
(* What the order holds, and why an object is cyclic: it stands in a set of   *)
(* objects each of which reaches another one of the set.                      *)
Circles(o) == \E os \in SUBSET Objects : o \in os /\ \A p \in os : deps[p] \cap os # {}

TracedInv ==
    /\ \A k \in DOMAIN stack : stack[k].left \subseteq deps[stack[k].node]
    /\ \A k \in DOMAIN stack : k < Len(stack) => stack[k + 1].node \in deps[stack[k].node]
    /\ \A k \in DOMAIN order : visit[order[k]] = "done"
    /\ \A j, k \in DOMAIN order : order[j] = order[k] => j = k
    /\ \A o \in cyclic : Circles(o)

(* The order and the cyclic objects stay: only the path changes. *)
LEMMA PathTraced ==
    ASSUME OrderInv, TracedInv, deps' = deps, order' = order, cyclic' = cyclic,
           \A o \in Objects : visit[o] = "done" => visit'[o] = "done",
           \A k \in DOMAIN stack' : stack'[k].left \subseteq deps[stack'[k].node],
           \A k \in DOMAIN stack' : k < Len(stack') => stack'[k + 1].node \in deps[stack'[k].node]
    PROVE  TracedInv'
<1>1. \A o : Circles(o)' <=> Circles(o)
  BY DEF Circles, Objects
<1>2. order \in Seq(Objects)
  BY DEF OrderInv, OrderTypeOK
<1>3. ASSUME NEW k \in DOMAIN order PROVE visit'[order[k]] = "done"
  <2>1. order[k] \in Objects /\ visit[order[k]] = "done"
    BY <1>2 DEF TracedInv
  <2> QED
    BY <2>1
<1>4. (\A k \in DOMAIN order : visit[order[k]] = "done")'
  BY <1>3
<1>5. (\A j, k \in DOMAIN order : order[j] = order[k] => j = k)'
  BY DEF TracedInv
<1>6. (\A o \in cyclic : Circles(o))'
  BY <1>1 DEF TracedInv
<1> QED
  BY <1>4, <1>5, <1>6 DEF TracedInv

LEMMA EnterTraced == ASSUME OrderInv, TracedInv, NEW root \in Objects, Enter(root) PROVE TracedInv'
<1> DEFINE top == [node |-> root, left |-> deps[root]]
<1>1. /\ visit' = [visit EXCEPT ![root] = "on stack"] /\ visit[root] = "unvisited"
      /\ stack' = Append(<<>>, top)
      /\ deps' = deps /\ order' = order /\ cyclic' = cyclic
  BY DEF Enter, Onto
<1>2. top.node = root /\ top.left = deps[root]
  OBVIOUS
<1> HIDE DEF top
<1>3. Len(stack') = 1 /\ DOMAIN stack' = {1} /\ stack'[1] = top
  <2>1. stack' = Append(<<>>, top)
    BY <1>1
  <2>2. stack' = <<top>>
    BY <2>1
  <2> QED
    BY <2>2
<1>4. ASSUME NEW o \in Objects, visit[o] = "done" PROVE visit'[o] = "done"
  BY <1>1, <1>4 DEF OrderInv, OrderTypeOK
<1>5. \A k \in DOMAIN stack' : stack'[k].left \subseteq deps[stack'[k].node]
  BY <1>2, <1>3
<1>6. \A k \in DOMAIN stack' : ~(k < Len(stack'))
  BY <1>3
<1> QED
  BY <1>1, <1>4, <1>5, <1>6, PathTraced

LEMMA LookedTraced ==
    ASSUME OrderInv, TracedInv, stack # <<>>, NEW next \in Top.left
    PROVE  /\ next \in deps[Top.node]
           /\ \A k \in DOMAIN stack : Looked(next)[k].left \subseteq deps[stack[k].node]
<1>1. /\ Len(stack) \in Nat /\ Len(stack) \in DOMAIN stack /\ Top = stack[Len(stack)]
      /\ DOMAIN stack = 1 .. Len(stack)
  BY TopFacts
<1>2. Top.left \subseteq deps[Top.node]
  BY <1>1 DEF TracedInv
<1>3. ASSUME NEW k \in DOMAIN stack PROVE Looked(next)[k].left \subseteq deps[stack[k].node]
  <2>1. CASE k = Len(stack)
    BY <1>1, <1>2, <2>1, LookedFacts
  <2>2. CASE k # Len(stack)
    <3>1. k < Len(stack)
      BY <1>1, <2>2
    <3>2. Looked(next)[k] = stack[k]
      BY <3>1, LookedFacts
    <3> QED
      BY <3>2 DEF TracedInv
  <2> QED
    BY <2>1, <2>2
<1> QED
  BY <1>2, <1>3

LEMMA DescendTraced == ASSUME OrderInv, TracedInv, NEW next \in Objects, Descend(next) PROVE TracedInv'
<1> DEFINE top == [node |-> next, left |-> deps[next]]
<1>1. /\ stack # <<>> /\ next \in Top.left /\ visit[next] = "unvisited"
      /\ visit' = [visit EXCEPT ![next] = "on stack"]
      /\ stack' = Append(Looked(next), top)
      /\ deps' = deps /\ order' = order /\ cyclic' = cyclic
  BY DEF Descend, Onto
<1>2. top.node = next /\ top.left = deps[next]
  OBVIOUS
<1> HIDE DEF top
<1>3. /\ Looked(next) \in Seq(Entry) /\ Len(Looked(next)) = Len(stack) /\ Len(stack) \in Nat
      /\ DOMAIN stack = 1 .. Len(stack) /\ Top = stack[Len(stack)]
      /\ \A k \in DOMAIN stack : /\ Looked(next)[k].node = stack[k].node
                                 /\ Looked(next)[k].left \subseteq deps[stack[k].node]
      /\ next \in deps[Top.node]
  BY <1>1, LookedFacts, LookedTraced, TopFacts
<1>4. /\ Len(stack') = Len(stack) + 1 /\ DOMAIN stack' = 1 .. Len(stack) + 1
      /\ stack'[Len(stack) + 1] = top
      /\ \A k \in 1 .. Len(stack) : stack'[k] = Looked(next)[k]
  <2>1. PICK s : s = Looked(next)
    OBVIOUS
  <2>2. top \in Entry
    BY ObjectsAreNumbers DEF top, Entry, OrderInv
  <2>3. s \in Seq(Entry) /\ stack' = Append(s, top) /\ Len(s) = Len(stack)
    BY <1>1, <1>3, <2>1
  <2> QED
    BY <2>1, <2>2, <2>3, AppendFacts
<1>5. ASSUME NEW k \in DOMAIN stack' PROVE stack'[k].left \subseteq deps[stack'[k].node]
  <2>1. k \in 1 .. Len(stack) \/ k = Len(stack) + 1
    BY <1>3, <1>4
  <2> QED
    BY <1>2, <1>3, <1>4, <2>1
<1>6. ASSUME NEW k \in DOMAIN stack', k < Len(stack')
      PROVE  stack'[k + 1].node \in deps[stack'[k].node]
  <2>1. k \in 1 .. Len(stack) /\ stack'[k].node = stack[k].node
    BY <1>3, <1>4, <1>6
  <2>2. CASE k = Len(stack)
    BY <1>2, <1>3, <1>4, <2>1, <2>2
  <2>3. CASE k # Len(stack)
    <3>1. k < Len(stack) /\ k + 1 \in 1 .. Len(stack)
      BY <1>3, <2>1, <2>3
    <3>2. stack'[k + 1].node = stack[k + 1].node
      BY <1>3, <1>4, <3>1
    <3> QED
      BY <1>3, <2>1, <3>1, <3>2 DEF TracedInv
  <2> QED
    BY <2>2, <2>3
<1>7. ASSUME NEW o \in Objects, visit[o] = "done" PROVE visit'[o] = "done"
  BY <1>1, <1>7 DEF OrderInv, OrderTypeOK
<1> QED
  BY <1>1, <1>5, <1>6, <1>7, PathTraced

(* The path from what is named again to the end is the circle. *)
LEMMA CloseTraced == ASSUME OrderInv, TracedInv, NEW next \in Objects, Close(next) PROVE TracedInv'
<1>1. /\ stack # <<>> /\ next \in Top.left /\ visit[next] = "on stack"
      /\ cyclic' = cyclic \cup {Top.node} /\ stack' = Looked(next)
      /\ deps' = deps /\ order' = order /\ visit' = visit
  BY DEF Close
<1>2. /\ Len(stack) \in Nat /\ Len(stack) \in DOMAIN stack /\ DOMAIN stack = 1 .. Len(stack)
      /\ Top = stack[Len(stack)] /\ \A k \in DOMAIN stack : stack[k].node \in Objects
  <2>1. Len(stack) \in Nat /\ Len(stack) >= 1 /\ DOMAIN stack = 1 .. Len(stack) /\ Top = stack[Len(stack)]
    BY <1>1, TopFacts
  <2>2. \A k \in DOMAIN stack : stack[k].node \in Objects
    BY <1>1, TopFacts
  <2> QED
    BY <2>1, <2>2
<1>3. /\ Len(stack') = Len(stack) /\ DOMAIN stack' = DOMAIN stack
      /\ \A k \in DOMAIN stack : /\ stack'[k].node = stack[k].node
                                 /\ stack'[k].left \subseteq deps[stack[k].node]
      /\ next \in deps[Top.node]
  BY <1>1, LookedFacts, LookedTraced
<1>4. PICK n \in DOMAIN stack : stack[n].node = next
  BY <1>1 DEF OrderInv, WalkInv, PathInv
<1>5. Circles(Top.node)
  <2> DEFINE os == {stack[k].node : k \in n .. Len(stack)}
  <2>1. ASSUME NEW k \in n .. Len(stack) PROVE deps[stack[k].node] \cap os # {}
    <3>1. k \in DOMAIN stack
      BY <1>2, <1>4
    <3>2. CASE k = Len(stack)
      <4>1. next \in os
        BY <1>2, <1>4
      <4> QED
        BY <1>2, <1>3, <3>2, <4>1
    <3>3. CASE k # Len(stack)
      <4>1. k < Len(stack) /\ k + 1 \in n .. Len(stack)
        BY <1>2, <1>4, <3>1, <3>3
      <4>2. stack[k + 1].node \in deps[stack[k].node]
        BY <3>1, <4>1 DEF TracedInv
      <4> QED
        BY <4>1, <4>2
    <3> QED
      BY <3>2, <3>3
  <2>2. Len(stack) \in n .. Len(stack) /\ \A k \in n .. Len(stack) : k \in DOMAIN stack
    BY <1>2, <1>4
  <2>3. os \in SUBSET Objects /\ Top.node \in os
    BY <1>2, <2>2
  <2>4. \A p \in os : deps[p] \cap os # {}
    BY <2>1
  <2> HIDE DEF os
  <2> QED
    BY <2>3, <2>4 DEF Circles
<1>6. \A o : Circles(o)' <=> Circles(o)
  BY <1>1 DEF Circles, Objects
<1>7. (\A o \in cyclic : Circles(o))'
  BY <1>1, <1>5, <1>6 DEF TracedInv
<1>8. (\A k \in DOMAIN stack : stack[k].left \subseteq deps[stack[k].node])'
  BY <1>1, <1>3
<1>9. (\A k \in DOMAIN stack : k < Len(stack) => stack[k + 1].node \in deps[stack[k].node])'
  <2> SUFFICES ASSUME NEW k \in DOMAIN stack, k < Len(stack)
               PROVE  stack'[k + 1].node \in deps[stack'[k].node]
    BY <1>1, <1>3
  <2>1. k + 1 \in DOMAIN stack
    BY <1>2
  <2> QED
    BY <1>3, <2>1 DEF TracedInv
<1>10. /\ (\A k \in DOMAIN order : visit[order[k]] = "done")'
       /\ (\A j, k \in DOMAIN order : order[j] = order[k] => j = k)'
  BY <1>1 DEF TracedInv
<1> QED
  BY <1>7, <1>8, <1>9, <1>10 DEF TracedInv

LEMMA SkipTraced == ASSUME OrderInv, TracedInv, NEW next \in Objects, Skip(next) PROVE TracedInv'
<1>1. /\ stack # <<>> /\ next \in Top.left /\ stack' = Looked(next)
      /\ deps' = deps /\ order' = order /\ cyclic' = cyclic /\ visit' = visit
  BY DEF Skip
<1>2. /\ Len(stack) \in Nat /\ DOMAIN stack = 1 .. Len(stack)
      /\ Len(stack') = Len(stack) /\ DOMAIN stack' = DOMAIN stack
      /\ \A k \in DOMAIN stack : /\ stack'[k].node = stack[k].node
                                 /\ stack'[k].left \subseteq deps[stack[k].node]
  BY <1>1, LookedFacts, LookedTraced, TopFacts
<1>3. ASSUME NEW k \in DOMAIN stack', k < Len(stack')
      PROVE  stack'[k + 1].node \in deps[stack'[k].node]
  <2>1. k + 1 \in DOMAIN stack
    BY <1>2, <1>3
  <2> QED
    BY <1>2, <1>3, <2>1 DEF TracedInv
<1> QED
  BY <1>1, <1>2, <1>3, PathTraced

LEMMA LeaveTraced == ASSUME OrderInv, TracedInv, Leave PROVE TracedInv'
<1>0. PICK gone : gone = Top.node
  OBVIOUS
<1>1. /\ stack # <<>> /\ visit' = [visit EXCEPT ![gone] = "done"]
      /\ order' = Append(order, gone) /\ stack' = SubSeq(stack, 1, Len(stack) - 1)
      /\ deps' = deps /\ cyclic' = cyclic
  BY <1>0 DEF Leave
<1>2. /\ stack \in Seq(Entry) /\ Len(stack) \in Nat /\ Len(stack) >= 1 /\ gone \in Objects
      /\ DOMAIN stack = 1 .. Len(stack) /\ gone = stack[Len(stack)].node
  BY <1>0, <1>1, TopFacts
<1>3. /\ Len(stack') = Len(stack) - 1 /\ DOMAIN stack' = 1 .. Len(stack) - 1
      /\ \A k \in 1 .. Len(stack) - 1 : k \in DOMAIN stack /\ stack'[k] = stack[k]
  BY <1>1, <1>2
<1>4. visit \in [Objects -> {"unvisited", "on stack", "done"}] /\ order \in Seq(Objects)
  BY DEF OrderInv, OrderTypeOK
<1>5. visit[gone] = "on stack" /\ visit'[gone] = "done" /\ \A o \in Objects : visit[o] = "done" => visit'[o] = "done"
  <2>0. Len(stack) \in DOMAIN stack
    BY <1>2
  <2>1. visit[gone] = "on stack"
    BY <1>2, <2>0 DEF OrderInv, WalkInv, PathInv
  <2> QED
    BY <1>1, <1>2, <1>4, <2>1
<1>6. /\ DOMAIN order = 1 .. Len(order) /\ DOMAIN order' = 1 .. Len(order) + 1 /\ Len(order) \in Nat
      /\ order'[Len(order) + 1] = gone
      /\ \A k \in 1 .. Len(order) : order'[k] = order[k] /\ order[k] \in Objects
  <2>1. PICK S, s : S = Objects /\ s = order
    OBVIOUS
  <2>2. s \in Seq(S) /\ order' = Append(s, gone) /\ gone \in S
    BY <1>1, <1>2, <1>4, <2>1
  <2>3. \A k \in 1 .. Len(s) : s[k] \in S
    BY <2>2
  <2> QED
    BY <2>1, <2>2, <2>3, AppendFacts
<1>7. ASSUME NEW k \in DOMAIN order' PROVE visit'[order'[k]] = "done"
  <2>1. k \in 1 .. Len(order) \/ k = Len(order) + 1
    BY <1>6
  <2>2. CASE k \in 1 .. Len(order)
    <3>1. visit[order[k]] = "done"
      BY <1>6, <2>2 DEF TracedInv
    <3> QED
      BY <1>5, <1>6, <2>2, <3>1
  <2>3. CASE k = Len(order) + 1
    BY <1>5, <1>6, <2>3
  <2> QED
    BY <2>1, <2>2, <2>3
<1>8. ASSUME NEW j \in DOMAIN order', NEW k \in DOMAIN order', order'[j] = order'[k] PROVE j = k
  <2>1. /\ j \in 1 .. Len(order) \/ j = Len(order) + 1
        /\ k \in 1 .. Len(order) \/ k = Len(order) + 1
    BY <1>6
  <2>2. \A l \in 1 .. Len(order) : order[l] # gone
    BY <1>5, <1>6 DEF TracedInv
  <2> QED
    BY <1>6, <1>8, <2>1, <2>2 DEF TracedInv
<1>9. (\A o \in cyclic : Circles(o))'
  <2>1. \A o : Circles(o)' <=> Circles(o)
    BY <1>1 DEF Circles, Objects
  <2> QED
    BY <1>1, <2>1 DEF TracedInv
<1>10. (\A k \in DOMAIN stack : stack[k].left \subseteq deps[stack[k].node])'
  BY <1>1, <1>3 DEF TracedInv
<1>11. (\A k \in DOMAIN stack : k < Len(stack) => stack[k + 1].node \in deps[stack[k].node])'
  <2> SUFFICES ASSUME NEW k \in DOMAIN stack', k < Len(stack')
               PROVE  stack'[k + 1].node \in deps[stack'[k].node]
    BY <1>1
  <2>1. k \in 1 .. Len(stack) - 1 /\ k + 1 \in 1 .. Len(stack) - 1 /\ k \in DOMAIN stack /\ k < Len(stack)
    BY <1>2, <1>3
  <2> QED
    BY <1>3, <2>1 DEF TracedInv
<1>12. (\A k \in DOMAIN order : visit[order[k]] = "done")'
  BY <1>7
<1>13. (\A j, k \in DOMAIN order : order[j] = order[k] => j = k)'
  BY <1>8
<1> QED
  BY <1>9, <1>10, <1>11, <1>12, <1>13 DEF TracedInv

(* A user of what stands in a circle, together with the circle, makes one.    *)
LEMMA SpreadTraced == ASSUME OrderInv, TracedInv, NEW o \in Objects, Spread(o) PROVE TracedInv'
<1>1. /\ o \in work /\ cyclic' = cyclic \cup Users(o)
      /\ deps' = deps /\ visit' = visit /\ stack' = stack /\ order' = order
  BY DEF Spread
<1>2. work \subseteq cyclic
  BY DEF OrderInv, OrderTypeOK
<1>3. PICK os \in SUBSET Objects : o \in os /\ \A p \in os : deps[p] \cap os # {}
  BY <1>1, <1>2 DEF TracedInv, Circles
<1>4. ASSUME NEW u \in Users(o) PROVE Circles(u)
  <2>1. u \in Objects /\ o \in deps[u]
    BY DEF Users
  <2>2. os \cup {u} \in SUBSET Objects /\ u \in os \cup {u}
    BY <2>1
  <2>3. \A p \in os \cup {u} : deps[p] \cap (os \cup {u}) # {}
    BY <1>3, <2>1
  <2> QED
    BY <2>2, <2>3, Zenon DEF Circles
<1>5. \A p : Circles(p)' <=> Circles(p)
  BY <1>1 DEF Circles, Objects
<1>6. (\A p \in cyclic : Circles(p))'
  BY <1>1, <1>4, <1>5 DEF TracedInv
<1> QED
  BY <1>1, <1>6 DEF TracedInv

LEMMA TracedInitially ==
    ASSUME stack = <<>>, order = <<>>, cyclic = {} PROVE TracedInv
<1>1. DOMAIN stack = {} /\ DOMAIN order = {}
  OBVIOUS
<1> QED
  BY <1>1 DEF TracedInv

LEMMA TracedInductive == ASSUME OrderInv, TracedInv, [OrderNext]_orderVars PROVE TracedInv'
<1>1. CASE \E o \in Objects : Enter(o) \/ Descend(o) \/ Close(o) \/ Skip(o) \/ Spread(o)
  BY <1>1, EnterTraced, DescendTraced, CloseTraced, SkipTraced, SpreadTraced
<1>2. CASE Leave
  BY <1>2, LeaveTraced
<1>3. CASE EndWalk \/ EndSpread \/ UNCHANGED orderVars
  <2>1. deps' = deps /\ visit' = visit /\ stack' = stack /\ order' = order /\ cyclic' = cyclic
    BY <1>3 DEF EndWalk, EndSpread, orderVars
  <2> QED
    BY <2>1, PathTraced DEF TracedInv
<1> QED
  BY <1>1, <1>2, <1>3 DEF OrderNext

(* The result: every object once, and none that is not cyclic reaches one     *)
(* that is.                                                                   *)
LEMMA OrderFacts ==
    ASSUME OrderInv, TracedInv, pass = "done"
    PROVE  /\ order \in Seq(Objects) /\ \A o \in Objects : \E k \in DOMAIN order : order[k] = o
           /\ \A j, k \in DOMAIN order : order[j] = order[k] => j = k
           /\ \A o \in Objects \ cyclic : \A d \in deps[o] : d \notin cyclic /\ IsBefore(d, o)
           /\ \A o \in cyclic : Circles(o)
<1>1. OrderTypeOK /\ LeftInv /\ SpreadInv
  BY DEF OrderInv, WalkInv
<1>2. ASSUME NEW o \in Objects \ cyclic, NEW d \in deps[o] PROVE d \notin cyclic /\ IsBefore(d, o)
  <2>1. d \in Objects /\ o \in Users(d)
    BY <1>1, ObjectsAreNumbers DEF Users
  <2> QED
    BY <1>1, <2>1 DEF LeftInv, Settled, SpreadInv
<1> QED
  BY <1>1, <1>2 DEF OrderTypeOK, LeftInv, SpreadInv, TracedInv

-----------------------------------------------------------------------------
(* What is initialized in its declaration reaches no cyclic object, so all it *)
(* reaches is printed before it, with its own initializer or with zero.       *)
LEMMA InvOrders == OrderInv => DependenciesFirst
<1> SUFFICES ASSUME OrderInv, pass = "done", NEW o \in Objects, Initializer(o) = "inline",
                    NEW d \in deps[o]
             PROVE  IsBefore(d, o) /\ Initializer(d) # "none"
  BY DEF DependenciesFirst
<1>1. OrderTypeOK /\ LeftInv /\ SpreadInv
  BY DEF OrderInv, WalkInv
<1>2. o \notin cyclic
  BY DEF Initializer
<1>3. d \in Objects
  BY <1>1, ObjectsAreNumbers
<1>4. IsBefore(d, o)
  BY <1>1, <1>2 DEF LeftInv, Settled, SpreadInv
<1>5. d \notin cyclic
  <2>1. o \in Users(d)
    BY DEF Users
  <2> QED
    BY <2>1, <1>1, <1>2 DEF SpreadInv
<1>6. d \in ReadInline
  BY <1>2 DEF ReadInline
<1> QED
  BY <1>4, <1>5, <1>6 DEF Initializer

(* Whatever the objects are, the pass keeps the types of its state. *)
THEOREM OrderTypeCorrect == OrderSpec => []OrderTypeOK
<1>1. OrderInv => OrderTypeOK
  BY DEF OrderInv
<1> QED
  BY <1>1, InvInitially, InvInductive, PTL DEF OrderSpec

(* For any number of objects, and whatever their initializers reach: when the *)
(* pass is done, everything an initializer reaches is declared before it and  *)
(* is initialized itself (order_value_declarations).                          *)
THEOREM InitializersOrdered == OrderSpec => []DependenciesFirst
BY InvOrders, InvInitially, InvInductive, PTL DEF OrderSpec

-----------------------------------------------------------------------------
HeldSet == {held[i] : i \in DOMAIN held}
Visited(u) == index[u] # 0
Closed(u) == index[u] # 0 /\ ~IsHeld(u)
IsCalling(u) == \E k \in DOMAIN calls : calls[k].node = u

(* The indices number the visited units; both stacks are in their order. *)
NumberInv ==
    /\ \A u \in Nodes : index[u] < counter
    /\ \A u, v \in Nodes : index[u] = index[v] /\ index[u] # 0 => u = v
    /\ \A i \in DOMAIN held : index[held[i]] # 0
    /\ \A i, j \in DOMAIN held : i < j => index[held[i]] < index[held[j]]
    /\ \A j, k \in DOMAIN calls : j < k => index[calls[j].node] < index[calls[k].node]
    /\ \A k \in DOMAIN calls : IsHeld(calls[k].node) /\ calls[k].left \subseteq edges[calls[k].node]

(* What a visit has looked at was visited, and what is closed leads to what is closed. *)
VisitedInv ==
    /\ \A u \in Nodes : Visited(u) /\ ~IsCalling(u) => \A v \in edges[u] : Visited(v)
    /\ \A k \in DOMAIN calls : \A v \in edges[calls[k].node] \ calls[k].left : Visited(v)
    /\ \A u \in Nodes : Closed(u) => \A v \in edges[u] : Closed(v)

(* A unit whose visit has not returned reaches the held units visited since, and *)
(* a held unit reaches one of them that was visited before.  *)
HeldInv ==
    /\ \A k \in DOMAIN calls : \A y \in Nodes :
           IsHeld(y) /\ index[calls[k].node] <= index[y] => Reaches(calls[k].node, y)
    /\ \A y \in Nodes : IsHeld(y) =>
           \E k \in DOMAIN calls : index[calls[k].node] <= index[y] /\ Reaches(y, calls[k].node)

(* low is reached, and nothing lower is, from what the visit has closed off. *)
LowInv ==
    /\ \A y \in Nodes : IsHeld(y) =>
           \E z \in Nodes : IsHeld(z) /\ low[y] = index[z] /\ index[z] <= index[y] /\ Reaches(y, z)
    /\ \A k \in DOMAIN calls : \A y \in Nodes :
           /\ IsHeld(y) /\ index[calls[k].node] <= index[y]
           /\ k < Len(calls) => index[y] < index[calls[k + 1].node]
           => \A z \in edges[y] : IsHeld(z) /\ (y = calls[k].node => z \notin calls[k].left)
                                  => low[calls[k].node] <= index[z]

Mutual(u, v) == Reaches(u, v) /\ Reaches(v, u)

ClosedInv ==
    \A u \in Nodes : Closed(u) =>
        /\ Closed(component[u]) /\ Mutual(u, component[u])
        /\ \A v \in Nodes : Mutual(u, v) => component[v] = component[u] /\ component[u] <= v

ComponentsInv == ComponentsTypeOK /\ NumberInv /\ VisitedInv /\ HeldInv /\ LowInv /\ ClosedInv

-----------------------------------------------------------------------------
LEMMA GraphFacts ==
    ASSUME ComponentsTypeOK
    PROVE  /\ Nodes \subseteq Nat /\ IsFiniteSet(Nodes) /\ Nodes = 1 .. Len(edges) /\ Len(edges) \in Nat
           /\ \A u \in Nodes : /\ edges[u] \subseteq Nodes /\ index[u] \in Nat /\ low[u] \in Nat
                               /\ component[u] \in Nodes
           /\ counter \in Nat /\ counter >= 1
           /\ Len(held) \in Nat /\ DOMAIN held = 1 .. Len(held)
           /\ \A i \in DOMAIN held : held[i] \in Nodes
           /\ Len(calls) \in Nat /\ DOMAIN calls = 1 .. Len(calls)
           /\ \A k \in DOMAIN calls : calls[k].node \in Nodes /\ calls[k].left \subseteq Nodes
<1>1. edges \in Seq(SUBSET Nat) /\ \A u \in DOMAIN edges : edges[u] \subseteq DOMAIN edges
  BY DEF ComponentsTypeOK, IsGraph
<1>2. Nodes = 1 .. Len(edges) /\ Len(edges) \in Nat
  BY <1>1 DEF Nodes
<1>3. IsFiniteSet(Nodes) /\ Nodes \subseteq Nat
  BY <1>2, FS_Interval
<1>4. \A u \in Nodes : edges[u] \subseteq Nodes /\ index[u] \in Nat /\ low[u] \in Nat /\ component[u] \in Nodes
  BY <1>1 DEF ComponentsTypeOK, Nodes
<1>5. counter \in Nat /\ counter >= 1
  BY DEF ComponentsTypeOK
<1>6. Len(held) \in Nat /\ DOMAIN held = 1 .. Len(held) /\ \A i \in DOMAIN held : held[i] \in Nodes
  BY DEF ComponentsTypeOK
<1>7. /\ Len(calls) \in Nat /\ DOMAIN calls = 1 .. Len(calls)
      /\ \A k \in DOMAIN calls : calls[k] \in [node : Nodes, left : SUBSET Nodes]
  <2>1. PICK S : S = [node : Nodes, left : SUBSET Nodes]
    OBVIOUS
  <2>2. calls \in Seq(S)
    BY <2>1 DEF ComponentsTypeOK
  <2>3. Len(calls) \in Nat /\ DOMAIN calls = 1 .. Len(calls) /\ \A k \in DOMAIN calls : calls[k] \in S
    BY <2>2
  <2> QED
    BY <2>1, <2>3
<1>8. \A k \in DOMAIN calls : calls[k].node \in Nodes /\ calls[k].left \subseteq Nodes
  BY <1>7
<1> QED
  BY <1>2, <1>3, <1>4, <1>5, <1>6, <1>7, <1>8

LEMMA ReachesItself ==
    ASSUME NEW u \in Nodes PROVE Reaches(u, u)
BY DEF Reaches

LEMMA ReachesNext ==
    ASSUME NEW u \in Nodes, NEW v \in edges[u] PROVE Reaches(u, v)
BY DEF Reaches

LEMMA ReachesOn ==
    ASSUME NEW u, NEW v, NEW w, Reaches(u, v), Reaches(v, w)
    PROVE  Reaches(u, w)
BY DEF Reaches

LEMMA ReachesWithin ==
    ASSUME NEW u, NEW v, Reaches(u, v), NEW us \in SUBSET Nodes, u \in us, \A w \in us : edges[w] \subseteq us
    PROVE  v \in us
BY DEF Reaches

LEMMA SameReach ==
    ASSUME UNCHANGED edges
    PROVE  /\ Nodes' = Nodes
           /\ \A u, v : Reaches(u, v)' <=> Reaches(u, v)
           /\ \A u, v : Mutual(u, v)' <=> Mutual(u, v)
BY DEF Nodes, Reaches, Mutual

LEMMA HeldFacts ==
    ASSUME ComponentsTypeOK, NumberInv, NEW y, IsHeld(y)
    PROVE  y \in Nodes /\ index[y] # 0
BY GraphFacts DEF IsHeld, NumberInv

(* A unit that is visited is put on both stacks. *)
LEMMA VisitKeeps ==
    ASSUME ComponentsInv, NEW u \in Nodes, index[u] = 0, NEW callers, Visits(u, callers),
           callers \in Seq([node : Nodes, left : SUBSET Nodes]), Len(callers) = Len(calls),
           \A k \in DOMAIN calls : /\ callers[k].node = calls[k].node /\ callers[k].left \subseteq calls[k].left
                                   /\ calls[k].left \subseteq callers[k].left \cup {u},
           calls = <<>> \/ u \in edges[Current.node]
    PROVE  ComponentsInv'
<1>1. PICK c, L, M : c = counter /\ L = Len(held) /\ M = Len(calls)
  OBVIOUS
<1>2. ComponentsTypeOK /\ NumberInv /\ VisitedInv /\ HeldInv /\ LowInv /\ ClosedInv
  BY DEF ComponentsInv
<1>3. /\ c \in Nat /\ c >= 1 /\ L \in Nat /\ M \in Nat /\ DOMAIN held = 1 .. L /\ DOMAIN calls = 1 .. M
      /\ Nodes \subseteq Nat
      /\ \A w \in Nodes : edges[w] \subseteq Nodes /\ index[w] \in Nat /\ low[w] \in Nat
      /\ \A w \in Nodes : index[w] < c
      /\ \A k \in 1 .. M : calls[k].node \in Nodes /\ calls[k].left \subseteq Nodes
  BY <1>1, <1>2, GraphFacts DEF NumberInv
<1>4. /\ edges' = edges /\ component' = component /\ counter' = c + 1
      /\ \A w \in Nodes : index'[w] = IF w = u THEN c ELSE index[w]
      /\ \A w \in Nodes : low'[w] = IF w = u THEN c ELSE low[w]
  BY <1>1, <1>2 DEF Visits, ComponentsTypeOK
<1>5. /\ held' \in Seq(Nodes) /\ DOMAIN held' = 1 .. L + 1 /\ \A i \in 1 .. L : held'[i] = held[i]
      /\ held'[L + 1] = u
  BY <1>1, <1>2, AppendFacts DEF Visits, ComponentsTypeOK
<1>6. /\ calls' \in Seq([node : Nodes, left : SUBSET Nodes]) /\ DOMAIN calls' = 1 .. M + 1
      /\ Len(calls') = M + 1
      /\ \A k \in 1 .. M : calls'[k] = callers[k]
      /\ calls'[M + 1] = [node |-> u, left |-> edges[u]]
  <2>1. [node |-> u, left |-> edges[u]] \in [node : Nodes, left : SUBSET Nodes]
    BY <1>3
  <2> QED
    BY <1>1, <2>1, AppendFacts DEF Visits
<1>7. /\ \A k \in 1 .. M : /\ calls'[k].node = calls[k].node /\ calls'[k].left \subseteq calls[k].left
                           /\ calls[k].left \subseteq calls'[k].left \cup {u}
      /\ calls'[M + 1].node = u /\ calls'[M + 1].left = edges[u]
  <2>1. \A k \in 1 .. M : /\ callers[k].node = calls[k].node /\ callers[k].left \subseteq calls[k].left
                          /\ calls[k].left \subseteq callers[k].left \cup {u}
    BY <1>3
  <2>2. calls'[M + 1].node = u /\ calls'[M + 1].left = edges[u]
    BY <1>6
  <2> QED
    BY <1>6, <2>1, <2>2, Zenon
<1>8. /\ Nodes' = Nodes
      /\ \A v, w : Reaches(v, w)' <=> Reaches(v, w)
      /\ \A v, w : Mutual(v, w)' <=> Mutual(v, w)
  BY <1>4, SameReach
<1>9. \A y : IsHeld(y)' <=> IsHeld(y) \/ y = u
  <2>1. \A y : IsHeld(y)' <=> \E i \in 1 .. L + 1 : held'[i] = y
    BY <1>5 DEF IsHeld
  <2>2. \A y : IsHeld(y) <=> \E i \in 1 .. L : held[i] = y
    BY <1>3 DEF IsHeld
  <2>3. \A i \in 1 .. L + 1 : i \in 1 .. L \/ i = L + 1
    BY <1>3
  <2>4. L + 1 \in 1 .. L + 1 /\ \A i \in 1 .. L : i \in 1 .. L + 1
    BY <1>3
  <2> QED
    BY <1>5, <2>1, <2>2, <2>3, <2>4
<1>10. \A y : IsHeld(y) => y \in Nodes /\ index[y] # 0 /\ y # u /\ index'[y] = index[y] /\ low'[y] = low[y]
  BY <1>2, <1>4, HeldFacts
<1>11. \A k \in 1 .. M : /\ calls[k].node # u /\ IsHeld(calls[k].node)
                         /\ index'[calls[k].node] = index[calls[k].node]
                         /\ low'[calls[k].node] = low[calls[k].node]
  BY <1>2, <1>3, <1>10 DEF NumberInv
<1>12. /\ index'[u] = c /\ low'[u] = c /\ c # 0
       /\ \A w \in Nodes : (Visited(w)' <=> Visited(w) \/ w = u) /\ (Closed(w)' <=> Closed(w))
  <2>1. index'[u] = c /\ low'[u] = c /\ c # 0
    BY <1>3, <1>4
  <2>2. ASSUME NEW w \in Nodes PROVE (index'[w] # 0 <=> index[w] # 0 \/ w = u)
    BY <1>4, <2>1
  <2>3. ASSUME NEW w \in Nodes PROVE Visited(w)' <=> Visited(w) \/ w = u
    BY <2>2 DEF Visited
  <2>4. ASSUME NEW w \in Nodes PROVE Closed(w)' <=> Closed(w)
    BY <1>9, <2>2 DEF Closed
  <2> QED
    BY <2>1, <2>3, <2>4
<1>13. \A w \in Nodes : IsCalling(w)' <=> IsCalling(w) \/ w = u
  <2>1. \A w : IsCalling(w)' <=> \E k \in 1 .. M + 1 : calls'[k].node = w
    BY <1>6 DEF IsCalling
  <2>2. \A w : IsCalling(w) <=> \E k \in 1 .. M : calls[k].node = w
    BY <1>3 DEF IsCalling
  <2>3. \A k \in 1 .. M + 1 : k \in 1 .. M \/ k = M + 1
    BY <1>3
  <2>4. M + 1 \in 1 .. M + 1 /\ \A k \in 1 .. M : k \in 1 .. M + 1
    BY <1>3
  <2> QED
    BY <1>7, <2>1, <2>2, <2>3, <2>4
<1>14. ComponentsTypeOK'
  <2>1. index' \in [Nodes -> Nat] /\ low' \in [Nodes -> Nat]
    BY <1>1, <1>2, <1>3 DEF Visits, ComponentsTypeOK
  <2> QED
    BY <1>2, <1>3, <1>4, <1>5, <1>6, <1>8, <2>1 DEF ComponentsTypeOK, IsGraph
<1>15. NumberInv'
  <2>1. \A w \in Nodes' : index'[w] < counter'
    BY <1>3, <1>4, <1>8
  <2>2. \A v, w \in Nodes' : index'[v] = index'[w] /\ index'[v] # 0 => v = w
    BY <1>2, <1>3, <1>4, <1>8 DEF NumberInv
  <2>3. \A i \in DOMAIN held' : index'[held'[i]] # 0
    <3> TAKE i \in DOMAIN held'
    <3>1. i \in 1 .. L \/ i = L + 1
      BY <1>3, <1>5
    <3>2. i \in 1 .. L => IsHeld(held[i])
      BY <1>3 DEF IsHeld
    <3> QED
      BY <1>5, <1>10, <1>12, <3>1, <3>2
  <2>4. \A i, j \in DOMAIN held' : i < j => index'[held'[i]] < index'[held'[j]]
    <3> SUFFICES ASSUME NEW i \in 1 .. L + 1, NEW j \in 1 .. L + 1, i < j
                 PROVE  index'[held'[i]] < index'[held'[j]]
      BY <1>5
    <3>1. i \in 1 .. L /\ (j \in 1 .. L \/ j = L + 1)
      BY <1>3
    <3>2. \A m \in 1 .. L : IsHeld(held[m])
      BY <1>3 DEF IsHeld
    <3>3. CASE j \in 1 .. L
      BY <1>2, <1>3, <1>5, <1>10, <3>1, <3>2, <3>3 DEF NumberInv
    <3>4. CASE j = L + 1
      BY <1>3, <1>5, <1>10, <1>12, <3>1, <3>2, <3>4
    <3> QED
      BY <3>1, <3>3, <3>4
  <2>5. \A j, k \in DOMAIN calls' : j < k => index'[calls'[j].node] < index'[calls'[k].node]
    <3> SUFFICES ASSUME NEW j \in 1 .. M + 1, NEW k \in 1 .. M + 1, j < k
                 PROVE  index'[calls'[j].node] < index'[calls'[k].node]
      BY <1>6
    <3>1. j \in 1 .. M /\ (k \in 1 .. M \/ k = M + 1)
      BY <1>3
    <3>2. CASE k \in 1 .. M
      <4>1. index[calls[j].node] < index[calls[k].node]
        BY <1>2, <1>3, <3>1, <3>2 DEF NumberInv
      <4> QED
        BY <1>7, <1>11, <3>1, <3>2, <4>1
    <3>3. CASE k = M + 1
      <4>1. index'[calls'[k].node] = c /\ index'[calls'[j].node] = index[calls[j].node]
        BY <1>7, <1>11, <1>12, <3>1, <3>3
      <4>2. index[calls[j].node] < c
        BY <1>3, <3>1
      <4> QED
        BY <4>1, <4>2
    <3> QED
      BY <3>1, <3>2, <3>3
  <2>6. (\A k \in DOMAIN calls : IsHeld(calls[k].node) /\ calls[k].left \subseteq edges[calls[k].node])'
    <3> TAKE k \in DOMAIN calls'
    <3>1. k \in 1 .. M \/ k = M + 1
      BY <1>3, <1>6
    <3>2. CASE k \in 1 .. M
      <4>1. IsHeld(calls[k].node) /\ calls[k].left \subseteq edges[calls[k].node]
        BY <1>2, <1>3, <3>2 DEF NumberInv
      <4>2. calls'[k].node = calls[k].node /\ calls'[k].left \subseteq calls[k].left
        BY <1>7, <3>2
      <4>3. IsHeld(calls[k].node)'
        <5>1. PICK n : n = calls[k].node
          OBVIOUS
        <5>2. IsHeld(n)'
          BY <1>9, <4>1, <5>1
        <5>3. \E i \in DOMAIN held' : held'[i] = calls'[k].node
          BY <4>2, <5>1, <5>2 DEF IsHeld
        <5> QED
          BY <5>3 DEF IsHeld
      <4> QED
        BY <1>4, <4>1, <4>2, <4>3
    <3>3. CASE k = M + 1
      <4>1. \E i \in DOMAIN held' : held'[i] = calls'[k].node
        BY <1>3, <1>5, <1>7, <3>3
      <4> QED
        BY <1>4, <1>7, <3>3, <4>1 DEF IsHeld
    <3> QED
      BY <3>1, <3>2, <3>3
  <2> QED
    BY <2>1, <2>2, <2>3, <2>4, <2>5, <2>6 DEF NumberInv
<1>16. VisitedInv'
  <2>1. ASSUME NEW w \in Nodes, Visited(w)', ~IsCalling(w)' PROVE \A v \in edges[w] : Visited(v)'
    <3>1. Visited(w) /\ ~IsCalling(w)
      BY <1>12, <1>13, <2>1
    <3> QED
      BY <1>2, <1>3, <1>12, <3>1 DEF VisitedInv
  <2>2. ASSUME NEW k \in DOMAIN calls', NEW v \in edges[calls'[k].node] \ calls'[k].left PROVE Visited(v)'
    <3>1. k \in 1 .. M \/ k = M + 1
      BY <1>3, <1>6
    <3>2. k # M + 1
      BY <1>7, <2>2
    <3>3. (v \in edges[calls[k].node] /\ v \notin calls[k].left) \/ v = u
      BY <1>7, <2>2, <3>1, <3>2
    <3>4. v \in Nodes
      BY <1>3, <1>7, <2>2, <3>1, <3>2
    <3> QED
      BY <1>2, <1>3, <1>12, <3>1, <3>2, <3>3, <3>4 DEF VisitedInv
  <2>3. ASSUME NEW w \in Nodes, Closed(w)' PROVE \A v \in edges[w] : Closed(v)'
    BY <1>2, <1>3, <1>12, <2>3 DEF VisitedInv
  <2> QED
    BY <1>4, <1>8, <2>1, <2>2, <2>3 DEF VisitedInv
<1>17. HeldInv'
  <2>1. ASSUME NEW k \in 1 .. M + 1, NEW y \in Nodes, IsHeld(y)', index'[calls'[k].node] <= index'[y]
        PROVE  Reaches(calls'[k].node, y)
    <3>1. CASE k = M + 1
      <4>1. y = u
        BY <1>3, <1>7, <1>9, <1>10, <1>12, <2>1, <3>1
      <4> QED
        BY <1>7, <3>1, <4>1, ReachesItself
    <3>2. CASE k \in 1 .. M /\ y # u
      <4>1. IsHeld(y) /\ index[calls[k].node] <= index[y]
        BY <1>7, <1>9, <1>10, <1>11, <2>1, <3>2
      <4> QED
        BY <1>2, <1>3, <1>7, <3>2, <4>1 DEF HeldInv
    <3>3. CASE k \in 1 .. M /\ y = u
      <4>1. M \in 1 .. M /\ calls # <<>> /\ Current = calls[M]
        BY <1>1, <1>3, <3>3 DEF Current
      <4>2. u \in edges[calls[M].node]
        BY <4>1
      <4>3. index[calls[k].node] <= index[calls[M].node]
        <5>1. k = M \/ k < M
          BY <1>3, <3>3
        <5>2. index[calls[M].node] \in Nat
          BY <1>3, <4>1
        <5>3. CASE k = M
          BY <5>2, <5>3
        <5>4. CASE k < M
          <6>1. index[calls[k].node] < index[calls[M].node]
            BY <1>2, <1>3, <3>3, <4>1, <5>4 DEF NumberInv
          <6>2. index[calls[k].node] \in Nat
            BY <1>3, <3>3
          <6> QED
            BY <5>2, <6>1, <6>2
        <5> QED
          BY <5>1, <5>3, <5>4
      <4>4. Reaches(calls[k].node, calls[M].node)
        BY <1>2, <1>3, <1>11, <3>3, <4>1, <4>3 DEF HeldInv
      <4>5. Reaches(calls[M].node, u)
        BY <1>3, <4>1, <4>2, ReachesNext
      <4> QED
        BY <1>7, <3>3, <4>4, <4>5, ReachesOn
    <3> QED
      BY <1>3, <3>1, <3>2, <3>3
  <2>2. ASSUME NEW y \in Nodes, IsHeld(y)'
        PROVE  \E k \in 1 .. M + 1 : index'[calls'[k].node] <= index'[y] /\ Reaches(y, calls'[k].node)
    <3>1. CASE y = u
      BY <1>3, <1>7, <1>12, <3>1, ReachesItself
    <3>2. CASE y # u
      <4>1. IsHeld(y)
        BY <1>9, <2>2, <3>2
      <4>2. PICK k \in 1 .. M : index[calls[k].node] <= index[y] /\ Reaches(y, calls[k].node)
        BY <1>2, <1>3, <4>1 DEF HeldInv
      <4>3. k \in 1 .. M + 1
        BY <1>3
      <4> QED
        BY <1>7, <1>10, <1>11, <4>1, <4>2, <4>3
    <3> QED
      BY <3>1, <3>2
  <2> QED
    BY <1>6, <1>8, <2>1, <2>2 DEF HeldInv
<1>18. LowInv'
  <2>1. ASSUME NEW y \in Nodes, IsHeld(y)'
        PROVE  \E z \in Nodes : IsHeld(z)' /\ low'[y] = index'[z] /\ index'[z] <= index'[y] /\ Reaches(y, z)
    <3>1. CASE y = u
      BY <1>3, <1>9, <1>12, <3>1, ReachesItself
    <3>2. CASE y # u
      <4>1. IsHeld(y)
        BY <1>9, <2>1, <3>2
      <4>2. PICK z \in Nodes : IsHeld(z) /\ low[y] = index[z] /\ index[z] <= index[y] /\ Reaches(y, z)
        BY <1>2, <4>1 DEF LowInv
      <4> QED
        BY <1>9, <1>10, <4>1, <4>2
    <3> QED
      BY <3>1, <3>2
  <2>2. ASSUME NEW k \in 1 .. M + 1, NEW y \in Nodes, IsHeld(y)', index'[calls'[k].node] <= index'[y],
               k < M + 1 => index'[y] < index'[calls'[k + 1].node],
               NEW z \in edges[y], IsHeld(z)', y = calls'[k].node => z \notin calls'[k].left
        PROVE  low'[calls'[k].node] <= index'[z]
    <3>1. CASE k = M + 1
      <4>1. y = u
        <5>1. c <= index'[y]
          BY <1>7, <1>12, <2>2, <3>1
        <5>2. y # u => index'[y] = index[y]
          BY <1>9, <1>10, <2>2
        <5>3. index[y] \in Nat /\ index[y] < c
          BY <1>3
        <5> QED
          BY <1>3, <5>1, <5>2, <5>3
      <4> QED
        BY <1>7, <2>2, <3>1, <4>1
    <3>2. CASE k \in 1 .. M
      <4>1. y # u
        <5>1. k + 1 \in 1 .. M \/ k = M
          BY <1>3, <3>2
        <5>2. CASE k = M
          <6>1. index'[y] < index'[calls'[M + 1].node]
            BY <1>3, <2>2, <5>2
          <6>2. index'[y] < c
            BY <1>7, <1>12, <6>1
          <6> QED
            BY <1>3, <1>12, <6>2
        <5>3. CASE k + 1 \in 1 .. M
          <6>1. calls'[k + 1].node = calls[k + 1].node /\ index'[calls[k + 1].node] = index[calls[k + 1].node]
            BY <1>7, <1>11, <5>3
          <6>2. index[calls[k + 1].node] \in Nat /\ index[calls[k + 1].node] < c
            BY <1>3, <5>3
          <6>3. k < M + 1
            BY <1>3, <3>2
          <6>4. index'[y] < index'[calls'[k + 1].node]
            BY <2>2, <6>3
          <6>5. index'[y] < index[calls[k + 1].node]
            BY <6>1, <6>4
          <6>6. index'[y] # c \/ index'[y] \notin Nat
            BY <1>3, <6>2, <6>5
          <6> QED
            BY <1>3, <1>12, <6>6
        <5> QED
          BY <5>1, <5>2, <5>3
      <4>2. IsHeld(y) /\ index[calls[k].node] <= index[y]
        BY <1>7, <1>9, <1>10, <1>11, <2>2, <3>2, <4>1
      <4>3. CASE z = u
        <5>1. low[calls[k].node] <= index[calls[k].node]
          BY <1>2, <1>3, <1>11, <3>2 DEF LowInv
        <5>2. /\ calls'[k].node = calls[k].node /\ low'[calls[k].node] = low[calls[k].node]
              /\ index'[z] = c
          BY <1>7, <1>11, <1>12, <3>2, <4>3
        <5>3. index[calls[k].node] \in Nat /\ low[calls[k].node] \in Nat /\ index[calls[k].node] < c
          BY <1>3, <3>2
        <5>4. low[calls[k].node] <= c
          BY <1>3, <5>1, <5>3
        <5> QED
          BY <5>2, <5>4
      <4>4. CASE z # u
        <5>1. IsHeld(z)
          BY <1>9, <2>2, <4>4
        <5>2. y = calls[k].node => z \notin calls[k].left
          BY <1>7, <2>2, <3>2, <4>4
        <5>3. k < Len(calls) => index[y] < index[calls[k + 1].node]
          BY <1>1, <1>3, <1>7, <1>10, <1>11, <2>2, <3>2, <4>2
        <5>4. low[calls[k].node] <= index[z]
          BY <1>2, <1>3, <3>2, <4>2, <5>1, <5>2, <5>3 DEF LowInv
        <5> QED
          BY <1>7, <1>10, <1>11, <3>2, <5>1, <5>4
      <4> QED
        BY <4>3, <4>4
    <3> QED
      BY <1>3, <3>1, <3>2
  <2> QED
    BY <1>4, <1>6, <1>8, <2>1, <2>2 DEF LowInv
<1>19. ClosedInv'
  BY <1>2, <1>4, <1>8, <1>12, GraphFacts DEF ClosedInv
<1> QED
  BY <1>14, <1>15, <1>16, <1>17, <1>18, <1>19 DEF ComponentsInv

(* The visit on top, and what is left of its references when one was looked at. *)
LEMMA SeenFacts ==
    ASSUME ComponentsInv, NEW v, LooksAt(v)
    PROVE  /\ Len(calls) \in 1 .. Len(calls) /\ Len(calls) \in DOMAIN calls
           /\ Current = calls[Len(calls)]
           /\ v \in edges[Current.node] /\ v \in Nodes /\ Current.node \in Nodes
           /\ IsHeld(Current.node)
           /\ Seen(v) \in Seq([node : Nodes, left : SUBSET Nodes]) /\ Len(Seen(v)) = Len(calls)
           /\ DOMAIN Seen(v) = DOMAIN calls
           /\ \A k \in DOMAIN calls : /\ Seen(v)[k].node = calls[k].node
                                      /\ Seen(v)[k].left \subseteq calls[k].left
                                      /\ calls[k].left \subseteq Seen(v)[k].left \cup {v}
           /\ Seen(v)[Len(calls)].left = Current.left \ {v}
           /\ \A k \in DOMAIN calls : k # Len(calls) => Seen(v)[k] = calls[k]
<1>1. PICK c, M, n, l : c = calls /\ M = Len(calls) /\ n = Current.node /\ l = Current.left
  OBVIOUS
<1>2. ComponentsTypeOK /\ NumberInv
  BY DEF ComponentsInv
<1>3. PICK R : R = [node : Nodes, left : SUBSET Nodes]
  OBVIOUS
<1>4. c \in Seq(R) /\ c # <<>>
  BY <1>1, <1>2, <1>3 DEF ComponentsTypeOK, LooksAt
<1>5. M \in Nat /\ M = Len(c) /\ DOMAIN c = 1 .. M /\ M \in 1 .. M /\ \A k \in 1 .. M : c[k] \in R
  BY <1>1, <1>4
<1>6. Current = c[M]
  BY <1>1 DEF Current
<1>7. n = c[M].node /\ l = c[M].left
  BY <1>1, <1>6
<1>8. c[M] = [node |-> n, left |-> l] /\ n \in Nodes /\ l \subseteq Nodes
  BY <1>3, <1>5, <1>7
<1>9. v \in l /\ l \subseteq edges[n] /\ IsHeld(n)
  BY <1>1, <1>2, <1>5, <1>7 DEF LooksAt, NumberInv
<1>10. PICK d : d = Seen(v)
  OBVIOUS
<1>11. d = [c EXCEPT ![M] = [node |-> n, left |-> l \ {v}]]
  <2>1. d = [c EXCEPT ![M].left = @ \ {v}]
    BY <1>1, <1>10 DEF Seen
  <2>2. [c[M] EXCEPT !.left = @ \ {v}] = [node |-> n, left |-> l \ {v}]
    BY <1>8
  <2> QED
    BY <1>5, <2>1, <2>2
<1>12. [node |-> n, left |-> l \ {v}] \in R
  BY <1>3, <1>8
<1>13. /\ d \in Seq(R) /\ Len(d) = M /\ DOMAIN d = 1 .. M
       /\ d[M] = [node |-> n, left |-> l \ {v}]
       /\ \A k \in 1 .. M : k # M => d[k] = c[k]
  BY <1>4, <1>5, <1>11, <1>12
<1>14. ASSUME NEW k \in 1 .. M
       PROVE  d[k].node = c[k].node /\ d[k].left \subseteq c[k].left /\ c[k].left \subseteq d[k].left \cup {v}
  BY <1>7, <1>13
<1>15. d[M].left = l \ {v}
  BY <1>13
<1> QED
  BY <1>1, <1>3, <1>5, <1>6, <1>8, <1>9, <1>10, <1>13, <1>14, <1>15

LEMMA LookedAtKeeps ==
    ASSUME ComponentsInv, NEW v, LooksAt(v), index[v] # 0,
           calls' = Seen(v), UNCHANGED <<edges, index, counter, held, component>>,
           low' = IF IsHeld(v) THEN [low EXCEPT ![Current.node] = Min({@, index[v]})] ELSE low
    PROVE  ComponentsInv'
<1>1. PICK M, n : M = Len(calls) /\ n = Current.node
  OBVIOUS
<1>2. ComponentsTypeOK /\ NumberInv /\ VisitedInv /\ HeldInv /\ LowInv /\ ClosedInv
  BY DEF ComponentsInv
<1>3. /\ M \in 1 .. M /\ DOMAIN calls = 1 .. M /\ Len(calls') = M /\ DOMAIN calls' = 1 .. M
      /\ n = calls[M].node /\ n \in Nodes /\ v \in Nodes /\ v \in edges[n] /\ IsHeld(n)
      /\ calls' \in Seq([node : Nodes, left : SUBSET Nodes])
      /\ \A k \in 1 .. M : /\ calls'[k].node = calls[k].node
                           /\ calls'[k].left \subseteq calls[k].left
                           /\ calls[k].left \subseteq calls'[k].left \cup {v}
      /\ \A k \in 1 .. M : k # M => calls'[k] = calls[k]
      /\ calls'[M].left = calls[M].left \ {v}
      /\ M \in Nat
  <2>1. PICK s : s = Seen(v)
    OBVIOUS
  <2>2. Len(calls) \in Nat /\ DOMAIN calls = 1 .. Len(calls)
    BY <1>2, GraphFacts
  <2>3. Len(calls) \in 1 .. Len(calls) /\ Current = calls[Len(calls)]
        /\ v \in edges[Current.node] /\ v \in Nodes /\ Current.node \in Nodes /\ IsHeld(Current.node)
    BY SeenFacts
  <2>4. /\ s \in Seq([node : Nodes, left : SUBSET Nodes]) /\ Len(s) = Len(calls) /\ DOMAIN s = DOMAIN calls
        /\ \A k \in DOMAIN calls : /\ s[k].node = calls[k].node /\ s[k].left \subseteq calls[k].left
                                   /\ calls[k].left \subseteq s[k].left \cup {v}
        /\ s[Len(calls)].left = Current.left \ {v}
        /\ \A k \in DOMAIN calls : k # Len(calls) => s[k] = calls[k]
    <3>1. /\ Seen(v) \in Seq([node : Nodes, left : SUBSET Nodes]) /\ Len(Seen(v)) = Len(calls)
          /\ DOMAIN Seen(v) = DOMAIN calls
          /\ \A k \in DOMAIN calls : /\ Seen(v)[k].node = calls[k].node
                                     /\ Seen(v)[k].left \subseteq calls[k].left
                                     /\ calls[k].left \subseteq Seen(v)[k].left \cup {v}
          /\ Seen(v)[Len(calls)].left = Current.left \ {v}
          /\ \A k \in DOMAIN calls : k # Len(calls) => Seen(v)[k] = calls[k]
      BY SeenFacts
    <3> QED
      BY <2>1, <3>1, Zenon
  <2>5. calls' = s
    BY <2>1
  <2>6. M \in Nat /\ DOMAIN calls = 1 .. M /\ M \in 1 .. M /\ n = calls[M].node /\ n \in Nodes /\ v \in edges[n]
        /\ IsHeld(n)
    BY <1>1, <2>2, <2>3
  <2>7. \A k \in 1 .. M : /\ calls'[k].node = calls[k].node /\ calls'[k].left \subseteq calls[k].left
                          /\ calls[k].left \subseteq calls'[k].left \cup {v}
    BY <2>4, <2>5, <2>6, Zenon
  <2>8. calls'[M].left = calls[M].left \ {v}
    BY <1>1, <2>3, <2>4, <2>5, Zenon
  <2> QED
    BY <1>1, <2>3, <2>4, <2>5, <2>6, <2>7, <2>8
<1>4. \A w \in Nodes : edges[w] \subseteq Nodes /\ index[w] \in Nat /\ low[w] \in Nat
  BY <1>2, GraphFacts
<1>5. \A k \in 1 .. M : calls[k].node \in Nodes /\ calls[k].left \subseteq Nodes /\ IsHeld(calls[k].node)
  BY <1>2, <1>3, GraphFacts DEF NumberInv
<1>6. /\ edges' = edges /\ index' = index /\ counter' = counter /\ held' = held /\ component' = component
      /\ Nodes' = Nodes
      /\ \A y, w : Reaches(y, w)' <=> Reaches(y, w)
      /\ \A y, w : Mutual(y, w)' <=> Mutual(y, w)
  BY SameReach
<1>7. \A y : (IsHeld(y)' <=> IsHeld(y)) /\ (Visited(y)' <=> Visited(y)) /\ (Closed(y)' <=> Closed(y))
  BY <1>6 DEF IsHeld, Visited, Closed
<1>8. \A y : IsCalling(y)' <=> IsCalling(y)
  BY <1>3 DEF IsCalling
<1>9. /\ \A w \in Nodes : w # n => low'[w] = low[w]
      /\ IsHeld(v) => low'[n] = Min({low[n], index[v]})
      /\ ~IsHeld(v) => low'[n] = low[n]
      /\ low' \in [Nodes -> Nat]
  <2>1. Min({low[n], index[v]}) \in Nat
    BY <1>3, <1>4, LowerFacts
  <2>2. CASE IsHeld(v)
    BY <1>1, <1>2, <1>3, <2>1, <2>2 DEF ComponentsTypeOK
  <2>3. CASE ~IsHeld(v)
    BY <1>2, <2>3 DEF ComponentsTypeOK
  <2> QED
    BY <2>2, <2>3
<1>10. /\ \A w \in Nodes : low'[w] <= low[w]
       /\ low'[n] = low[n] \/ (IsHeld(v) /\ low'[n] = index[v] /\ index[v] < low[n])
       /\ IsHeld(v) => low'[n] <= index[v]
  <2>1. PICK l : l = Min({low[n], index[v]})
    OBVIOUS
  <2>2. low[n] \in Nat /\ index[v] \in Nat
    BY <1>3, <1>4
  <2>3. l \in Nat /\ l <= low[n] /\ l <= index[v] /\ (l = low[n] \/ (l = index[v] /\ index[v] < low[n]))
    BY <2>1, <2>2, LowerFacts
  <2>4. /\ \A w \in Nodes : w # n => low'[w] = low[w]
        /\ IsHeld(v) => low'[n] = l
        /\ ~IsHeld(v) => low'[n] = low[n]
    BY <1>9, <2>1
  <2>5. low'[n] <= low[n] /\ (IsHeld(v) => low'[n] <= index[v])
    BY <2>2, <2>3, <2>4
  <2>6. low'[n] = low[n] \/ (IsHeld(v) /\ low'[n] = index[v] /\ index[v] < low[n])
    BY <2>2, <2>3, <2>4
  <2>7. ASSUME NEW w \in Nodes PROVE low'[w] <= low[w]
    <3>1. low[w] \in Nat
      BY <1>4
    <3> QED
      BY <2>4, <2>5, <3>1
  <2> QED
    BY <2>5, <2>6, <2>7
<1>11. ComponentsTypeOK'
  BY <1>2, <1>3, <1>6, <1>9 DEF ComponentsTypeOK, IsGraph
<1>12. NumberInv'
  <2>1. ASSUME NEW k \in 1 .. M PROVE IsHeld(calls'[k].node) /\ calls'[k].left \subseteq edges[calls'[k].node]
    BY <1>2, <1>3, <2>1 DEF NumberInv
  <2>2. \A k \in 1 .. M : (IsHeld(calls[k].node) /\ calls[k].left \subseteq edges[calls[k].node])'
    BY <1>6, <2>1 DEF IsHeld
  <2>3. ASSUME NEW j \in 1 .. M, NEW k \in 1 .. M, j < k PROVE index[calls'[j].node] < index[calls'[k].node]
    BY <1>2, <1>3, <2>3 DEF NumberInv
  <2> QED
    BY <1>2, <1>3, <1>6, <2>2, <2>3 DEF NumberInv
<1>13. VisitedInv'
  <2>1. ASSUME NEW k \in 1 .. M, NEW w \in edges[calls[k].node], w \notin calls'[k].left PROVE Visited(w)
    <3>1. CASE w = v
      BY <3>1 DEF Visited
    <3>2. CASE w # v
      BY <1>2, <1>3, <2>1, <3>2 DEF VisitedInv
    <3> QED
      BY <3>1, <3>2
  <2>2. \A k \in 1 .. M : \A w \in edges'[calls'[k].node] \ calls'[k].left : Visited(w)'
    BY <1>3, <1>6, <1>7, <2>1
  <2>3. \A y \in Nodes : Visited(y)' /\ ~IsCalling(y)' => \A w \in edges'[y] : Visited(w)'
    BY <1>2, <1>6, <1>7, <1>8 DEF VisitedInv
  <2>4. \A y \in Nodes : Closed(y)' => \A w \in edges'[y] : Closed(w)'
    BY <1>2, <1>6, <1>7 DEF VisitedInv
  <2> QED
    BY <1>3, <1>6, <2>2, <2>3, <2>4 DEF VisitedInv
<1>14. HeldInv'
  <2>1. ASSUME NEW k \in 1 .. M, NEW y \in Nodes, IsHeld(y), index[calls'[k].node] <= index[y]
        PROVE  Reaches(calls'[k].node, y)
    BY <1>2, <1>3, <2>1 DEF HeldInv
  <2>2. ASSUME NEW y \in Nodes, IsHeld(y)
        PROVE  \E k \in 1 .. M : index[calls'[k].node] <= index[y] /\ Reaches(y, calls'[k].node)
    BY <1>2, <1>3, <2>2 DEF HeldInv
  <2> QED
    BY <1>3, <1>6, <1>7, <2>1, <2>2 DEF HeldInv
<1>15. LowInv'
  <2>1. ASSUME NEW y \in Nodes, IsHeld(y)
        PROVE  \E z \in Nodes : IsHeld(z) /\ low'[y] = index[z] /\ index[z] <= index[y] /\ Reaches(y, z)
    <3>1. PICK z \in Nodes : IsHeld(z) /\ low[y] = index[z] /\ index[z] <= index[y] /\ Reaches(y, z)
      BY <1>2, <2>1 DEF LowInv
    <3>2. CASE low'[y] = low[y]
      BY <3>1, <3>2
    <3>3. CASE low'[y] # low[y]
      <4>1. y = n /\ IsHeld(v) /\ low'[y] = index[v] /\ index[v] < low[y]
        BY <1>9, <1>10, <3>3
      <4>2. index[v] \in Nat /\ low[y] \in Nat /\ index[y] \in Nat
        BY <1>3, <1>4
      <4>3. index[v] <= index[y]
        BY <3>1, <4>1, <4>2
      <4>4. Reaches(y, v)
        BY <1>3, <4>1, ReachesNext
      <4> QED
        BY <1>3, <4>1, <4>3, <4>4
    <3> QED
      BY <3>2, <3>3
  <2>2. ASSUME NEW k \in 1 .. M, NEW y \in Nodes, IsHeld(y), index[calls[k].node] <= index[y],
               k < M => index[y] < index[calls[k + 1].node],
               NEW z \in edges[y], IsHeld(z), y = calls[k].node => z \notin calls'[k].left
        PROVE  low'[calls[k].node] <= index[z]
    <3>1. low'[calls[k].node] <= low[calls[k].node] /\ z \in Nodes /\ index[z] \in Nat
          /\ low[calls[k].node] \in Nat
      BY <1>4, <1>5, <1>10
    <3>2. CASE k = M /\ y = n /\ z = v
      BY <1>3, <1>10, <2>2, <3>2
    <3>3. CASE ~(k = M /\ y = n /\ z = v)
      <4>1. y = calls[k].node => z \notin calls[k].left
        <5>1. CASE k = M
          BY <1>3, <2>2, <3>3, <5>1
        <5>2. CASE k # M
          BY <1>3, <2>2, <5>2
        <5> QED
          BY <5>1, <5>2
      <4>2. low[calls[k].node] <= index[z]
        BY <1>1, <1>2, <1>3, <2>2, <4>1 DEF LowInv
      <4>3. low'[calls[k].node] \in Nat
        BY <1>5, <1>9
      <4> QED
        BY <3>1, <4>2, <4>3
    <3> QED
      BY <3>2, <3>3
  <2>3. ASSUME NEW k \in 1 .. M, NEW y \in Nodes, IsHeld(y), index[calls'[k].node] <= index[y],
               k < M => index[y] < index[calls'[k + 1].node],
               NEW z \in edges[y], IsHeld(z), y = calls'[k].node => z \notin calls'[k].left
        PROVE  low'[calls'[k].node] <= index[z]
    <3>1. k < M => k + 1 \in 1 .. M
      BY <1>3
    <3>2. k < M => calls'[k + 1].node = calls[k + 1].node
      BY <1>3, <3>1
    <3> QED
      BY <1>3, <2>2, <2>3, <3>2
  <2> QED
    BY <1>3, <1>6, <1>7, <2>1, <2>3 DEF LowInv
<1>16. ClosedInv'
  BY <1>2, <1>6, <1>7 DEF ClosedInv
<1> QED
  BY <1>11, <1>12, <1>13, <1>14, <1>15, <1>16 DEF ComponentsInv

(* A visit that returns, and the stack without it. *)
LEMMA ReturningFacts ==
    ASSUME ComponentsInv, calls # <<>>, NEW d, d = SubSeq(calls, 1, Len(calls) - 1)
    PROVE  /\ Len(calls) \in 1 .. Len(calls) /\ DOMAIN calls = 1 .. Len(calls) /\ Len(calls) \in Nat
           /\ Current = calls[Len(calls)] /\ Current.node \in Nodes /\ IsHeld(Current.node)
           /\ d \in Seq([node : Nodes, left : SUBSET Nodes])
           /\ Len(d) = Len(calls) - 1
           /\ DOMAIN d = 1 .. Len(calls) - 1
           /\ \A k \in 1 .. Len(calls) - 1 : d[k] = calls[k]
<1>1. ComponentsTypeOK /\ NumberInv
  BY DEF ComponentsInv
<1>2. PICK R : R = [node : Nodes, left : SUBSET Nodes]
  OBVIOUS
<1>3. calls \in Seq(R)
  BY <1>1, <1>2 DEF ComponentsTypeOK
<1>4. Len(calls) \in Nat /\ DOMAIN calls = 1 .. Len(calls) /\ Len(calls) \in 1 .. Len(calls)
  BY <1>3
<1>5. Len(calls) - 1 \in 0 .. Len(calls)
  BY <1>4
<1>6. /\ d \in Seq(R) /\ Len(d) = Len(calls) - 1 /\ DOMAIN d = 1 .. Len(calls) - 1
      /\ \A k \in 1 .. Len(calls) - 1 : d[k] = calls[k]
  <2>1. PICK m : m = Len(calls) - 1
    OBVIOUS
  <2>2. m \in 0 .. Len(calls) /\ d = SubSeq(calls, 1, m)
    BY <1>5, <2>1
  <2>3. d \in Seq(R) /\ Len(d) = m /\ DOMAIN d = 1 .. m /\ \A k \in 1 .. m : d[k] = calls[k]
    BY <1>3, <2>2, PrefixFacts
  <2> QED
    BY <2>1, <2>3
<1>7. Current = calls[Len(calls)] /\ Current.node \in Nodes /\ IsHeld(Current.node)
  BY <1>1, <1>4, GraphFacts DEF Current, NumberInv
<1> QED
  BY <1>2, <1>4, <1>6, <1>7

EntriesOf(s) == {s[i] : i \in DOMAIN s}

(* The stack from u on: what is held and was visited since u.              *)
LEMMA MemberFacts ==
    ASSUME ComponentsInv, NEW u, IsHeld(u), NEW h, h = SubSeq(held, 1, PlaceOf(u) - 1)
    PROVE  /\ Members(u) = {y \in Nodes : IsHeld(y) /\ index[u] <= index[y]}
           /\ h \in Seq(Nodes)
           /\ \A i \in DOMAIN h : i \in DOMAIN held /\ h[i] = held[i]
           /\ EntriesOf(h) = {y \in Nodes : IsHeld(y) /\ index[y] < index[u]}
<1>1. ComponentsTypeOK /\ NumberInv
  BY DEF ComponentsInv
<1>2. PICK L, p : L = Len(held) /\ p = PlaceOf(u)
  OBVIOUS
<1>3. L \in Nat /\ DOMAIN held = 1 .. L /\ \A i \in 1 .. L : held[i] \in Nodes /\ index[held[i]] \in Nat
  BY <1>1, <1>2, GraphFacts
<1>4. p \in 1 .. L /\ held[p] = u
  BY <1>2, <1>3, Zenon DEF IsHeld, PlaceOf
<1>5. \A i, j \in 1 .. L : i < j => index[held[i]] < index[held[j]]
  BY <1>1, <1>3 DEF NumberInv
<1>6. ASSUME NEW i \in 1 .. L PROVE (p <= i <=> index[u] <= index[held[i]]) /\ (i < p <=> index[held[i]] < index[u])
  <2>1. i < p \/ i = p \/ p < i
    BY <1>3, <1>4
  <2>2. index[u] \in Nat /\ index[held[i]] \in Nat /\ i \in Nat /\ p \in Nat
    BY <1>3, <1>4
  <2>3. i < p => index[held[i]] < index[u]
    BY <1>4, <1>5
  <2>4. p < i => index[u] < index[held[i]]
    BY <1>4, <1>5
  <2>5. i = p => index[u] = index[held[i]]
    BY <1>4
  <2> QED
    BY <2>1, <2>2, <2>3, <2>4, <2>5
<1>7. Members(u) = {held[i] : i \in p .. L}
  BY <1>2 DEF Members
<1>8. Members(u) = {y \in Nodes : IsHeld(y) /\ index[u] <= index[y]}
  <2>1. ASSUME NEW i \in p .. L PROVE held[i] \in Nodes /\ IsHeld(held[i]) /\ index[u] <= index[held[i]]
    <3>1. i \in 1 .. L /\ p <= i
      BY <1>3, <1>4
    <3> QED
      BY <1>3, <1>6, <3>1 DEF IsHeld
  <2>2. ASSUME NEW y \in Nodes, IsHeld(y), index[u] <= index[y] PROVE \E i \in p .. L : held[i] = y
    <3>1. PICK i \in 1 .. L : held[i] = y
      BY <1>3, <2>2 DEF IsHeld
    <3>2. p <= i
      BY <1>6, <2>2, <3>1
    <3> QED
      BY <1>3, <1>4, <3>1, <3>2
  <2> QED
    BY <1>7, <2>1, <2>2
<1>9. p - 1 \in 0 .. L
  BY <1>3, <1>4
<1>10. /\ h \in Seq(Nodes) /\ DOMAIN h = 1 .. p - 1 /\ \A i \in 1 .. p - 1 : h[i] = held[i]
  BY <1>1, <1>2, <1>9, PrefixFacts DEF ComponentsTypeOK
<1>11. \A i \in 1 .. p - 1 : i \in 1 .. L
  BY <1>3, <1>4
<1>12. ASSUME NEW y PROVE (\E i \in DOMAIN h : h[i] = y) <=> IsHeld(y) /\ index[y] < index[u]
  <2>1. ASSUME NEW i \in DOMAIN h, h[i] = y PROVE IsHeld(y) /\ index[y] < index[u]
    <3>1. i \in 1 .. L /\ held[i] = y /\ i < p
      BY <1>4, <1>10, <1>11, <2>1
    <3> QED
      BY <1>3, <1>6, <3>1 DEF IsHeld
  <2>2. ASSUME IsHeld(y), index[y] < index[u] PROVE \E i \in DOMAIN h : h[i] = y
    <3>1. PICK i \in 1 .. L : held[i] = y
      BY <1>3, <2>2 DEF IsHeld
    <3>2. i < p
      BY <1>6, <2>2, <3>1
    <3>3. i \in 1 .. p - 1
      BY <1>4, <3>2
    <3> QED
      BY <1>10, <3>1, <3>3
  <2> QED
    BY <2>1, <2>2
<1>13. EntriesOf(h) = {y \in Nodes : IsHeld(y) /\ index[y] < index[u]}
  BY <1>10, <1>12 DEF EntriesOf
<1> QED
  BY <1>3, <1>8, <1>10, <1>11, <1>13

(* A visit that finds nothing below its own unit has found a component.    *)
LEMMA MembersMutual ==
    ASSUME ComponentsInv, calls # <<>>, NEW u, u = Current.node, Current.left = {}, low[u] = index[u]
    PROVE  /\ u \in Members(u)
           /\ \A y \in Members(u) : y \in Nodes /\ IsHeld(y) /\ Mutual(u, y)
           /\ \A y \in Members(u) : \A z \in edges[y] : z \in Members(u) \/ Closed(z)
           /\ \A y \in Members(u) : \A v \in Nodes : Mutual(y, v) => v \in Members(u)
<1>1. PICK M : M = Len(calls)
  OBVIOUS
<1>2. ComponentsTypeOK /\ NumberInv /\ VisitedInv /\ HeldInv /\ LowInv /\ ClosedInv
  BY DEF ComponentsInv
<1>3. PICK d : d = SubSeq(calls, 1, Len(calls) - 1)
  OBVIOUS
<1>4. M \in Nat /\ M \in 1 .. M /\ DOMAIN calls = 1 .. M /\ u = calls[M].node /\ calls[M].left = {} /\ u \in Nodes
      /\ IsHeld(u)
  BY <1>1, <1>3, ReturningFacts
<1>5. PICK S : S = Members(u)
  OBVIOUS
<1>6. PICK h : h = SubSeq(held, 1, PlaceOf(u) - 1)
  OBVIOUS
<1>7. S = {y \in Nodes : IsHeld(y) /\ index[u] <= index[y]}
  BY <1>4, <1>5, <1>6, MemberFacts
<1>8. \A w \in Nodes : edges[w] \subseteq Nodes /\ index[w] \in Nat /\ low[w] \in Nat
  BY <1>2, GraphFacts
<1>9. u \in S
  BY <1>4, <1>7, <1>8
<1>10. \A k \in 1 .. M : calls[k].node \in Nodes /\ IsHeld(calls[k].node)
                        /\ (k = M \/ index[calls[k].node] < index[u])
  <2> TAKE k \in 1 .. M
  <2>1. calls[k].node \in Nodes /\ IsHeld(calls[k].node)
    BY <1>2, <1>4, GraphFacts DEF NumberInv
  <2>2. k = M \/ k < M
    BY <1>4
  <2>3. k < M => index[calls[k].node] < index[u]
    BY <1>2, <1>4 DEF NumberInv
  <2> QED
    BY <2>1, <2>2, <2>3
<1>11. ASSUME NEW y \in S PROVE Mutual(u, y)
  <2>1. y \in Nodes /\ IsHeld(y) /\ index[u] <= index[y]
    BY <1>7
  <2>2. Reaches(u, y)
    BY <1>2, <1>4, <2>1 DEF HeldInv
  <2>3. PICK k \in 1 .. M : index[calls[k].node] <= index[y] /\ Reaches(y, calls[k].node)
    BY <1>2, <1>4, <2>1 DEF HeldInv
  <2>4. CASE k = M
    BY <1>4, <2>2, <2>3, <2>4 DEF Mutual
  <2>5. CASE k # M
    <3>1. index[calls[k].node] < index[u] /\ index[calls[k].node] \in Nat /\ index[u] \in Nat
      BY <1>4, <1>8, <1>10, <2>5
    <3>2. Reaches(calls[k].node, u)
      BY <1>2, <1>4, <3>1 DEF HeldInv
    <3> QED
      BY <2>2, <2>3, <3>2, ReachesOn DEF Mutual
  <2> QED
    BY <2>4, <2>5
<1>12. ASSUME NEW y \in S, NEW z \in edges[y] PROVE z \in S \/ Closed(z)
  <2>1. y \in Nodes /\ IsHeld(y) /\ index[u] <= index[y] /\ z \in Nodes
    BY <1>7, <1>8
  <2>2. Visited(z)
    <3>1. CASE y = u
      BY <1>2, <1>4, <3>1 DEF VisitedInv
    <3>2. CASE y # u
      <4>1. ~IsCalling(y)
        <5>1. SUFFICES ASSUME NEW k \in 1 .. M, calls[k].node = y PROVE FALSE
          BY <1>4 DEF IsCalling
        <5>2. index[y] < index[u] /\ index[y] \in Nat /\ index[u] \in Nat
          BY <1>4, <1>8, <1>10, <2>1, <3>2, <5>1
        <5> QED
          BY <2>1, <5>2
      <4>2. Visited(y)
        BY <1>2, <2>1, HeldFacts DEF Visited
      <4> QED
        BY <1>2, <2>1, <4>1, <4>2 DEF VisitedInv
    <3> QED
      BY <3>1, <3>2
  <2>3. CASE IsHeld(z)
    <3>1. M < Len(calls) => FALSE
      BY <1>1, <1>4
    <3>2. low[u] <= index[z]
      BY <1>2, <1>4, <2>1, <2>3, <3>1 DEF LowInv
    <3> QED
      BY <1>7, <2>1, <2>3, <3>2
  <2>4. CASE ~IsHeld(z)
    BY <2>2, <2>4 DEF Closed, Visited
  <2> QED
    BY <2>3, <2>4
<1>13. ASSUME NEW y \in S, NEW v \in Nodes, Mutual(y, v) PROVE v \in S
  <2>1. PICK C : C = {w \in Nodes : Closed(w)}
    OBVIOUS
  <2>2. \A w \in C : edges[w] \subseteq C
    BY <1>2, <1>8, <2>1 DEF VisitedInv
  <2>3. C \cup S \in SUBSET Nodes /\ \A w \in C \cup S : edges[w] \subseteq C \cup S
    BY <1>7, <1>8, <1>12, <2>1, <2>2
  <2>4. v \in C \cup S
    BY <1>13, <2>3, ReachesWithin DEF Mutual
  <2>5. ASSUME v \in C PROVE FALSE
    <3>1. y \in C
      BY <1>13, <2>1, <2>2, <2>5, ReachesWithin DEF Mutual
    <3> QED
      BY <1>7, <2>1, <3>1 DEF Closed
  <2> QED
    BY <2>4, <2>5
<1> QED
  BY <1>5, <1>7, <1>9, <1>11, <1>12, <1>13

(* What the caller of a visit that returns takes over. *)
LEMMA CallerFacts ==
    ASSUME ComponentsInv, Return
    PROVE  /\ low' \in [Nodes -> Nat]
           /\ \A y \in Nodes : low'[y] <= low[y]
           /\ \A y \in Nodes : \/ low'[y] = low[y]
                               \/ /\ Len(calls) # 1 /\ y = calls[Len(calls) - 1].node
                                  /\ low'[y] = low[Current.node] /\ low'[y] < low[y]
           /\ Len(calls) # 1 => low'[calls[Len(calls) - 1].node] <= low[Current.node]
<1>1. PICK M, u, d : M = Len(calls) /\ u = Current.node /\ d = SubSeq(calls, 1, Len(calls) - 1)
  OBVIOUS
<1>2. ComponentsTypeOK /\ calls # <<>>
  BY DEF ComponentsInv, Return
<1>3. M \in Nat /\ M \in 1 .. M /\ DOMAIN calls = 1 .. M /\ u \in Nodes
  BY <1>1, <1>2, ReturningFacts
<1>4. \A w \in Nodes : low[w] \in Nat
  BY <1>2, GraphFacts
<1>5. low \in [Nodes -> Nat]
  BY <1>2 DEF ComponentsTypeOK
<1>6. CASE M = 1
  <2>1. low' = low
    BY <1>1, <1>6 DEF Return
  <2> QED
    BY <1>1, <1>4, <1>5, <1>6, <2>1
<1>7. CASE M # 1
  <2>1. M - 1 \in 1 .. M
    BY <1>3, <1>7
  <2>2. PICK p : p = calls[M - 1].node
    OBVIOUS
  <2>3. p \in Nodes
    BY <1>2, <1>3, <2>1, <2>2, GraphFacts
  <2>4. low' = [low EXCEPT ![p] = Min({@, low[u]})]
    BY <1>1, <1>7, <2>2 DEF Return
  <2>5. PICK n : n = Min({low[p], low[u]})
    OBVIOUS
  <2>6. n \in Nat /\ n <= low[p] /\ n <= low[u] /\ (n = low[p] \/ (n = low[u] /\ n < low[p]))
    BY <1>3, <1>4, <2>3, <2>5, LowerFacts
  <2>7. low' \in [Nodes -> Nat] /\ low'[p] = n /\ \A y \in Nodes : y # p => low'[y] = low[y]
    BY <1>5, <2>3, <2>4, <2>5, <2>6
  <2> QED
    BY <1>1, <1>4, <1>7, <2>2, <2>6, <2>7
<1> QED
  BY <1>6, <1>7

(* A visit returns, and what it has not popped stays as it was: h is what   *)
(* is held then.                                                           *)
LEMMA ReturnFacts ==
    ASSUME ComponentsInv, Return
    PROVE  /\ Len(calls) \in Nat /\ Len(calls) \in 1 .. Len(calls) /\ DOMAIN calls = 1 .. Len(calls)
           /\ Current = calls[Len(calls)] /\ Current.node \in Nodes /\ IsHeld(Current.node)
           /\ Current.left = {}
           /\ calls' \in Seq([node : Nodes, left : SUBSET Nodes])
           /\ Len(calls') = Len(calls) - 1 /\ DOMAIN calls' = 1 .. Len(calls) - 1
           /\ \A k \in 1 .. Len(calls) - 1 : k \in 1 .. Len(calls) /\ calls'[k] = calls[k]
           /\ edges' = edges /\ index' = index /\ counter' = counter /\ Nodes' = Nodes
           /\ \A y, w : Reaches(y, w)' <=> Reaches(y, w)
           /\ \A y, w : Mutual(y, w)' <=> Mutual(y, w)
           /\ \A y : Visited(y)' <=> Visited(y)
           /\ \A k \in 1 .. Len(calls) : calls[k].node \in Nodes /\ IsHeld(calls[k].node)
           /\ \A k \in 1 .. Len(calls) - 1 : index[calls[k].node] < index[Current.node]
           /\ \A y \in Nodes : IsCalling(y) <=> IsCalling(y)' \/ y = Current.node
<1>1. PICK M, u, d : M = Len(calls) /\ u = Current.node /\ d = SubSeq(calls, 1, Len(calls) - 1)
  OBVIOUS
<1>2. ComponentsTypeOK /\ NumberInv /\ calls # <<>> /\ calls' = d /\ Current.left = {}
  BY <1>1 DEF ComponentsInv, Return
<1>3. /\ M \in Nat /\ M \in 1 .. M /\ DOMAIN calls = 1 .. M /\ Current = calls[M] /\ u \in Nodes /\ IsHeld(u)
      /\ d \in Seq([node : Nodes, left : SUBSET Nodes]) /\ Len(d) = M - 1 /\ DOMAIN d = 1 .. M - 1
      /\ \A k \in 1 .. M - 1 : d[k] = calls[k]
  BY <1>1, <1>2, ReturningFacts
<1>4. edges' = edges /\ index' = index /\ counter' = counter /\ Nodes' = Nodes
      /\ (\A y, w : Reaches(y, w)' <=> Reaches(y, w)) /\ (\A y, w : Mutual(y, w)' <=> Mutual(y, w))
  BY SameReach DEF Return
<1>5. \A y : Visited(y)' <=> Visited(y)
  BY <1>4 DEF Visited
<1>6. \A k \in 1 .. M - 1 : k \in 1 .. M /\ k < M
  BY <1>3
<1>7. \A k \in 1 .. M : calls[k].node \in Nodes /\ IsHeld(calls[k].node)
  BY <1>2, <1>3, GraphFacts DEF NumberInv
<1>8. \A k \in 1 .. M - 1 : index[calls[k].node] < index[u]
  BY <1>1, <1>2, <1>3, <1>6 DEF NumberInv
<1>9. ASSUME NEW y \in Nodes PROVE IsCalling(y) <=> IsCalling(y)' \/ y = u
  <2>1. IsCalling(y) <=> \E k \in 1 .. M : calls[k].node = y
    BY <1>3 DEF IsCalling
  <2>2. IsCalling(y)' <=> \E k \in 1 .. M - 1 : calls[k].node = y
    BY <1>2, <1>3 DEF IsCalling
  <2>3. \A k \in 1 .. M : k \in 1 .. M - 1 \/ k = M
    BY <1>3
  <2> QED
    BY <1>1, <1>3, <1>6, <2>1, <2>2, <2>3
<1> QED
  BY <1>1, <1>2, <1>3, <1>4, <1>5, <1>6, <1>7, <1>8, <1>9

(* The visit's unit stays held: it has found one that was visited earlier. *)
LEMMA StayKeeps ==
    ASSUME ComponentsInv, Return, low[Current.node] # index[Current.node]
    PROVE  ComponentsInv'
<1>1. PICK M, u : M = Len(calls) /\ u = Current.node
  OBVIOUS
<1>2. ComponentsTypeOK /\ NumberInv /\ VisitedInv /\ HeldInv /\ LowInv /\ ClosedInv
  BY DEF ComponentsInv
<1>3. /\ M \in Nat /\ M \in 1 .. M /\ DOMAIN calls = 1 .. M /\ u = calls[M].node /\ u \in Nodes /\ IsHeld(u)
      /\ calls[M].left = {} /\ calls' \in Seq([node : Nodes, left : SUBSET Nodes])
      /\ Len(calls') = M - 1 /\ DOMAIN calls' = 1 .. M - 1
      /\ \A k \in 1 .. M - 1 : k \in 1 .. M /\ calls'[k] = calls[k]
      /\ \A k \in 1 .. M : calls[k].node \in Nodes /\ IsHeld(calls[k].node)
      /\ \A k \in 1 .. M - 1 : index[calls[k].node] < index[u]
      /\ \A y \in Nodes : IsCalling(y) <=> IsCalling(y)' \/ y = u
  BY <1>1, ReturnFacts
<1>4. /\ edges' = edges /\ index' = index /\ counter' = counter /\ Nodes' = Nodes
      /\ \A y, w : Reaches(y, w)' <=> Reaches(y, w)
      /\ \A y, w : Mutual(y, w)' <=> Mutual(y, w)
      /\ \A y : Visited(y)' <=> Visited(y)
  BY ReturnFacts
<1>5. held' = held /\ component' = component
  BY DEF Return, Closes
<1>6. \A y : (IsHeld(y)' <=> IsHeld(y)) /\ (Closed(y)' <=> Closed(y))
  BY <1>4, <1>5 DEF IsHeld, Closed
<1>7. \A w \in Nodes : edges[w] \subseteq Nodes /\ index[w] \in Nat /\ low[w] \in Nat
  BY <1>2, GraphFacts
<1>8. PICK z \in Nodes : IsHeld(z) /\ low[u] = index[z] /\ index[z] < index[u] /\ Reaches(u, z)
  <2>1. PICK z \in Nodes : IsHeld(z) /\ low[u] = index[z] /\ index[z] <= index[u] /\ Reaches(u, z)
    BY <1>2, <1>3 DEF LowInv
  <2>2. index[z] # index[u]
    BY <1>1, <2>1
  <2> QED
    BY <1>3, <1>7, <2>1, <2>2
<1>9. PICK c \in 1 .. M : index[calls[c].node] <= index[z] /\ Reaches(z, calls[c].node)
  BY <1>2, <1>3, <1>8 DEF HeldInv
<1>10. c \in 1 .. M - 1
  <2>1. c # M
    BY <1>3, <1>7, <1>8, <1>9
  <2> QED
    BY <1>3, <1>9, <2>1
<1>11. M # 1 /\ M - 1 \in 1 .. M - 1
  BY <1>3, <1>10
<1>12. PICK p : p = calls[M - 1].node
  OBVIOUS
<1>13. /\ p \in Nodes /\ IsHeld(p) /\ index[p] < index[u]
       /\ low' \in [Nodes -> Nat]
       /\ \A y \in Nodes : low'[y] <= low[y]
       /\ \A y \in Nodes : low'[y] = low[y] \/ (y = p /\ low'[y] = low[u] /\ low'[y] < low[y])
       /\ low'[p] <= low[u]
  BY <1>1, <1>3, <1>11, <1>12, CallerFacts
<1>14. ComponentsTypeOK'
  BY <1>2, <1>3, <1>4, <1>5, <1>13 DEF ComponentsTypeOK, IsGraph
<1>15. NumberInv'
  <2>1. \A k \in 1 .. M - 1 : (IsHeld(calls[k].node) /\ calls[k].left \subseteq edges[calls[k].node])'
    <3>1. ASSUME NEW k \in 1 .. M - 1 PROVE IsHeld(calls'[k].node) /\ calls'[k].left \subseteq edges[calls'[k].node]
      BY <1>2, <1>3, <3>1 DEF NumberInv
    <3> QED
      BY <1>4, <1>5, <3>1 DEF IsHeld
  <2>2. ASSUME NEW j \in 1 .. M - 1, NEW k \in 1 .. M - 1, j < k PROVE index[calls'[j].node] < index[calls'[k].node]
    BY <1>2, <1>3, <2>2 DEF NumberInv
  <2> QED
    BY <1>2, <1>3, <1>4, <1>5, <2>1, <2>2 DEF NumberInv
<1>16. VisitedInv'
  <2>1. ASSUME NEW y \in Nodes, Visited(y), ~IsCalling(y)', NEW w \in edges[y] PROVE Visited(w)
    <3>1. CASE y = u
      BY <1>2, <1>3, <2>1, <3>1 DEF VisitedInv
    <3>2. CASE y # u
      BY <1>2, <1>3, <2>1, <3>2 DEF VisitedInv
    <3> QED
      BY <3>1, <3>2
  <2>2. ASSUME NEW k \in 1 .. M - 1, NEW w \in edges[calls'[k].node], w \notin calls'[k].left PROVE Visited(w)
    BY <1>2, <1>3, <2>2 DEF VisitedInv
  <2>3. \A y \in Nodes : Closed(y)' => \A w \in edges'[y] : Closed(w)'
    BY <1>2, <1>4, <1>6 DEF VisitedInv
  <2>4. \A y \in Nodes : Visited(y)' /\ ~IsCalling(y)' => \A w \in edges'[y] : Visited(w)'
    BY <1>4, <2>1
  <2>5. \A k \in 1 .. M - 1 : \A w \in edges'[calls'[k].node] \ calls'[k].left : Visited(w)'
    BY <1>4, <2>2
  <2> QED
    BY <1>3, <1>4, <2>3, <2>4, <2>5 DEF VisitedInv
<1>17. HeldInv'
  <2>1. ASSUME NEW k \in 1 .. M - 1, NEW y \in Nodes, IsHeld(y), index[calls'[k].node] <= index[y]
        PROVE  Reaches(calls'[k].node, y)
    BY <1>2, <1>3, <2>1 DEF HeldInv
  <2>2. ASSUME NEW y \in Nodes, IsHeld(y)
        PROVE  \E k \in 1 .. M - 1 : index[calls'[k].node] <= index[y] /\ Reaches(y, calls'[k].node)
    <3>1. PICK k \in 1 .. M : index[calls[k].node] <= index[y] /\ Reaches(y, calls[k].node)
      BY <1>2, <1>3, <2>2 DEF HeldInv
    <3>2. CASE k # M
      <4>1. k \in 1 .. M - 1
        BY <1>3, <3>2
      <4> QED
        BY <1>3, <3>1, <4>1
    <3>3. CASE k = M
      <4>1. Reaches(y, calls[c].node)
        BY <1>3, <1>8, <1>9, <3>1, <3>3, ReachesOn
      <4>2. index[u] <= index[y]
        BY <1>3, <3>1, <3>3
      <4>3. index[calls[c].node] <= index[y]
        BY <1>3, <1>7, <1>8, <1>9, <4>2
      <4> QED
        BY <1>3, <1>10, <4>1, <4>3
    <3> QED
      BY <3>2, <3>3
  <2> QED
    BY <1>3, <1>4, <1>6, <2>1, <2>2 DEF HeldInv
<1>18. LowInv'
  <2>1. ASSUME NEW y \in Nodes, IsHeld(y)
        PROVE  \E x \in Nodes : IsHeld(x) /\ low'[y] = index[x] /\ index[x] <= index[y] /\ Reaches(y, x)
    <3>1. PICK x \in Nodes : IsHeld(x) /\ low[y] = index[x] /\ index[x] <= index[y] /\ Reaches(y, x)
      BY <1>2, <2>1 DEF LowInv
    <3>2. CASE low'[y] = low[y]
      BY <3>1, <3>2
    <3>3. CASE low'[y] # low[y]
      <4>1. y = p /\ low'[y] = low[u] /\ low'[y] < low[y]
        BY <1>13, <3>3
      <4>2. Reaches(p, u)
        <5>1. index[calls[M - 1].node] <= index[u] /\ M - 1 \in 1 .. M
          BY <1>3, <1>7, <1>11, <1>12, <1>13
        <5> QED
          BY <1>2, <1>3, <1>12, <5>1 DEF HeldInv
      <4>3. index[z] <= index[y]
        <5>1. index[x] \in Nat /\ index[z] \in Nat /\ index[y] \in Nat
          BY <1>7
        <5>2. index[z] < index[x]
          BY <1>8, <3>1, <4>1
        <5> QED
          BY <3>1, <5>1, <5>2
      <4>4. Reaches(y, z)
        BY <1>8, <4>1, <4>2, ReachesOn
      <4>5. low'[y] = index[z]
        BY <1>8, <4>1
      <4> QED
        BY <1>8, <4>3, <4>4, <4>5
    <3> QED
      BY <3>2, <3>3
  <2>2. ASSUME NEW k \in 1 .. M - 1, NEW y \in Nodes, IsHeld(y), index[calls[k].node] <= index[y],
               k < M - 1 => index[y] < index[calls[k + 1].node],
               NEW x \in edges[y], IsHeld(x), y = calls[k].node => x \notin calls[k].left
        PROVE  low'[calls[k].node] <= index[x]
    <3>1. /\ k \in 1 .. M /\ low'[calls[k].node] <= low[calls[k].node] /\ x \in Nodes /\ index[x] \in Nat
          /\ low[calls[k].node] \in Nat /\ low'[calls[k].node] \in Nat
      BY <1>3, <1>7, <1>13
    <3>2. CASE k < M => index[y] < index[calls[k + 1].node]
      <4>1. low[calls[k].node] <= index[x]
        BY <1>1, <1>2, <1>3, <2>2, <3>1, <3>2 DEF LowInv
      <4> QED
        BY <3>1, <4>1
    <3>3. CASE ~(k < M => index[y] < index[calls[k + 1].node])
      <4>1. k = M - 1
        BY <1>3, <2>2, <3>3
      <4>2. k + 1 = M
        BY <1>3, <4>1
      <4>3. index[u] <= index[y]
        BY <1>3, <1>7, <3>3, <4>2
      <4>4. y # u \/ x \notin calls[M].left
        BY <1>3
      <4>5. M < Len(calls) => FALSE
        BY <1>1, <1>3
      <4>6. low[u] <= index[x]
        BY <1>2, <1>3, <2>2, <4>3, <4>4, <4>5 DEF LowInv
      <4>7. low'[p] <= low[u] /\ low'[p] \in Nat /\ low[u] \in Nat
        BY <1>3, <1>7, <1>13
      <4> QED
        BY <1>12, <3>1, <4>1, <4>6, <4>7
    <3> QED
      BY <3>2, <3>3
  <2>3. ASSUME NEW k \in 1 .. M - 1, NEW y \in Nodes, IsHeld(y), index[calls'[k].node] <= index[y],
               k < M - 1 => index[y] < index[calls'[k + 1].node],
               NEW x \in edges[y], IsHeld(x), y = calls'[k].node => x \notin calls'[k].left
        PROVE  low'[calls'[k].node] <= index[x]
    <3>1. k < M - 1 => k + 1 \in 1 .. M - 1
      BY <1>3
    <3> QED
      BY <1>3, <2>2, <2>3, <3>1
  <2> QED
    BY <1>3, <1>4, <1>6, <2>1, <2>3 DEF LowInv
<1>19. ClosedInv'
  BY <1>2, <1>4, <1>5, <1>6 DEF ClosedInv
<1> QED
  BY <1>14, <1>15, <1>16, <1>17, <1>18, <1>19 DEF ComponentsInv

(* The visit's unit and all above it on the stack are a component. *)
LEMMA ComponentKeeps ==
    ASSUME ComponentsInv, Return, low[Current.node] = index[Current.node]
    PROVE  ComponentsInv'
<1>1. PICK M, u, S : M = Len(calls) /\ u = Current.node /\ S = Members(u)
  OBVIOUS
<1>2. ComponentsTypeOK /\ NumberInv /\ VisitedInv /\ HeldInv /\ LowInv /\ ClosedInv
  BY DEF ComponentsInv
<1>3. /\ M \in Nat /\ M \in 1 .. M /\ DOMAIN calls = 1 .. M /\ u = calls[M].node /\ u \in Nodes /\ IsHeld(u)
      /\ calls[M].left = {} /\ calls' \in Seq([node : Nodes, left : SUBSET Nodes])
      /\ Len(calls') = M - 1 /\ DOMAIN calls' = 1 .. M - 1
      /\ \A k \in 1 .. M - 1 : k \in 1 .. M /\ calls'[k] = calls[k]
      /\ \A k \in 1 .. M : calls[k].node \in Nodes /\ IsHeld(calls[k].node)
      /\ \A k \in 1 .. M - 1 : index[calls[k].node] < index[u]
      /\ \A y \in Nodes : IsCalling(y) <=> IsCalling(y)' \/ y = u
  BY <1>1, ReturnFacts
<1>4. /\ edges' = edges /\ index' = index /\ counter' = counter /\ Nodes' = Nodes
      /\ \A y, w : Reaches(y, w)' <=> Reaches(y, w)
      /\ \A y, w : Mutual(y, w)' <=> Mutual(y, w)
      /\ \A y : Visited(y)' <=> Visited(y)
  BY ReturnFacts
<1>5. /\ held' = SubSeq(held, 1, PlaceOf(u) - 1)
      /\ component' = [v \in Nodes |-> IF v \in S THEN Min(S) ELSE component[v]]
  BY <1>1 DEF Return, Closes
<1>6. /\ S = {y \in Nodes : IsHeld(y) /\ index[u] <= index[y]}
      /\ held' \in Seq(Nodes)
      /\ \A i \in DOMAIN held' : i \in DOMAIN held /\ held'[i] = held[i]
      /\ \A y : (\E i \in DOMAIN held' : held'[i] = y) <=> IsHeld(y) /\ index[y] < index[u]
  <2>1. PICK h : h = SubSeq(held, 1, PlaceOf(u) - 1)
    OBVIOUS
  <2>2. /\ Members(u) = {y \in Nodes : IsHeld(y) /\ index[u] <= index[y]}
        /\ h \in Seq(Nodes)
        /\ \A i \in DOMAIN h : i \in DOMAIN held /\ h[i] = held[i]
        /\ \A y : (\E i \in DOMAIN h : h[i] = y) <=> IsHeld(y) /\ index[y] < index[u]
    <3>1. IsHeld(u)
      BY <1>3
    <3>2. Members(u) = {y \in Nodes : IsHeld(y) /\ index[u] <= index[y]}
      BY <2>1, <3>1, MemberFacts
    <3>3. h \in Seq(Nodes)
      BY <2>1, <3>1, MemberFacts
    <3>4. \A i \in DOMAIN h : i \in DOMAIN held /\ h[i] = held[i]
      <4> TAKE i \in DOMAIN h
      <4> QED
        BY <2>1, <3>1, MemberFacts
    <3>5. EntriesOf(h) = {y \in Nodes : IsHeld(y) /\ index[y] < index[u]}
      BY <2>1, <3>1, MemberFacts
    <3>6. \A y : IsHeld(y) => y \in Nodes
      BY <1>2, HeldFacts
    <3>7. ASSUME NEW y PROVE (\E i \in DOMAIN h : h[i] = y) <=> IsHeld(y) /\ index[y] < index[u]
      BY <3>5, <3>6 DEF EntriesOf
    <3> QED
      BY <3>2, <3>3, <3>4, <3>7
  <2>3. held' = h
    BY <1>5, <2>1
  <2> QED
    BY <1>1, <2>2, <2>3
<1>7. \A y : IsHeld(y)' <=> IsHeld(y) /\ index[y] < index[u]
  BY <1>6 DEF IsHeld
<1>8. \A w \in Nodes : /\ edges[w] \subseteq Nodes /\ index[w] \in Nat /\ low[w] \in Nat /\ component[w] \in Nodes
                       /\ w \in Nat
  BY <1>2, GraphFacts
<1>9. /\ u \in S
      /\ \A y \in S : y \in Nodes /\ IsHeld(y) /\ Mutual(u, y)
      /\ \A y \in S : \A z \in edges[y] : z \in S \/ Closed(z)
      /\ \A y \in S : \A v \in Nodes : Mutual(y, v) => v \in S
  <2>1. calls # <<>> /\ Current.left = {} /\ low[u] = index[u]
    BY <1>1 DEF Return
  <2> QED
    BY <1>1, <2>1, MembersMutual
<1>10. ASSUME NEW y \in Nodes PROVE /\ Closed(y)' <=> Closed(y) \/ y \in S
                                    /\ ~(Closed(y) /\ y \in S)
  <2>1. Visited(y)' <=> index[y] # 0
    BY <1>4 DEF Visited
  <2>2. Closed(y)' <=> index[y] # 0 /\ ~(IsHeld(y) /\ index[y] < index[u])
    BY <1>4, <1>7 DEF Closed
  <2>3. y \in S <=> IsHeld(y) /\ ~(index[y] < index[u])
    BY <1>3, <1>6, <1>8
  <2>4. IsHeld(y) => index[y] # 0
    BY <1>2, HeldFacts
  <2> QED
    BY <2>2, <2>3, <2>4 DEF Closed
<1>11. PICK m : m = Min(S)
  OBVIOUS
<1>12. m \in S /\ \A v \in S : m <= v
  <2>1. S \in SUBSET Nat /\ S # {}
    BY <1>8, <1>9
  <2> QED
    BY <1>11, <2>1, LeastFacts
<1>13. /\ component' \in [Nodes -> Nodes]
       /\ \A v \in S : component'[v] = m
       /\ \A v \in Nodes : v \notin S => component'[v] = component[v]
  BY <1>5, <1>8, <1>9, <1>11, <1>12
<1>14. /\ low' \in [Nodes -> Nat]
       /\ \A y \in Nodes : IsHeld(y)' => low'[y] = low[y]
  <2>1. low' \in [Nodes -> Nat]
    BY CallerFacts
  <2>2. ASSUME NEW y \in Nodes, low'[y] # low[y] PROVE FALSE
    <3>1. M # 1 /\ y = calls[M - 1].node /\ low'[y] = low[u] /\ low'[y] < low[y]
      BY <1>1, <2>2, CallerFacts
    <3>2. M - 1 \in 1 .. M - 1
      BY <1>3, <3>1
    <3>3. IsHeld(y) /\ index[y] < index[u]
      BY <1>3, <3>1, <3>2
    <3>4. PICK x \in Nodes : low[y] = index[x] /\ index[x] <= index[y]
      BY <1>2, <3>3 DEF LowInv
    <3>5. low[u] = index[u]
      BY <1>1
    <3> QED
      BY <1>3, <1>8, <3>1, <3>3, <3>4, <3>5
  <2> QED
    BY <2>1, <2>2
<1>15. ComponentsTypeOK'
  BY <1>2, <1>3, <1>4, <1>6, <1>13, <1>14 DEF ComponentsTypeOK, IsGraph
<1>16. NumberInv'
  <2>1. \A k \in 1 .. M - 1 : (IsHeld(calls[k].node) /\ calls[k].left \subseteq edges[calls[k].node])'
    <3>1. ASSUME NEW k \in 1 .. M - 1 PROVE /\ \E i \in DOMAIN held' : held'[i] = calls'[k].node
                                            /\ calls'[k].left \subseteq edges[calls'[k].node]
      BY <1>2, <1>3, <1>6, <3>1 DEF NumberInv
    <3> QED
      BY <1>4, <3>1 DEF IsHeld
  <2>2. ASSUME NEW j \in 1 .. M - 1, NEW k \in 1 .. M - 1, j < k PROVE index[calls'[j].node] < index[calls'[k].node]
    BY <1>2, <1>3, <2>2 DEF NumberInv
  <2>3. ASSUME NEW i \in DOMAIN held' PROVE index[held'[i]] # 0
    BY <1>2, <1>6, <2>3 DEF NumberInv
  <2>4. ASSUME NEW i \in DOMAIN held', NEW j \in DOMAIN held', i < j PROVE index[held'[i]] < index[held'[j]]
    BY <1>2, <1>6, <2>4 DEF NumberInv
  <2> QED
    BY <1>2, <1>3, <1>4, <2>1, <2>2, <2>3, <2>4 DEF NumberInv
<1>17. VisitedInv'
  <2>1. ASSUME NEW y \in Nodes, Visited(y), ~IsCalling(y)', NEW w \in edges[y] PROVE Visited(w)
    <3>1. CASE y = u
      BY <1>2, <1>3, <2>1, <3>1 DEF VisitedInv
    <3>2. CASE y # u
      BY <1>2, <1>3, <2>1, <3>2 DEF VisitedInv
    <3> QED
      BY <3>1, <3>2
  <2>2. ASSUME NEW k \in 1 .. M - 1, NEW w \in edges[calls'[k].node], w \notin calls'[k].left PROVE Visited(w)
    BY <1>2, <1>3, <2>2 DEF VisitedInv
  <2>3. ASSUME NEW y \in Nodes, Closed(y)', NEW w \in edges[y] PROVE Closed(w)'
    <3>1. w \in Nodes
      BY <1>8
    <3>2. CASE y \in S
      BY <1>9, <1>10, <2>3, <3>1, <3>2
    <3>3. CASE Closed(y)
      BY <1>2, <1>10, <2>3, <3>1, <3>3 DEF VisitedInv
    <3> QED
      BY <1>10, <2>3, <3>2, <3>3
  <2>4. \A y \in Nodes : Visited(y)' /\ ~IsCalling(y)' => \A w \in edges'[y] : Visited(w)'
    BY <1>4, <2>1
  <2>5. \A k \in 1 .. M - 1 : \A w \in edges'[calls'[k].node] \ calls'[k].left : Visited(w)'
    BY <1>4, <2>2
  <2>6. \A y \in Nodes : Closed(y)' => \A w \in edges'[y] : Closed(w)'
    BY <1>4, <2>3
  <2> QED
    BY <1>3, <1>4, <2>4, <2>5, <2>6 DEF VisitedInv
<1>18. HeldInv'
  <2>1. ASSUME NEW k \in 1 .. M - 1, NEW y \in Nodes, IsHeld(y)', index[calls'[k].node] <= index[y]
        PROVE  Reaches(calls'[k].node, y)
    BY <1>2, <1>3, <1>7, <2>1 DEF HeldInv
  <2>2. ASSUME NEW y \in Nodes, IsHeld(y)'
        PROVE  \E k \in 1 .. M - 1 : index[calls'[k].node] <= index[y] /\ Reaches(y, calls'[k].node)
    <3>1. PICK k \in 1 .. M : index[calls[k].node] <= index[y] /\ Reaches(y, calls[k].node)
      BY <1>2, <1>3, <1>7, <2>2 DEF HeldInv
    <3>2. k # M
      BY <1>3, <1>7, <1>8, <2>2, <3>1
    <3>3. k \in 1 .. M - 1
      BY <1>3, <3>2
    <3> QED
      BY <1>3, <3>1, <3>3
  <2> QED
    BY <1>3, <1>4, <2>1, <2>2 DEF HeldInv
<1>19. LowInv'
  <2>1. ASSUME NEW y \in Nodes, IsHeld(y)'
        PROVE  \E x \in Nodes : IsHeld(x)' /\ low'[y] = index[x] /\ index[x] <= index[y] /\ Reaches(y, x)
    <3>1. PICK x \in Nodes : IsHeld(x) /\ low[y] = index[x] /\ index[x] <= index[y] /\ Reaches(y, x)
      BY <1>2, <1>7, <2>1 DEF LowInv
    <3>2. index[x] < index[u]
      BY <1>3, <1>7, <1>8, <2>1, <3>1
    <3> QED
      BY <1>7, <1>14, <2>1, <3>1, <3>2
  <2>2. ASSUME NEW k \in 1 .. M - 1, NEW y \in Nodes, IsHeld(y)', index[calls[k].node] <= index[y],
               k < M - 1 => index[y] < index[calls[k + 1].node],
               NEW x \in edges[y], IsHeld(x)', y = calls[k].node => x \notin calls[k].left
        PROVE  low'[calls[k].node] <= index[x]
    <3>1. k \in 1 .. M /\ IsHeld(y) /\ IsHeld(x) /\ index[y] < index[u]
      BY <1>3, <1>7, <2>2
    <3>2. k < M => index[y] < index[calls[k + 1].node]
      <4>1. k < M - 1 \/ k + 1 = M
        BY <1>3
      <4> QED
        BY <1>3, <2>2, <3>1, <4>1
    <3>3. low[calls[k].node] <= index[x]
      BY <1>1, <1>2, <1>3, <2>2, <3>1, <3>2 DEF LowInv
    <3>4. low'[calls[k].node] = low[calls[k].node]
      <4>1. PICK n : n = calls[k].node
        OBVIOUS
      <4>2. n \in Nodes /\ IsHeld(n) /\ index[n] < index[u]
        BY <1>3, <3>1, <4>1
      <4>3. low'[n] = low[n]
        BY <1>7, <1>14, <4>2
      <4> QED
        BY <4>1, <4>3
    <3> QED
      BY <3>3, <3>4
  <2>3. ASSUME NEW k \in 1 .. M - 1, NEW y \in Nodes, IsHeld(y)', index[calls'[k].node] <= index[y],
               k < M - 1 => index[y] < index[calls'[k + 1].node],
               NEW x \in edges[y], IsHeld(x)', y = calls'[k].node => x \notin calls'[k].left
        PROVE  low'[calls'[k].node] <= index[x]
    <3>1. k < M - 1 => k + 1 \in 1 .. M - 1
      BY <1>3
    <3> QED
      BY <1>3, <2>2, <2>3, <3>1
  <2> QED
    BY <1>3, <1>4, <2>1, <2>3 DEF LowInv
<1>20. ClosedInv'
  <2>1. ASSUME NEW w \in Nodes, Closed(w)'
        PROVE  /\ Closed(component[w])' /\ Mutual(w, component'[w])
               /\ \A v \in Nodes : Mutual(w, v) => component'[v] = component'[w] /\ component'[w] <= v
    <3>1. CASE w \in S
      <4>1. component'[w] = m /\ m \in Nodes
        BY <1>9, <1>12, <1>13, <3>1
      <4>2. Closed(m)'
        BY <1>10, <1>12, <4>1
      <4>3. Closed(component[w])'
        BY <4>1, <4>2 DEF Closed, IsHeld
      <4>4. Mutual(w, m)
        BY <1>9, <1>12, <3>1, ReachesOn DEF Mutual
      <4>5. \A v \in Nodes : Mutual(w, v) => v \in S
        BY <1>9, <3>1
      <4> QED
        BY <1>12, <1>13, <4>1, <4>3, <4>4, <4>5
    <3>2. CASE Closed(w)
      <4>1. PICK n : n = component[w]
        OBVIOUS
      <4>2. w \notin S /\ component'[w] = n /\ n \in Nodes
        BY <1>8, <1>10, <1>13, <3>2, <4>1
      <4>3. Closed(n) /\ Mutual(w, n) /\ \A v \in Nodes : Mutual(w, v) => component[v] = n /\ n <= v
        BY <1>2, <3>2, <4>1 DEF ClosedInv
      <4>4. Closed(n)'
        BY <1>10, <4>2, <4>3
      <4>5. ASSUME NEW v \in Nodes, Mutual(w, v) PROVE v \notin S
        <5>1. Mutual(v, w)
          BY <4>5 DEF Mutual
        <5> QED
          BY <1>9, <4>2, <5>1
      <4>6. Closed(component[w])'
        BY <4>2, <4>4 DEF Closed, IsHeld
      <4> QED
        BY <1>13, <4>2, <4>3, <4>5, <4>6
    <3> QED
      BY <1>10, <2>1, <3>1, <3>2
  <2> QED
    BY <1>4, <2>1 DEF ClosedInv
<1> QED
  BY <1>15, <1>16, <1>17, <1>18, <1>19, <1>20 DEF ComponentsInv

-----------------------------------------------------------------------------
LEMMA InvStarts ==
    ASSUME NEW e, IsGraph(e), NoneVisited(e)
    PROVE  ComponentsInv
<1>1. /\ edges = e /\ Nodes = DOMAIN e /\ held = <<>> /\ calls = <<>> /\ counter = 1
      /\ \A u \in Nodes : index[u] = 0
      /\ DOMAIN held = {} /\ DOMAIN calls = {}
  BY DEF NoneVisited, Nodes
<1>2. ComponentsTypeOK
  BY <1>1 DEF NoneVisited, ComponentsTypeOK, Nodes
<1>3. \A y : ~IsHeld(y)
  BY <1>1 DEF IsHeld
<1>4. \A y \in Nodes : ~Visited(y) /\ ~Closed(y)
  BY <1>1 DEF Visited, Closed
<1> QED
  BY <1>1, <1>2, <1>3, <1>4 DEF ComponentsInv, NumberInv, VisitedInv, HeldInv, LowInv, ClosedInv

LEMMA ComponentsStepKeeps ==
    ASSUME ComponentsInv, ComponentsNext
    PROVE  ComponentsInv'
<1>1. ASSUME NEW u \in Nodes, VisitRoot(u) PROVE ComponentsInv'
  <2>1. PICK R, e : R = [node : Nodes, left : SUBSET Nodes] /\ e = <<>>
    OBVIOUS
  <2>2. calls = <<>> /\ index[u] = 0 /\ Visits(u, e)
    BY <1>1, <2>1 DEF VisitRoot
  <2>3. e \in Seq(R) /\ Len(e) = Len(calls) /\ DOMAIN calls = {}
    BY <2>1, <2>2
  <2>4. \A k \in DOMAIN calls : /\ e[k].node = calls[k].node /\ e[k].left \subseteq calls[k].left
                                /\ calls[k].left \subseteq e[k].left \cup {u}
    BY <2>3
  <2> QED
    BY <2>1, <2>2, <2>3, <2>4, VisitKeeps
<1>2. ASSUME NEW u \in Nodes, VisitNext(u) PROVE ComponentsInv'
  <2>1. PICK s : s = Seen(u)
    OBVIOUS
  <2>2. LooksAt(u) /\ index[u] = 0 /\ Visits(u, s)
    BY <1>2, <2>1 DEF VisitNext
  <2>3. /\ u \in edges[Current.node]
        /\ s \in Seq([node : Nodes, left : SUBSET Nodes]) /\ Len(s) = Len(calls)
        /\ \A k \in DOMAIN calls : /\ s[k].node = calls[k].node /\ s[k].left \subseteq calls[k].left
                                   /\ calls[k].left \subseteq s[k].left \cup {u}
    <3>1. /\ u \in edges[Current.node]
          /\ Seen(u) \in Seq([node : Nodes, left : SUBSET Nodes]) /\ Len(Seen(u)) = Len(calls)
          /\ \A k \in DOMAIN calls : /\ Seen(u)[k].node = calls[k].node /\ Seen(u)[k].left \subseteq calls[k].left
                                     /\ calls[k].left \subseteq Seen(u)[k].left \cup {u}
      BY <2>2, SeenFacts
    <3> QED
      BY <2>1, <3>1, Zenon
  <2> QED
    BY <2>2, <2>3, VisitKeeps
<1>3. ASSUME NEW v \in Nodes, FindHeld(v) PROVE ComponentsInv'
  <2>1. LooksAt(v) /\ index[v] # 0 /\ calls' = Seen(v) /\ UNCHANGED <<edges, index, counter, held, component>>
        /\ low' = IF IsHeld(v) THEN [low EXCEPT ![Current.node] = Min({@, index[v]})] ELSE low
    BY <1>3 DEF FindHeld
  <2> QED
    BY <2>1, LookedAtKeeps
<1>4. ASSUME NEW v \in Nodes, FindClosed(v) PROVE ComponentsInv'
  <2>1. LooksAt(v) /\ index[v] # 0 /\ calls' = Seen(v) /\ UNCHANGED <<edges, index, counter, held, component>>
        /\ low' = IF IsHeld(v) THEN [low EXCEPT ![Current.node] = Min({@, index[v]})] ELSE low
    BY <1>4 DEF FindClosed
  <2> QED
    BY <2>1, LookedAtKeeps
<1>5. ASSUME Return PROVE ComponentsInv'
  BY <1>5, StayKeeps, ComponentKeeps
<1> QED
  BY <1>1, <1>2, <1>3, <1>4, <1>5 DEF ComponentsNext

LEMMA ComponentsStutter ==
    ASSUME ComponentsInv, UNCHANGED componentVars
    PROVE  ComponentsInv'
<1>1. Nodes' = Nodes /\ (\A u, v : Reaches(u, v)' <=> Reaches(u, v)) /\ (\A u, v : Mutual(u, v)' <=> Mutual(u, v))
  BY SameReach DEF componentVars
<1>2. \A y : (IsHeld(y)' <=> IsHeld(y)) /\ (Visited(y)' <=> Visited(y)) /\ (Closed(y)' <=> Closed(y))
             /\ (IsCalling(y)' <=> IsCalling(y))
  BY DEF componentVars, IsHeld, Visited, Closed, IsCalling
<1>3. edges' = edges /\ index' = index /\ low' = low /\ counter' = counter /\ held' = held /\ calls' = calls
      /\ component' = component
  BY DEF componentVars
<1>4. ComponentsTypeOK'
  BY <1>1, <1>3 DEF ComponentsInv, ComponentsTypeOK, IsGraph
<1>5. NumberInv'
  BY <1>1, <1>2, <1>3 DEF ComponentsInv, NumberInv, IsHeld
<1>6. VisitedInv'
  BY <1>1, <1>2, <1>3 DEF ComponentsInv, VisitedInv
<1>7. HeldInv'
  BY <1>1, <1>2, <1>3 DEF ComponentsInv, HeldInv
<1>8. LowInv'
  BY <1>1, <1>2, <1>3 DEF ComponentsInv, LowInv
<1>9. ClosedInv'
  BY <1>1, <1>2, <1>3 DEF ComponentsInv, ClosedInv
<1> QED
  BY <1>4, <1>5, <1>6, <1>7, <1>8, <1>9 DEF ComponentsInv

LEMMA InvExact == ASSUME ComponentsInv PROVE ComponentsExact
<1> SUFFICES ASSUME AllVisited PROVE \A u, v \in Nodes :
            /\ component[u] = component[v] <=> Reaches(u, v) /\ Reaches(v, u)
            /\ Reaches(u, v) /\ Reaches(v, u) => component[u] <= v
  BY DEF ComponentsExact
<1>1. calls = <<>> /\ DOMAIN calls = {} /\ ComponentsTypeOK /\ NumberInv /\ HeldInv /\ ClosedInv
  BY DEF AllVisited, ComponentsInv
<1>2. \A u \in Nodes : ~IsHeld(u) /\ Closed(u)
  BY <1>1 DEF HeldInv, Closed, AllVisited
<1>3. ASSUME NEW u \in Nodes, NEW v \in Nodes, component[u] = component[v] PROVE Mutual(u, v)
  <2>1. Mutual(u, component[u]) /\ Mutual(v, component[v])
    BY <1>1, <1>2 DEF ClosedInv
  <2> QED
    BY <1>3, <2>1, ReachesOn DEF Mutual
<1>4. \A u, v \in Nodes : Mutual(u, v) => component[v] = component[u] /\ component[u] <= v
  BY <1>1, <1>2 DEF ClosedInv
<1> QED
  BY <1>3, <1>4 DEF Mutual

(* For every graph of units: the search keeps its types, and when it has      *)
(* visited every unit, two units have one component if and only if each       *)
(* reaches the other, called after its lowest unit                            *)
(* (strongly_connected_components).                                           *)
THEOREM ComponentsCorrect == ComponentsSpec => []ComponentsTypeOK /\ []ComponentsExact
<1>1. ComponentsInit => ComponentsInv
  BY InvStarts DEF ComponentsInit
<1>2. ComponentsInv /\ [ComponentsNext]_componentVars => ComponentsInv'
  BY ComponentsStepKeeps, ComponentsStutter
<1>3. ComponentsInv => ComponentsTypeOK /\ ComponentsExact
  BY InvExact DEF ComponentsInv
<1> QED
  BY <1>1, <1>2, <1>3, PTL DEF ComponentsSpec
==============================================================================
