------------------------- MODULE PointerGraphs_proofs -------------------------
(***************************************************************************)
(* What the pointer graphs say of the program, for any activations and     *)
(* any locals, every size and place of an object, and logs of every        *)
(* length.                                                                 *)
(*                                                                         *)
(* Two invariants.  BaseInv holds whatever the log tells: the program's    *)
(* pointers are inside its objects, the hooks log what was called, every   *)
(* known address is that of a node, and the local that a node's input was  *)
(* in was last written by the node that `written` names.  A pointer is     *)
(* null, a number that null was offset to, or at least StaticAt, and no    *)
(* request is as long as StaticAt: no address is covered both by null and  *)
(* by an object.  Null covers what is within the last failed request, and  *)
(* nothing else gets into the graphs of null.                              *)
(*                                                                         *)
(* TruthInv holds until the log is misled.  Between a call and its event   *)
(* memory and graphs disagree, so it is about two sets: There, the objects *)
(* whose end is not logged, and Tracked, those of them whose beginning is. *)
(* The builder knows exactly the addresses of Tracked, of null and what it *)
(* is offset to, and of the static object; each graph with a tracked object is about that object    *)
(* alone.  Objects of There are apart unless one takes the place of the    *)
(* other in the same call to realloc (Swap), whose hook logs the old one's *)
(* end first.                                                              *)
(***************************************************************************)
EXTENDS PointerGraphs, SequenceTheorems, WellFoundedInduction, TLAPS

-----------------------------------------------------------------------------
(* Below and Writers return one address or node at most: it is their last. *)
LEMMA MaxOf ==
    ASSUME NEW S, NEW x \in S, S \subseteq Int, \A y \in S : y <= x
    PROVE  Max(S) = x
<1>1. \A y \in S : x >= y
  OBVIOUS
<1> DEFINE z == CHOOSE z \in S : \A y \in S : z >= y
<1>2. z \in S /\ \A y \in S : z >= y
  BY <1>1
<1> HIDE DEF z
<1>3. z \in Int /\ x \in Int /\ z >= x /\ z <= x
  BY <1>2
<1>4. z = x
  BY <1>3
<1> QED
  BY <1>4 DEF Max, z

LEMMA MaxOfOne == ASSUME NEW x \in Int PROVE Max({x}) = x
<1> DEFINE S == {x}
<1>1. x \in S /\ S \subseteq Int /\ \A y \in S : y <= x
  OBVIOUS
<1> HIDE DEF S
<1>2. Max(S) = x
  BY <1>1, MaxOf
<1> QED
  BY <1>2 DEF S

LEMMA FoundFacts ==
    ASSUME NEW P, DOMAIN P \subseteq Nat, NEW a \in Int, NEW s \in Found(P, a)
    PROVE  /\ Found(P, a) = {s} /\ Max(Found(P, a)) = s
           /\ s \in DOMAIN P /\ s <= a /\ Covers(P, s, a)
<1>1. Found(P, a) = {s} /\ s \in DOMAIN P /\ s <= a /\ Covers(P, s, a)
  BY DEF Found, Below
<1>2. Max({s}) = s
  BY <1>1, MaxOfOne
<1> QED
  BY <1>1, <1>2

LEMMA WritersFacts ==
    ASSUME NEW S, NEW graph, graph.nodes \in Seq(S), NEW l, NEW i \in Writers(graph, l)
    PROVE  /\ Max(Writers(graph, l)) = i
           /\ i \in 1 .. Len(graph.nodes) /\ graph.nodes[i].dest = l
           /\ \A j \in i + 1 .. Len(graph.nodes) : graph.nodes[j].dest # l
<1> DEFINE n == Len(graph.nodes)
<1>1. n \in Nat /\ DOMAIN graph.nodes = 1 .. n
  OBVIOUS
<1>2. /\ i \in 1 .. n /\ graph.nodes[i].dest = l
      /\ \A j \in i + 1 .. n : graph.nodes[j].dest # l
  BY <1>1 DEF Writers
<1>3. ASSUME NEW k \in Writers(graph, l)
      PROVE  k \in 1 .. n /\ k = i
  <2>1. /\ k \in 1 .. n /\ graph.nodes[k].dest = l
        /\ \A j \in k + 1 .. n : graph.nodes[j].dest # l
    BY <1>1 DEF Writers
  <2>2. i \notin k + 1 .. n /\ k \notin i + 1 .. n
    BY <1>2, <2>1
  <2> HIDE DEF n
  <2> QED
    BY <1>1, <1>2, <2>1, <2>2
<1> HIDE DEF n
<1>4. Writers(graph, l) = {i}
  BY <1>3
<1>5. i \in Int
  BY <1>2
<1>6. Max({i}) = i
  BY <1>5, MaxOfOne
<1> QED
  BY <1>2, <1>4, <1>6 DEF n

-----------------------------------------------------------------------------
(* The builder, for any event.  A pointer of the program is null or at or   *)
(* above the static object.                                                 *)
Address == {0} \cup NullOffsets \cup {a \in Nat : a >= StaticAt}
Kinds   == {"alloc", "free", "copy", "offset", "use", "value", "store"}
At      == [graph : Nat, node : Nat]
Dests   == Locals \cup Results \cup {NoLocal}
Node    == [kind : Kinds, activation : Activations, source : Nat, dest : Dests, object : Int, input : At]
Graph   == [isNull : BOOLEAN, nodes : Seq(Node)]

(* What a hook may log. *)
EventOK(e) ==
    /\ e.kind \in Kinds /\ e.activation \in Activations /\ e.dest \in Dests
    /\ e.object \in Int /\ e.input \in At
    /\ e.ptr \in Address /\ e.to \in Address /\ (e.to = 0 <=> e.ptr = 0)
    /\ e.kind = "alloc" => e.size \in Nat /\ e.size < StaticAt
    /\ e.kind = "copy" => e.to = e.ptr
    /\ e.kind = "offset" => e.ptr \notin NullOffsets

(* What the builder knows of the addresses: a node of a graph, and whether  *)
(* that graph is of null pointers.                                          *)
KnownOK(b) ==
    \A s \in DOMAIN b.provenances :
        /\ s \in Address
        /\ b.provenances[s].size \in Nat \cup {Unsized}
        /\ b.provenances[s].graph \in DOMAIN b.graphs
        /\ b.provenances[s].node \in DOMAIN b.graphs[b.provenances[s].graph].nodes
        /\ b.graphs[b.provenances[s].graph].isNull = (s = 0)
        /\ s = 0 => b.provenances[s].size < StaticAt

(* A source is a node before. *)
SourcesBefore(b) ==
    \A g \in DOMAIN b.graphs : \A n \in DOMAIN b.graphs[g].nodes : b.graphs[g].nodes[n].source < n

BuilderOK(b) ==
    /\ b.graphs \in Seq(Graph)
    /\ KnownOK(b)
    /\ SourcesBefore(b)

(* The event is about a pointer within the size of null. *)
Strays(b, e) ==
    /\ 0 \in DOMAIN b.provenances /\ b.provenances[0].size # Unsized
    /\ e.ptr \in 1 .. b.provenances[0].size

(* Null has no size but that of the last request that failed, and graphs    *)
(* are mixed only by a pointer that strays into it.                         *)
NullOK(b, size, stray) ==
    /\ b.mixed => stray
    /\ 0 \in DOMAIN b.provenances => b.provenances[0].size \in {Unsized, size}

(* What add_node adds. *)
OldLen(b, g) == IF g \in DOMAIN b.graphs THEN Len(b.graphs[g].nodes) ELSE 0

NodeOf(e, source) ==
    [kind |-> e.kind, activation |-> e.activation, source |-> source, dest |-> e.dest,
     object |-> e.object, input |-> e.input]

(* The graph g, or a new one, gets the node. *)
Grows(b, c, g, node, null) ==
    /\ DOMAIN c.graphs = DOMAIN b.graphs \cup {g}
    /\ \A h \in DOMAIN b.graphs \ {g} : c.graphs[h] = b.graphs[h]
    /\ c.graphs[g].isNull = IF g \in DOMAIN b.graphs THEN b.graphs[g].isNull ELSE null
    /\ DOMAIN c.graphs[g].nodes = 1 .. OldLen(b, g) + 1
    /\ Len(c.graphs[g].nodes) = OldLen(b, g) + 1
    /\ c.graphs[g].nodes[OldLen(b, g) + 1] = node
    /\ \A i \in 1 .. OldLen(b, g) :
         g \in DOMAIN b.graphs /\ i \in DOMAIN b.graphs[g].nodes
         /\ c.graphs[g].nodes[i] = b.graphs[g].nodes[i]

LEMMA AppendKeeps ==
    ASSUME NEW S, NEW s \in Seq(S), NEW x \in S
    PROVE  /\ Append(s, x) \in Seq(S) /\ Len(Append(s, x)) = Len(s) + 1
           /\ DOMAIN Append(s, x) = 1 .. Len(s) + 1 /\ Len(s) \in Nat /\ DOMAIN s = 1 .. Len(s)
           /\ Append(s, x)[Len(s) + 1] = x
           /\ \A i \in 1 .. Len(s) : Append(s, x)[i] = s[i]
  OBVIOUS

LEMMA AddedGrows ==
    ASSUME NEW b, b.graphs \in Seq(Graph), NEW e, EventOK(e), NEW source \in Nat,
           NEW g \in 1 .. Len(b.graphs) + 1
    PROVE  LET c == Added(b, e, g, source) IN
           /\ c.graphs \in Seq(Graph)
           /\ Grows(b, c, g, NodeOf(e, source), e.ptr = 0)
           /\ OldLen(b, g) \in Nat
           /\ c.last = [graph |-> g, node |-> OldLen(b, g) + 1]
           /\ c.provenances = UpdateProvenance(b.provenances, e, g, OldLen(b, g) + 1)
           /\ c.mixed = (b.mixed \/
                (IF g \in DOMAIN b.graphs THEN b.graphs[g].isNull ELSE e.ptr = 0) # (e.ptr = 0))
<1> DEFINE c == Added(b, e, g, source)
           node == NodeOf(e, source)
           new == [isNull |-> e.ptr = 0, nodes |-> <<>>]
           graph == IF g \in DOMAIN b.graphs THEN b.graphs[g] ELSE new
           grown == [graph EXCEPT !.nodes = Append(@, node)]
           n == Len(b.graphs)
<1>1. n \in Nat /\ DOMAIN b.graphs = 1 .. n /\ \A h \in 1 .. n : b.graphs[h] \in Graph
  OBVIOUS
<1>2. new \in Graph
  <2>1. <<>> \in Seq(Node) /\ (e.ptr = 0) \in BOOLEAN
    OBVIOUS
  <2> QED
    BY <2>1 DEF Graph
<1>3. graph \in Graph
  BY <1>1, <1>2
<1>4. node \in Node
  BY DEF EventOK, Node, NodeOf
<1>5. Len(graph.nodes) = OldLen(b, g)
  BY DEF OldLen
<1>6. c.graphs = (IF g \in DOMAIN b.graphs THEN [b.graphs EXCEPT ![g] = grown] ELSE Append(b.graphs, grown))
      /\ c.last = [graph |-> g, node |-> Len(grown.nodes)]
      /\ c.provenances = UpdateProvenance(b.provenances, e, g, Len(grown.nodes))
      /\ c.mixed = (b.mixed \/ graph.isNull # (e.ptr = 0))
  BY DEF Added, NodeOf
<1>7. graph.isNull = IF g \in DOMAIN b.graphs THEN b.graphs[g].isNull ELSE e.ptr = 0
  OBVIOUS
<1>8. \A i \in DOMAIN graph.nodes : g \in DOMAIN b.graphs /\ graph.nodes[i] = b.graphs[g].nodes[i]
         /\ i \in DOMAIN b.graphs[g].nodes
  OBVIOUS
<1> HIDE DEF c, node, new, graph
<1>9. graph.nodes \in Seq(Node) /\ graph.isNull \in BOOLEAN
  BY <1>3 DEF Graph
<1>10. grown \in Graph /\ grown.nodes = Append(graph.nodes, node) /\ grown.isNull = graph.isNull
  <2>1. Append(graph.nodes, node) \in Seq(Node)
    BY <1>4, <1>9
  <2> QED
    BY <1>3, <2>1 DEF Graph
<1> HIDE DEF grown
<1> DEFINE m == OldLen(b, g)
<1>11. /\ Len(grown.nodes) = m + 1 /\ DOMAIN grown.nodes = 1 .. m + 1
       /\ m \in Nat /\ DOMAIN graph.nodes = 1 .. m
       /\ grown.nodes[m + 1] = node /\ \A i \in 1 .. m : grown.nodes[i] = graph.nodes[i]
  BY <1>4, <1>5, <1>9, <1>10, AppendKeeps
<1> HIDE DEF m
<1>12. /\ c.graphs \in Seq(Graph) /\ DOMAIN c.graphs = DOMAIN b.graphs \cup {g}
       /\ c.graphs[g] = grown /\ \A h \in DOMAIN b.graphs \ {g} : c.graphs[h] = b.graphs[h]
  <2>1. CASE g \in DOMAIN b.graphs
    <3>1. c.graphs = [b.graphs EXCEPT ![g] = grown]
      BY <1>6, <2>1
    <3> QED
      BY <1>1, <1>10, <2>1, <3>1
  <2>2. CASE g \notin DOMAIN b.graphs
    <3>1. c.graphs = Append(b.graphs, grown)
      BY <1>6, <2>2
    <3>2. g = n + 1
      BY <1>1, <2>2
    <3>3. /\ c.graphs \in Seq(Graph) /\ DOMAIN c.graphs = 1 .. n + 1 /\ c.graphs[n + 1] = grown
          /\ \A h \in 1 .. n : c.graphs[h] = b.graphs[h]
      BY <1>10, <3>1, AppendKeeps
    <3> HIDE DEF n
    <3>4. 1 .. n + 1 = (1 .. n) \cup {n + 1}
      BY <1>1
    <3> QED
      BY <1>1, <3>2, <3>3, <3>4
  <2> QED
    BY <2>1, <2>2
<1>13. Grows(b, c, g, node, e.ptr = 0)
  BY <1>7, <1>8, <1>10, <1>11, <1>12 DEF Grows, m
<1> QED
  BY <1>6, <1>7, <1>11, <1>12, <1>13 DEF c, node, m

-----------------------------------------------------------------------------
(* The graph an event goes to, and the source of its node. *)
Opens(b, e) == e.kind = "alloc" \/ Found(b.provenances, e.ptr) = {}

Near(b, e) == b.provenances[Max(Found(b.provenances, e.ptr))]

Target(b, e) == IF Opens(b, e) THEN Len(b.graphs) + 1 ELSE Near(b, e).graph

SourceOf(b, e) ==
    IF Opens(b, e) THEN NoSource
    ELSE SourceIn(b.graphs[Near(b, e).graph], Near(b, e).node, e.source)

LEMMA AddNodeIs ==
    ASSUME NEW b, NEW e
    PROVE  AddNode(b, e) = Added(b, e, Target(b, e), SourceOf(b, e))
BY DEF AddNode, Target, SourceOf, Opens, Near

LEMMA StaticIsNat ==
    StaticAt \in Nat /\ StaticAt > 0 /\ \A k \in NullOffsets : k \in Nat /\ 0 < k /\ k < StaticAt
BY AddressAssumption

LEMMA NearFacts ==
    ASSUME NEW b, BuilderOK(b), NEW e, EventOK(e), ~Opens(b, e)
    PROVE  \E s \in DOMAIN b.provenances :
              /\ Found(b.provenances, e.ptr) = {s}
              /\ Near(b, e) = b.provenances[s]
              /\ s <= e.ptr /\ Covers(b.provenances, s, e.ptr)
              /\ s = Max(Below(b.provenances, e.ptr)) /\ s \in Below(b.provenances, e.ptr)
              /\ e.ptr = 0 => s = 0
              /\ s = 0 /\ e.ptr # 0 => Strays(b, e) /\ e.ptr \in NullOffsets
<1>1. PICK s : s \in Found(b.provenances, e.ptr)
  BY DEF Opens
<1>2. DOMAIN b.provenances \subseteq Nat /\ e.ptr \in Nat /\ e.ptr \in Address
  BY StaticIsNat DEF BuilderOK, KnownOK, EventOK, Address
<1>3. /\ Found(b.provenances, e.ptr) = {s} /\ Max(Found(b.provenances, e.ptr)) = s
      /\ s \in DOMAIN b.provenances /\ s <= e.ptr /\ Covers(b.provenances, s, e.ptr)
  BY <1>1, <1>2, FoundFacts
<1>4. (e.ptr = 0 => s = 0) /\ (s = 0 /\ e.ptr # 0 => Strays(b, e) /\ e.ptr \in NullOffsets)
  <2> DEFINE z == b.provenances[s].size
  <2>1. s \in Nat /\ z \in Nat \cup {Unsized} /\ (s = 0 => z < StaticAt)
    BY <1>2, <1>3 DEF BuilderOK, KnownOK
  <2>2. IF z = Unsized THEN e.ptr = s ELSE e.ptr <= s + z
    BY <1>3 DEF Covers
  <2>3. s = 0 => s \in DOMAIN b.provenances /\ z = b.provenances[0].size
    BY <1>3
  <2> HIDE DEF z
  <2>4. e.ptr = 0 => s = 0
    BY <1>2, <1>3, <2>1
  <2>5. ASSUME s = 0, e.ptr # 0
        PROVE  Strays(b, e) /\ e.ptr \in NullOffsets
    <3>1. z \in Nat /\ e.ptr \in 1 .. z /\ z # Unsized /\ e.ptr < StaticAt
      BY <1>2, <2>1, <2>2, <2>5, StaticIsNat DEF Unsized
    <3>2. e.ptr \in NullOffsets
      BY <1>2, <2>5, <3>1, StaticIsNat DEF Address
    <3> QED
      BY <2>3, <2>5, <3>1, <3>2 DEF Strays
  <2> QED
    BY <2>4, <2>5
<1>5. s = Max(Below(b.provenances, e.ptr)) /\ s \in Below(b.provenances, e.ptr)
  BY <1>1 DEF Found
<1> QED
  BY <1>3, <1>4, <1>5 DEF Near

(* The derived pointer of an event about a known one is no object of its    *)
(* own if it is the same.                                                   *)
LEMMA KnownIsNotNew ==
    ASSUME NEW P, NEW e, NEW ptr, NEW s \in Below(P, ptr), s = Max(Below(P, ptr)), Covers(P, s, ptr)
    PROVE  ~IsNew(P, e, ptr)
BY DEF IsNew

LEMMA SourceInFacts ==
    ASSUME NEW S, NEW graph, graph.nodes \in Seq(S), NEW made \in 0 .. Len(graph.nodes), NEW l
    PROVE  SourceIn(graph, made, l) \in 0 .. Len(graph.nodes)
<1>1. CASE l # NoLocal /\ Writers(graph, l) # {}
  <2>1. PICK i : i \in Writers(graph, l)
    BY <1>1
  <2>2. Max(Writers(graph, l)) = i /\ i \in 1 .. Len(graph.nodes)
    BY <2>1, WritersFacts
  <2>3. SourceIn(graph, made, l) = i
    BY <1>1, <2>2 DEF SourceIn
  <2> QED
    BY <2>2, <2>3
<1>2. CASE ~(l # NoLocal /\ Writers(graph, l) # {})
  <2>1. SourceIn(graph, made, l) = made
    BY <1>2 DEF SourceIn
  <2> QED
    BY <2>1
<1> QED
  BY <1>1, <1>2

(* An event that strays makes nothing known. *)
Joins(b, e) ==
    /\ Strays(b, e) /\ e.kind # "alloc"
    /\ ~(e.kind \in {"copy", "offset"} /\ IsNew(b.provenances, e, e.to))

LEMMA TargetFacts ==
    ASSUME NEW b, BuilderOK(b), NEW e, EventOK(e)
    PROVE  /\ Target(b, e) \in 1 .. Len(b.graphs) + 1
           /\ Target(b, e) \in DOMAIN b.graphs <=> ~Opens(b, e)
           /\ Target(b, e) \in DOMAIN b.graphs =>
                b.graphs[Target(b, e)].isNull = (e.ptr = 0) \/ Joins(b, e)
           /\ SourceOf(b, e) \in 0 .. OldLen(b, Target(b, e))
           /\ SourceOf(b, e) \in Nat
           /\ OldLen(b, Target(b, e)) \in Nat
<1> DEFINE n == Len(b.graphs)
<1>1. n \in Nat /\ DOMAIN b.graphs = 1 .. n /\ \A h \in 1 .. n : b.graphs[h] \in Graph
  BY DEF BuilderOK
<1>2. CASE Opens(b, e)
  <2>1. Target(b, e) = n + 1 /\ SourceOf(b, e) = 0
    BY <1>2 DEF Target, SourceOf, NoSource
  <2> HIDE DEF n
  <2>2. n + 1 \in 1 .. n + 1 /\ n + 1 \notin 1 .. n
    BY <1>1
  <2>3. OldLen(b, Target(b, e)) = 0
    BY <1>1, <2>1, <2>2 DEF OldLen
  <2> QED
    BY <1>1, <1>2, <2>1, <2>2, <2>3 DEF n
<1>3. CASE ~Opens(b, e)
  <2>1. PICK s \in DOMAIN b.provenances :
           /\ Near(b, e) = b.provenances[s] /\ Covers(b.provenances, s, e.ptr)
           /\ s = Max(Below(b.provenances, e.ptr)) /\ s \in Below(b.provenances, e.ptr)
           /\ (e.ptr = 0 => s = 0) /\ (s = 0 /\ e.ptr # 0 => Strays(b, e) /\ e.ptr \in NullOffsets)
    BY <1>3, NearFacts
  <2>1a. ~IsNew(b.provenances, e, e.ptr)
    BY <2>1, KnownIsNotNew
  <2>1b. s = 0 /\ e.ptr # 0 => Joins(b, e)
    BY <1>3, <2>1, <2>1a DEF Opens, Joins, EventOK
  <2> DEFINE g == Near(b, e).graph
             i == Near(b, e).node
  <2>2. g \in 1 .. n /\ i \in DOMAIN b.graphs[g].nodes /\ b.graphs[g].isNull = (s = 0)
    BY <1>1, <2>1 DEF BuilderOK, KnownOK
  <2>3. Target(b, e) = g /\ SourceOf(b, e) = SourceIn(b.graphs[g], i, e.source)
    BY <1>3 DEF Target, SourceOf
  <2>4. b.graphs[g].nodes \in Seq(Node)
    BY <1>1, <2>2 DEF Graph
  <2>5. OldLen(b, g) = Len(b.graphs[g].nodes)
    BY <1>1, <2>2 DEF OldLen
  <2>6. i \in 0 .. Len(b.graphs[g].nodes) /\ Len(b.graphs[g].nodes) \in Nat
    BY <2>2, <2>4
  <2>7. SourceOf(b, e) \in 0 .. OldLen(b, g)
    BY <2>3, <2>4, <2>5, <2>6, SourceInFacts
  <2> HIDE DEF g, i, n
  <2>8. g \in 1 .. n + 1
    BY <1>1, <2>2
  <2> QED
    BY <1>1, <1>3, <2>1, <2>1b, <2>2, <2>3, <2>5, <2>6, <2>7, <2>8 DEF n
<1> QED
  BY <1>2, <1>3

(* Nothing is known after an event but what was before, the allocated       *)
(* object, and the derived pointer.                                         *)
LEMMA UpdateFacts ==
    ASSUME NEW P, NEW e, NEW g, NEW n,
           NEW s \in DOMAIN UpdateProvenance(P, e, g, n)
    PROVE  LET Q == UpdateProvenance(P, e, g, n) IN
           \/ s \in DOMAIN P /\ Q[s] = P[s]
           \/ e.kind = "alloc" /\ s = e.ptr /\ Q[s] = Provenance(e.size, g, n)
           \/ /\ s = e.to /\ Q[s] = Provenance(Unsized, g, n)
              /\ e.kind \in {"copy", "offset"} /\ IsNew(P, e, e.to)
<1> DEFINE Q == UpdateProvenance(P, e, g, n)
<1>1. CASE e.kind = "alloc"
  <2> DEFINE m == Provenance(e.size, g, n)
             R == Put(P, e.ptr, m)
  <2>1. Q = R
    BY <1>1 DEF UpdateProvenance
  <2> HIDE DEF m
  <2>2. DOMAIN R = DOMAIN P \cup {e.ptr} /\ R[e.ptr] = m /\ \A x \in DOMAIN P \ {e.ptr} : R[x] = P[x]
    BY DEF Put, R
  <2> HIDE DEF Q, R
  <2>3. \/ s \in DOMAIN P /\ Q[s] = P[s]
        \/ s = e.ptr /\ Q[s] = m
    BY <2>1, <2>2 DEF Q
  <2> QED
    BY <1>1, <2>3 DEF Q, m
<1>2. CASE e.kind = "free" /\ e.ptr # 0
  <2>1. Q = Without(P, e.ptr)
    BY <1>2 DEF UpdateProvenance
  <2> QED
    BY <2>1 DEF Without
<1>3. CASE e.kind \in {"copy", "offset"} /\ IsNew(P, e, e.to)
  <2> DEFINE m == Provenance(Unsized, g, n)
             R == Put(P, e.to, m)
  <2>1. Q = R
    BY <1>3 DEF UpdateProvenance
  <2> HIDE DEF m
  <2>2. DOMAIN R = DOMAIN P \cup {e.to} /\ R[e.to] = m /\ \A x \in DOMAIN P \ {e.to} : R[x] = P[x]
    BY DEF Put, R
  <2> HIDE DEF Q, R
  <2>3. \/ s \in DOMAIN P /\ Q[s] = P[s]
        \/ s = e.to /\ Q[s] = m
    BY <2>1, <2>2 DEF Q
  <2> QED
    BY <1>3, <2>3 DEF Q, m
<1>4. CASE ~(e.kind = "alloc") /\ ~(e.kind = "free" /\ e.ptr # 0)
           /\ ~(e.kind \in {"copy", "offset"} /\ IsNew(P, e, e.to))
  <2>1. Q = P
    BY <1>4 DEF UpdateProvenance
  <2> QED
    BY <2>1
<1> QED
  BY <1>1, <1>2, <1>3, <1>4

-----------------------------------------------------------------------------
(* What is in the graphs stays there. *)
LEMMA GrowsKeeps ==
    ASSUME NEW b, b.graphs \in Seq(Graph), NEW c, NEW g, NEW node, NEW null, Grows(b, c, g, node, null),
           NEW h \in DOMAIN b.graphs
    PROVE  /\ h \in DOMAIN c.graphs
           /\ c.graphs[h].isNull = b.graphs[h].isNull
           /\ \A i \in DOMAIN b.graphs[h].nodes :
                 i \in DOMAIN c.graphs[h].nodes /\ c.graphs[h].nodes[i] = b.graphs[h].nodes[i]
<1>1. b.graphs[h] \in Graph
  OBVIOUS
<1>2. b.graphs[h].nodes \in Seq(Node)
  BY <1>1 DEF Graph
<1>3. CASE h # g
  BY <1>3 DEF Grows
<1>4. CASE h = g
  <2> DEFINE n == OldLen(b, g)
  <2>1. n = Len(b.graphs[h].nodes) /\ n \in Nat /\ DOMAIN b.graphs[h].nodes = 1 .. n
    BY <1>2, <1>4 DEF OldLen
  <2>2. /\ DOMAIN c.graphs[g].nodes = 1 .. n + 1
        /\ \A i \in 1 .. n : c.graphs[g].nodes[i] = b.graphs[g].nodes[i]
        /\ h \in DOMAIN c.graphs
        /\ c.graphs[h].isNull = b.graphs[h].isNull
    BY <1>4 DEF Grows
  <2> HIDE DEF n
  <2> QED
    BY <1>4, <2>1, <2>2
<1> QED
  BY <1>3, <1>4

LEMMA AddNodeKeeps ==
    ASSUME NEW b, BuilderOK(b), NEW e, EventOK(e)
    PROVE  LET c == AddNode(b, e)
               g == Target(b, e)
           IN  /\ BuilderOK(c)
               /\ Grows(b, c, g, NodeOf(e, SourceOf(b, e)), e.ptr = 0)
               /\ OldLen(b, g) \in Nat
               /\ c.last = [graph |-> g, node |-> OldLen(b, g) + 1]
               /\ c.provenances = UpdateProvenance(b.provenances, e, g, OldLen(b, g) + 1)
               /\ c.mixed => b.mixed \/ Strays(b, e)
<1> DEFINE g == Target(b, e)
           source == SourceOf(b, e)
           c == Added(b, e, g, source)
           n == OldLen(b, g)
           node == NodeOf(e, source)
<1>1. AddNode(b, e) = c
  BY AddNodeIs
<1>2. /\ g \in 1 .. Len(b.graphs) + 1 /\ source \in 0 .. n /\ source \in Nat
      /\ (g \in DOMAIN b.graphs => b.graphs[g].isNull = (e.ptr = 0) \/ Joins(b, e))
      /\ b.graphs \in Seq(Graph) /\ KnownOK(b) /\ SourcesBefore(b)
  BY TargetFacts DEF BuilderOK
<1> HIDE DEF g, source, c
<1>3. /\ c.graphs \in Seq(Graph)
      /\ Grows(b, c, g, node, e.ptr = 0)
      /\ n \in Nat
      /\ c.last = [graph |-> g, node |-> n + 1]
      /\ c.provenances = UpdateProvenance(b.provenances, e, g, n + 1)
      /\ c.mixed = (b.mixed \/
           (IF g \in DOMAIN b.graphs THEN b.graphs[g].isNull ELSE e.ptr = 0) # (e.ptr = 0))
  BY <1>2, AddedGrows DEF c
<1>4. /\ g \in DOMAIN c.graphs /\ (c.graphs[g].isNull = (e.ptr = 0) \/ Joins(b, e))
      /\ DOMAIN c.graphs[g].nodes = 1 .. n + 1 /\ c.graphs[g].nodes[n + 1] = node
      /\ \A i \in 1 .. n : g \in DOMAIN b.graphs /\ i \in DOMAIN b.graphs[g].nodes
                           /\ c.graphs[g].nodes[i] = b.graphs[g].nodes[i]
      /\ DOMAIN c.graphs = DOMAIN b.graphs \cup {g}
      /\ \A h \in DOMAIN b.graphs \ {g} : c.graphs[h] = b.graphs[h]
  BY <1>2, <1>3 DEF Grows
<1>5. c.mixed => b.mixed \/ Strays(b, e)
  <2>1. CASE g \in DOMAIN b.graphs
    BY <1>2, <1>3, <2>1 DEF Joins
  <2>2. CASE g \notin DOMAIN b.graphs
    BY <1>2, <1>3, <2>2
  <2> QED
    BY <2>1, <2>2
<1>6. KnownOK(c)
  <2> SUFFICES ASSUME NEW s \in DOMAIN c.provenances
               PROVE  /\ s \in Address
                      /\ c.provenances[s].size \in Nat \cup {Unsized}
                      /\ c.provenances[s].graph \in DOMAIN c.graphs
                      /\ c.provenances[s].node \in DOMAIN c.graphs[c.provenances[s].graph].nodes
                      /\ c.graphs[c.provenances[s].graph].isNull = (s = 0)
                      /\ s = 0 => c.provenances[s].size < StaticAt
    BY DEF KnownOK
  <2> DEFINE p == c.provenances[s]
  <2>1. \/ s \in DOMAIN b.provenances /\ p = b.provenances[s]
        \/ e.kind = "alloc" /\ s = e.ptr /\ p = Provenance(e.size, g, n + 1)
        \/ /\ s = e.to /\ p = Provenance(Unsized, g, n + 1)
           /\ e.kind \in {"copy", "offset"} /\ IsNew(b.provenances, e, e.to)
    BY <1>3, UpdateFacts
  <2> HIDE DEF p
  <2>2. n + 1 \in 1 .. n + 1
    BY <1>3
  <2> HIDE DEF n
  <2>3. CASE s \in DOMAIN b.provenances /\ p = b.provenances[s]
    <3>1. /\ s \in Address /\ p.size \in Nat \cup {Unsized}
          /\ p.graph \in DOMAIN b.graphs /\ p.node \in DOMAIN b.graphs[p.graph].nodes
          /\ b.graphs[p.graph].isNull = (s = 0)
          /\ s = 0 => p.size < StaticAt
      BY <1>2, <2>3 DEF KnownOK
    <3>2. /\ p.graph \in DOMAIN c.graphs /\ c.graphs[p.graph].isNull = b.graphs[p.graph].isNull
          /\ p.node \in DOMAIN c.graphs[p.graph].nodes
      BY <1>2, <1>3, <3>1, GrowsKeeps
    <3> QED
      BY <3>1, <3>2 DEF p
  <2>4. CASE e.kind = "alloc" /\ s = e.ptr /\ p = Provenance(e.size, g, n + 1)
    <3>1. p.size = e.size /\ p.graph = g /\ p.node = n + 1
      BY <2>4 DEF Provenance
    <3>2. s \in Address /\ e.size \in Nat /\ e.size < StaticAt
      BY <2>4 DEF EventOK
    <3>3. p.graph \in DOMAIN c.graphs /\ p.node \in DOMAIN c.graphs[p.graph].nodes
          /\ c.graphs[p.graph].isNull = (s = 0)
      BY <1>4, <2>2, <2>4, <3>1 DEF Joins
    <3> QED
      BY <3>1, <3>2, <3>3 DEF p
  <2>5. CASE /\ s = e.to /\ p = Provenance(Unsized, g, n + 1)
             /\ e.kind \in {"copy", "offset"} /\ IsNew(b.provenances, e, e.to)
    <3>1. p.size = Unsized /\ p.graph = g /\ p.node = n + 1
      BY <2>5 DEF Provenance
    <3>2. s \in Address /\ (s = 0 <=> e.ptr = 0)
      BY <2>5 DEF EventOK
    <3>3. p.graph \in DOMAIN c.graphs /\ p.node \in DOMAIN c.graphs[p.graph].nodes
          /\ c.graphs[p.graph].isNull = (s = 0)
      BY <1>4, <2>2, <2>5, <3>1, <3>2 DEF Joins
    <3>4. -1 < StaticAt
      BY StaticIsNat
    <3> QED
      BY <3>1, <3>2, <3>3, <3>4 DEF p, Unsized
  <2> QED
    BY <2>1, <2>3, <2>4, <2>5
<1>7. SourcesBefore(c)
  <2> SUFFICES ASSUME NEW h \in DOMAIN c.graphs, NEW i \in DOMAIN c.graphs[h].nodes
               PROVE  c.graphs[h].nodes[i].source < i
    BY DEF SourcesBefore
  <2>1. CASE h = g /\ i = n + 1
    <3>1. c.graphs[h].nodes[i].source = source
      BY <1>4, <2>1 DEF node, NodeOf
    <3> HIDE DEF n
    <3> QED
      BY <1>2, <1>3, <2>1, <3>1
  <2>2. CASE h = g /\ i # n + 1
    <3> HIDE DEF n, node
    <3>1. i \in 1 .. n
      BY <1>3, <1>4, <2>2
    <3> QED
      BY <1>2, <1>4, <2>2, <3>1 DEF SourcesBefore
  <2>3. CASE h # g
    BY <1>2, <1>4, <2>3 DEF SourcesBefore
  <2> QED
    BY <2>1, <2>2, <2>3
<1>8. BuilderOK(c)
  BY <1>3, <1>6, <1>7 DEF BuilderOK
<1> QED
  BY <1>1, <1>3, <1>5, <1>8 DEF g, source

LEMMA KnownAfter ==
    ASSUME NEW b, BuilderOK(b), NEW e, EventOK(e)
    PROVE  AddNode(b, e).provenances =
              UpdateProvenance(b.provenances, e, Target(b, e), OldLen(b, Target(b, e)) + 1)
BY AddNodeKeeps

(* The size of the last failed request, and whether null was offset to      *)
(* within it, after an event.                                               *)
FailedNow(size, e) == IF e.kind = "alloc" /\ e.ptr = 0 THEN e.size ELSE size

StrayedNow(size, stray, e) == stray \/ e.ptr \in 1 .. size

LEMMA LogKeepsNull ==
    ASSUME NEW b, BuilderOK(b), NEW size, NEW stray, NullOK(b, size, stray), NEW e, EventOK(e)
    PROVE  NullOK(AddNode(b, e), FailedNow(size, e), StrayedNow(size, stray, e))
<1> DEFINE c == AddNode(b, e)
           g == Target(b, e)
           n == OldLen(b, g) + 1
           P == b.provenances
           Q == UpdateProvenance(P, e, g, n)
<1>1. c.provenances = Q /\ (c.mixed => b.mixed \/ Strays(b, e))
  BY AddNodeKeeps
<1> HIDE DEF c, g, n
<1>2. Strays(b, e) => e.ptr \in 1 .. size
  BY DEF Strays, NullOK
<1>3. c.mixed => StrayedNow(size, stray, e)
  BY <1>1, <1>2 DEF NullOK, StrayedNow
<1>4. ASSUME 0 \in DOMAIN Q
      PROVE  Q[0].size \in {Unsized, FailedNow(size, e)}
  <2>1. CASE e.kind = "alloc" /\ e.ptr = 0
    <3>1. Q = Put(P, 0, Provenance(e.size, g, n))
      BY <2>1 DEF UpdateProvenance
    <3>2. Q[0] = Provenance(e.size, g, n)
      BY <3>1 DEF Put
    <3> QED
      BY <2>1, <3>2 DEF Provenance, FailedNow
  <2>2. CASE ~(e.kind = "alloc" /\ e.ptr = 0)
    <3>1. \/ 0 \in DOMAIN P /\ Q[0] = P[0]
          \/ e.kind = "alloc" /\ 0 = e.ptr
          \/ Q[0] = Provenance(Unsized, g, n)
      BY <1>4, UpdateFacts
    <3> HIDE DEF P, Q
    <3>2. 0 \in DOMAIN P => P[0].size \in {Unsized, size}
      BY DEF NullOK, P
    <3> QED
      BY <2>2, <3>1, <3>2 DEF Provenance, FailedNow
  <2> QED
    BY <2>1, <2>2
<1> QED
  BY <1>1, <1>3, <1>4 DEF NullOK, c

-----------------------------------------------------------------------------
(* A set of naturals that is not empty has a least element. *)
LEMMA LeastNatural ==
    ASSUME NEW T, T \subseteq Nat, T # {}
    PROVE  \E m \in T : \A k \in T : m <= k
<1> DEFINE R == {ss \in Nat \X Nat : ss[1] < ss[2]}
<1>1. IsWellFoundedOn(R, Nat)
  BY NatLessThanWellFounded DEF OpToRel
<1> HIDE DEF R
<1>2. PICK m \in T : \A k \in T : ~(<<k, m>> \in R)
  BY <1>1, WFMin, Zenon
<1>3. \A k \in T : ~(k < m)
  BY <1>2 DEF R
<1> QED
  BY <1>2, <1>3

(* A local that a node wrote has a last writer. *)
LEMMA LastWriter ==
    ASSUME NEW S, NEW graph, graph.nodes \in Seq(S), NEW j \in DOMAIN graph.nodes
    PROVE  \E i \in Writers(graph, graph.nodes[j].dest) : i >= j
<1> DEFINE n == Len(graph.nodes)
           l == graph.nodes[j].dest
           K == {k \in j .. n : graph.nodes[k].dest = l}
           T == {n - k : k \in K}
<1>1. n \in Nat /\ DOMAIN graph.nodes = 1 .. n /\ j \in 1 .. n
  OBVIOUS
<1> HIDE DEF n, l
<1>2. K \subseteq 1 .. n /\ j \in K
  BY <1>1 DEF l
<1>3. T \subseteq Nat /\ T # {}
  BY <1>1, <1>2
<1>4. PICK m \in T : \A k \in T : m <= k
  <2> HIDE DEF T
  <2> QED
    BY <1>3, LeastNatural
<1>5. PICK i \in K : \A k \in K : n - i <= n - k
  BY <1>4
<1>6. i \in 1 .. n /\ i >= j /\ graph.nodes[i].dest = l
  BY <1>1, <1>2, <1>5
<1>7. ASSUME NEW k \in i + 1 .. n
      PROVE  graph.nodes[k].dest # l
  <2>1. k \in j .. n /\ ~(n - i <= n - k)
    BY <1>1, <1>6, <1>7
  <2> QED
    BY <1>5, <2>1
<1>8. i \in Writers(graph, l)
  BY <1>1, <1>6, <1>7 DEF Writers, n
<1> QED
  BY <1>6, <1>8 DEF l

-----------------------------------------------------------------------------
(* The node that wrote a local is the last of its activation that did. *)
Names == Locals \ {NoLocal}

(* The node at `at` is where the activation t wrote its local v last. *)
WroteAt(b, t, v, at) ==
    /\ at.graph \in DOMAIN b.graphs
    /\ at.node \in DOMAIN b.graphs[at.graph].nodes
    /\ b.graphs[at.graph].nodes[at.node].dest = v
    /\ b.graphs[at.graph].nodes[at.node].activation = t
    /\ \A k \in DOMAIN b.graphs[at.graph].nodes :
          k > at.node /\ b.graphs[at.graph].nodes[k].dest = v => b.graphs[at.graph].nodes[k].activation # t

WrittenOK(b, w) ==
    /\ w \in [Activations -> [Locals -> At]]
    /\ \A t \in Activations, v \in Names : w[t][v].graph = 0 \/ WroteAt(b, t, v, w[t][v])

SourcesOK(b) ==
    \A g \in DOMAIN b.graphs : \A n \in DOMAIN b.graphs[g].nodes :
        b.graphs[g].nodes[n].input.graph = g =>
            b.graphs[g].nodes[n].input.node \in 1 .. n - 1 /\ Sourced(b.graphs[g].nodes, n)

InputOK(w, e) ==
    \/ e.input = Nowhere
    \/ e.source \in Names /\ e.input = w[e.activation][e.source]

WrittenNow(w, e, last) ==
    IF e.dest = NoLocal THEN w ELSE [w EXCEPT ![e.activation][e.dest] = last]

LEMMA NodesTyped ==
    ASSUME NEW b, b.graphs \in Seq(Graph), NEW g \in DOMAIN b.graphs
    PROVE  b.graphs[g].nodes \in Seq(Node)
<1>1. b.graphs[g] \in Graph
  OBVIOUS
<1> QED
  BY <1>1 DEF Graph

(* A node in a graph that was there has for its source the last node that   *)
(* wrote the local it reads, if there is one.                               *)
LEMMA SourceIsLastWriter ==
    ASSUME NEW b, BuilderOK(b), NEW e, EventOK(e), ~Opens(b, e), e.source # NoLocal,
           NEW j \in DOMAIN b.graphs[Target(b, e)].nodes,
           b.graphs[Target(b, e)].nodes[j].dest = e.source
    PROVE  /\ SourceOf(b, e) \in DOMAIN b.graphs[Target(b, e)].nodes
           /\ SourceOf(b, e) >= j
           /\ b.graphs[Target(b, e)].nodes[SourceOf(b, e)].dest = e.source
<1> DEFINE graph == b.graphs[Target(b, e)]
<1>1. Target(b, e) \in DOMAIN b.graphs
  BY TargetFacts
<1>2. graph.nodes \in Seq(Node)
  BY <1>1, NodesTyped DEF BuilderOK
<1>3. Target(b, e) = Near(b, e).graph
      /\ SourceOf(b, e) = SourceIn(graph, Near(b, e).node, e.source)
  BY DEF Target, SourceOf
<1> HIDE DEF graph
<1>4. j \in DOMAIN graph.nodes /\ graph.nodes[j].dest = e.source
  BY DEF graph
<1>5. PICK i \in Writers(graph, e.source) : i >= j
  BY <1>2, <1>4, LastWriter
<1>6. /\ Max(Writers(graph, e.source)) = i
      /\ i \in 1 .. Len(graph.nodes) /\ graph.nodes[i].dest = e.source
  BY <1>2, <1>5, WritersFacts
<1>7. SourceOf(b, e) = i
  BY <1>3, <1>5, <1>6 DEF SourceIn
<1>8. i \in DOMAIN graph.nodes
  BY <1>2, <1>6
<1> QED
  BY <1>5, <1>6, <1>7, <1>8 DEF graph

LEMMA LogKeepsSources ==
    ASSUME NEW b, BuilderOK(b), NEW w, WrittenOK(b, w), SourcesOK(b),
           NEW e, EventOK(e), InputOK(w, e)
    PROVE  SourcesOK(AddNode(b, e))
<1> DEFINE c == AddNode(b, e)
           g == Target(b, e)
           n == OldLen(b, g)
           source == SourceOf(b, e)
           t == e.activation
<1> SUFFICES ASSUME NEW h \in DOMAIN c.graphs, NEW i \in DOMAIN c.graphs[h].nodes,
                    c.graphs[h].nodes[i].input.graph = h
             PROVE  c.graphs[h].nodes[i].input.node \in 1 .. i - 1 /\ Sourced(c.graphs[h].nodes, i)
  BY DEF SourcesOK
<1>1. /\ b.graphs \in Seq(Graph) /\ n \in Nat /\ g \in 1 .. Len(b.graphs) + 1
      /\ Grows(b, c, g, NodeOf(e, source), e.ptr = 0)
      /\ (g \in DOMAIN b.graphs <=> ~Opens(b, e))
      /\ c.graphs \in Seq(Graph)
  BY AddNodeKeeps, TargetFacts DEF BuilderOK
<1> HIDE DEF c, g
<1>2. CASE h \in DOMAIN b.graphs /\ i \in DOMAIN b.graphs[h].nodes
  <2>0. b.graphs[h].nodes \in Seq(Node) /\ c.graphs[h].nodes \in Seq(Node)
    BY <1>1, <1>2, NodesTyped
  <2>1. \A k \in DOMAIN b.graphs[h].nodes : c.graphs[h].nodes[k] = b.graphs[h].nodes[k]
    BY <1>1, <1>2, GrowsKeeps
  <2>2. /\ b.graphs[h].nodes[i].input.node \in 1 .. i - 1
        /\ Sourced(b.graphs[h].nodes, i)
    BY <1>2, <2>1 DEF SourcesOK
  <2> DEFINE old == b.graphs[h].nodes
             new == c.graphs[h].nodes
             m == Len(old)
             j == old[i].input.node
  <2>3. m \in Nat /\ DOMAIN old = 1 .. m /\ i \in 1 .. m /\ j \in 1 .. i - 1
    BY <1>2, <2>0, <2>2
  <2>4. old[i].source = j \/ \E k \in j + 1 .. i - 1 : old[k].dest = old[j].dest /\ old[k].activation # old[i].activation
    BY <2>2 DEF Sourced
  <2>5. \A k \in 1 .. m : new[k] = old[k]
    BY <2>1, <2>3
  <2> HIDE DEF old, m
  <2>6. j \in 1 .. m /\ \A k \in j + 1 .. i - 1 : k \in 1 .. m
    BY <2>3
  <2>7. new[i].input.node = j
    BY <2>3, <2>5
  <2> HIDE DEF j, new
  <2>8. new[i].source = j \/ \E k \in j + 1 .. i - 1 : new[k].dest = new[j].dest /\ new[k].activation # new[i].activation
    BY <2>3, <2>4, <2>5, <2>6
  <2>9. Sourced(new, i)
    BY <2>7, <2>8 DEF Sourced
  <2> QED
    BY <2>3, <2>7, <2>9 DEF new
<1>3. CASE ~(h \in DOMAIN b.graphs /\ i \in DOMAIN b.graphs[h].nodes)
  <2>1. h = g /\ i = n + 1 /\ c.graphs[g].nodes[i] = NodeOf(e, source)
    <3>1. h = g
      BY <1>1, <1>3 DEF Grows
    <3>2. i \in 1 .. n + 1 /\ i \notin 1 .. n
      BY <1>1, <1>3, <3>1 DEF Grows
    <3> HIDE DEF n
    <3>3. i = n + 1
      BY <1>1, <3>2
    <3> QED
      BY <1>1, <3>1, <3>3 DEF Grows, n
  <2>2. /\ c.graphs[g].nodes[i].input = e.input /\ c.graphs[g].nodes[i].source = source
        /\ c.graphs[g].nodes[i].activation = t
    BY <2>1 DEF NodeOf
  <2>3. e.input.graph = g
    BY <2>1, <2>2
  <2>4. e.input # Nowhere
    BY <1>1, <2>3 DEF Nowhere
  <2>5. e.source \in Names /\ e.input = w[t][e.source] /\ t \in Activations
    BY <2>4 DEF InputOK, EventOK
  <2>6. WroteAt(b, t, e.source, e.input)
    BY <1>1, <2>3, <2>5 DEF WrittenOK
  <2> DEFINE old == b.graphs[g].nodes
             new == c.graphs[g].nodes
             j == e.input.node
  <2>7. /\ g \in DOMAIN b.graphs /\ j \in DOMAIN old
        /\ old[j].dest = e.source
        /\ \A k \in DOMAIN old : k > j /\ old[k].dest = e.source => old[k].activation # t
    BY <2>3, <2>6 DEF WroteAt
  <2>8. /\ source \in DOMAIN old /\ source >= j /\ old[source].dest = e.source
    <3>1. e.source # NoLocal /\ ~Opens(b, e)
      BY <1>1, <2>5, <2>7 DEF Names
    <3> QED
      BY <2>7, <3>1, SourceIsLastWriter DEF g
  <2>9. old \in Seq(Node)
    BY <1>1, <2>7, NodesTyped
  <2>10. DOMAIN old = 1 .. n
    BY <2>7, <2>9 DEF OldLen
  <2>11. \A k \in 1 .. n : new[k] = old[k]
    BY <1>1, <2>7, <2>10, GrowsKeeps
  <2>12. new[i].input.node = j /\ new[i].source = source /\ new[i].activation = t
    BY <2>2
  <2> HIDE DEF n, old, new, j, source, t
  <2>13. j \in 1 .. i - 1 /\ source \in 1 .. i - 1 /\ j \in 1 .. n /\ source \in 1 .. n
    BY <1>1, <2>1, <2>7, <2>8, <2>10
  <2>14. Sourced(new, i)
    <3>1. CASE source = j
      BY <2>12, <3>1 DEF Sourced
    <3>2. CASE source # j
      <4>1. source \in j + 1 .. i - 1 /\ source > j
        BY <2>8, <2>13, <3>2
      <4>2. old[source].activation # t
        BY <2>7, <2>8, <4>1
      <4>3. new[source].dest = new[j].dest /\ new[source].activation # new[i].activation
        BY <2>7, <2>8, <2>11, <2>12, <2>13, <4>2
      <4> QED
        BY <2>12, <4>1, <4>3 DEF Sourced
    <3> QED
      BY <3>1, <3>2
  <2> QED
    BY <2>1, <2>12, <2>13, <2>14 DEF new
<1> QED
  BY <1>2, <1>3

LEMMA LogKeepsWritten ==
    ASSUME NEW b, BuilderOK(b), NEW w, WrittenOK(b, w), NEW e, EventOK(e)
    PROVE  WrittenOK(AddNode(b, e), WrittenNow(w, e, AddNode(b, e).last))
<1> DEFINE c == AddNode(b, e)
           g == Target(b, e)
           n == OldLen(b, g)
           z == WrittenNow(w, e, c.last)
           t == e.activation
<1>1. /\ b.graphs \in Seq(Graph) /\ n \in Nat /\ g \in 1 .. Len(b.graphs) + 1
      /\ Grows(b, c, g, NodeOf(e, SourceOf(b, e)), e.ptr = 0)
      /\ c.last = [graph |-> g, node |-> n + 1]
      /\ c.graphs \in Seq(Graph)
  BY AddNodeKeeps, TargetFacts DEF BuilderOK
<1> HIDE DEF c, g
<1>2. g \in Nat
  BY <1>1
<1>3. /\ g \in DOMAIN c.graphs /\ DOMAIN c.graphs[g].nodes = 1 .. n + 1
      /\ c.graphs[g].nodes[n + 1].dest = e.dest /\ c.graphs[g].nodes[n + 1].activation = t
      /\ \A h \in DOMAIN b.graphs \ {g} : c.graphs[h] = b.graphs[h]
  BY <1>1 DEF Grows, NodeOf
<1> HIDE DEF n
<1>4. c.last \in At
  BY <1>1, <1>2 DEF At
<1>5. t \in Activations /\ w \in [Activations -> [Locals -> At]]
  BY DEF EventOK, WrittenOK
<1>6. z \in [Activations -> [Locals -> At]]
  <2>1. CASE e.dest = NoLocal
    BY <1>5, <2>1 DEF WrittenNow
  <2>2. CASE e.dest # NoLocal
    <3>1. z = [w EXCEPT ![t][e.dest] = c.last]
      BY <2>2 DEF WrittenNow
    <3> HIDE DEF z, t
    <3> QED
      BY <1>4, <1>5, <3>1
  <2> QED
    BY <2>1, <2>2
<1>7. ASSUME NEW u \in Activations, NEW v \in Names
      PROVE  z[u][v].graph = 0 \/ WroteAt(c, u, v, z[u][v])
  <2>1. CASE u = t /\ v = e.dest
    <3>1. z[u][v] = c.last
      <4>1. z = [w EXCEPT ![t][e.dest] = c.last]
        BY <2>1 DEF WrittenNow, Names
      <4> HIDE DEF z, t
      <4> QED
        BY <1>5, <2>1, <4>1 DEF Names
    <3>2. c.last.graph = g /\ c.last.node = n + 1
      BY <1>1
    <3>3. n + 1 \in 1 .. n + 1 /\ \A k \in 1 .. n + 1 : ~(k > n + 1)
      BY <1>1
    <3>4. WroteAt(c, u, v, c.last)
      BY <1>3, <2>1, <3>2, <3>3 DEF WroteAt
    <3> QED
      BY <3>1, <3>4
  <2>2. CASE ~(u = t /\ v = e.dest)
    <3>1. z[u][v] = w[u][v]
      <4>1. CASE e.dest = NoLocal
        BY <4>1 DEF WrittenNow
      <4>2. CASE e.dest # NoLocal
        <5>1. z = [w EXCEPT ![t][e.dest] = c.last]
          BY <4>2 DEF WrittenNow
        <5> HIDE DEF z, t
        <5> QED
          BY <1>5, <2>2, <5>1 DEF Names
      <4> QED
        BY <4>1, <4>2
    <3> DEFINE x == w[u][v]
    <3>2. x.graph = 0 \/ WroteAt(b, u, v, x)
      BY DEF WrittenOK
    <3>3. ASSUME WroteAt(b, u, v, x)
          PROVE  WroteAt(c, u, v, x)
      <4> HIDE DEF x
      <4>1. /\ x.graph \in DOMAIN b.graphs /\ x.node \in DOMAIN b.graphs[x.graph].nodes
            /\ b.graphs[x.graph].nodes[x.node].dest = v
            /\ b.graphs[x.graph].nodes[x.node].activation = u
            /\ \A k \in DOMAIN b.graphs[x.graph].nodes :
                 k > x.node /\ b.graphs[x.graph].nodes[k].dest = v => b.graphs[x.graph].nodes[k].activation # u
        BY <3>3 DEF WroteAt
      <4>2. /\ x.graph \in DOMAIN c.graphs
            /\ \A i \in DOMAIN b.graphs[x.graph].nodes :
                 i \in DOMAIN c.graphs[x.graph].nodes
                 /\ c.graphs[x.graph].nodes[i] = b.graphs[x.graph].nodes[i]
        BY <1>1, <4>1, GrowsKeeps
      <4>3. ASSUME NEW k \in DOMAIN c.graphs[x.graph].nodes, k > x.node,
                   c.graphs[x.graph].nodes[k].dest = v
            PROVE  c.graphs[x.graph].nodes[k].activation # u
        <5>1. CASE k \in DOMAIN b.graphs[x.graph].nodes
          BY <4>1, <4>2, <4>3, <5>1
        <5>2. CASE k \notin DOMAIN b.graphs[x.graph].nodes
          <6>1. x.graph = g
            BY <1>3, <4>1, <5>2
          <6>2. k \in 1 .. n + 1 /\ k \notin 1 .. n
            <7>1. DOMAIN b.graphs[g].nodes = 1 .. n
              BY <1>1, <4>1, <6>1 DEF Graph, OldLen, n
            <7> QED
              BY <1>3, <5>2, <6>1, <7>1
          <6>3. k = n + 1
            BY <1>1, <6>2
          <6> QED
            BY <1>3, <2>2, <4>3, <6>1, <6>3
        <5> QED
          BY <5>1, <5>2
      <4> QED
        BY <4>1, <4>2, <4>3 DEF WroteAt
    <3> QED
      BY <3>1, <3>2, <3>3
  <2> QED
    BY <2>1, <2>2
<1> QED
  BY <1>6, <1>7 DEF WrittenOK, c

-----------------------------------------------------------------------------
(* The program's pointers. *)
Pointer == [ptr : Int, object : Int]
Object  == [at : Starts, size : Sizes, id : Int]

(* Null, dead, what null was offset to, to the static object or its end, or *)
(* to an allocated object or its end.                                       *)
PtrOK(p, objects) ==
    /\ p \in Pointer
    /\ \/ p = Dead
       \/ p = Null
       \/ p.object = 0 /\ p.ptr \in NullOffsets
       \/ p.object = 1 /\ p.ptr \in {StaticAt, StaticAt + 1}
       \/ \E o \in objects : p.object = o.id /\ p.ptr \in o.at .. o.at + o.size

LiveOK ==
    /\ nextId \in Nat /\ 2 <= nextId
    /\ \A o \in live : o \in Object /\ o.id \in 2 .. nextId - 1
    /\ \A o, p \in live : o = p \/ (Apart(o, p) /\ o.id # p.id)

(* A local points where it may, and was written by the node `written` names. *)
LocalsOK ==
    /\ locals \in [Activations -> [Locals -> Pointer]]
    /\ \A t \in Activations, v \in Locals : PtrOK(locals[t][v], live)
    /\ PtrOK(cell, live)

(* What a hook has still to log. *)
HookOK(t, e, w) == e.activation = t /\ EventOK(e) /\ InputOK(w, e)

AllocOK(t, e, w) == HookOK(t, e, w) /\ e.kind = "alloc"
FreeOK(t, e, w)  == HookOK(t, e, w) /\ e.kind = "free" /\ e.dest = NoLocal

QueueOK(t, q, w) ==
    \/ q = <<>>
    \/ q = <<q[1]>> /\ (AllocOK(t, q[1], w) \/ FreeOK(t, q[1], w))
    \/ q = <<q[1], q[2]>> /\ FreeOK(t, q[1], w) /\ AllocOK(t, q[2], w)

PendingOK ==
    /\ DOMAIN pending = Activations
    /\ \A t \in Activations : QueueOK(t, pending[t], written)

(* The invariant that holds though the log be misled. *)
BaseInv ==
    /\ LiveOK
    /\ LocalsOK
    /\ PendingOK
    /\ BuilderOK(builder)
    /\ NullOK(builder, failed, strayed)
    /\ WrittenOK(builder, written)
    /\ SourcesOK(builder)

-----------------------------------------------------------------------------
LEMMA PtrFacts ==
    ASSUME NEW objects, \A o \in objects : o \in Object, NEW p, PtrOK(p, objects), p # Dead
    PROVE  p.ptr \in Address /\ p.object \in Int /\ p.ptr \in Int
<1>1. p.ptr \in Int /\ p.object \in Int
  BY DEF PtrOK, Pointer
<1>2. CASE p = Null
  BY <1>1, <1>2 DEF Null, Address
<1>2a. CASE p.object = 0 /\ p.ptr \in NullOffsets
  BY <1>1, <1>2a DEF Address
<1>3. CASE p.object = 1 /\ p.ptr \in {StaticAt, StaticAt + 1}
  BY <1>1, <1>3, StaticIsNat DEF Address
<1>4. CASE \E o \in objects : p.object = o.id /\ p.ptr \in o.at .. o.at + o.size
  <2>1. PICK o \in objects : p.ptr \in o.at .. o.at + o.size
    BY <1>4
  <2>2. o.at \in Starts
    BY DEF Object
  <2>3. o.at \in Nat /\ StaticAt + 1 < o.at
    BY <2>2, AddressAssumption
  <2> QED
    BY <1>1, <2>1, <2>3, StaticIsNat DEF Address
<1> QED
  BY <1>2, <1>2a, <1>3, <1>4 DEF PtrOK

LEMMA FixedPointers ==
    ASSUME NEW objects
    PROVE  /\ PtrOK(Null, objects) /\ PtrOK(Dead, objects) /\ PtrOK(Static, objects)
           /\ \A k \in NullOffsets : PtrOK(Stray(k), objects) /\ Stray(k) # Dead
BY StaticIsNat DEF PtrOK, Null, Dead, Static, Stray, Pointer

(* An event about a pointer of the program. *)
About(e, t, kind, p, source, dest) ==
    /\ e.kind = kind /\ e.ptr = p.ptr /\ e.source = source /\ e.dest = dest
    /\ e.activation = t /\ e.object = p.object
    /\ e.input = IF source = NoLocal THEN Nowhere ELSE written[t][source]

LEMMA EventFacts ==
    ASSUME BaseInv, NEW t \in Activations, NEW kind \in Kinds, NEW p, PtrOK(p, live), p # Dead,
           NEW source \in Locals \cup {NoLocal}, NEW dest \in Dests, NEW e,
           About(e, t, kind, p, source, dest),
           e.to \in Address, e.to = 0 <=> p.ptr = 0, kind = "alloc" => e.size \in Sizes,
           kind = "copy" => e.to = p.ptr, kind = "offset" => p.ptr \notin NullOffsets
    PROVE  HookOK(t, e, written) /\ e.kind = kind /\ e.dest = dest
<1>1. p.ptr \in Address /\ p.object \in Int
  BY PtrFacts DEF BaseInv, LiveOK
<1>2. written \in [Activations -> [Locals -> At]]
  BY DEF BaseInv, WrittenOK
<1>3. Nowhere \in At
  BY DEF Nowhere, At
<1>4. e.size \in Sizes => e.size \in Nat /\ e.size < StaticAt
  BY AddressAssumption
<1>6. e.input \in At
  BY <1>2, <1>3 DEF About
<1>7. EventOK(e)
  BY <1>1, <1>4, <1>6 DEF EventOK, About
<1>8. InputOK(written, e)
  BY DEF InputOK, Names, About
<1> QED
  BY <1>7, <1>8 DEF HookOK, About

LEMMA PlainEvent ==
    ASSUME BaseInv, NEW t \in Activations, NEW kind \in Kinds \ {"alloc", "offset"}, NEW p, PtrOK(p, live), p # Dead,
           NEW source \in Locals \cup {NoLocal}, NEW dest \in Dests, NEW e,
           e = Event(t, kind, p, source, dest)
    PROVE  HookOK(t, e, written) /\ e.kind = kind /\ e.dest = dest
<1>1. About(e, t, kind, p, source, dest) /\ e.to = p.ptr
  BY DEF Event, About
<1>2. p.ptr \in Address
  BY PtrFacts DEF BaseInv, LiveOK
<1> QED
  BY <1>1, <1>2, EventFacts

LEMMA AllocEvent ==
    ASSUME BaseInv, NEW t \in Activations, NEW v \in Results, NEW at \in Starts \cup {0}, NEW id \in Int,
           NEW size \in Sizes, NEW e, e = AllocOf(t, v, [ptr |-> at, object |-> id], size)
    PROVE  AllocOK(t, e, written) /\ e.dest = v /\ e.ptr = at /\ e.size = size /\ e.object = id
<1>1. /\ e.kind = "alloc" /\ e.ptr = at /\ e.to = at /\ e.size = size /\ e.dest = v
      /\ e.activation = t /\ e.object = id /\ e.input = Nowhere
  BY DEF AllocOf, Event
<1>2. at \in Address
  BY AddressAssumption DEF Address
<1>3. Nowhere \in At
  BY DEF Nowhere, At
<1>4. size \in Nat /\ size < StaticAt
  BY AddressAssumption
<1>5. EventOK(e)
  <2>1. e.dest \in Dests
    BY <1>1 DEF Dests
  <2>2. e.kind \in Kinds
    BY <1>1 DEF Kinds
  <2>3. id \in Int /\ t \in Activations
    OBVIOUS
  <2> QED
    BY <1>1, <1>2, <1>3, <1>4, <2>1, <2>2, <2>3 DEF EventOK
<1> QED
  BY <1>1, <1>5 DEF AllocOK, HookOK, InputOK

-----------------------------------------------------------------------------
(* What a sent event does to the log. *)
LEMMA LogStep ==
    ASSUME BaseInv, NEW t \in Activations, NEW e, HookOK(t, e, written), Log(t, e)
    PROVE  /\ BuilderOK(builder') /\ WrittenOK(builder', written') /\ SourcesOK(builder')
           /\ NullOK(builder', failed', strayed')
           /\ \A u \in Activations \ {t} : written'[u] = written[u]
           /\ e.dest = NoLocal => written' = written
<1>1. /\ BuilderOK(builder) /\ WrittenOK(builder, written) /\ SourcesOK(builder)
      /\ EventOK(e) /\ InputOK(written, e) /\ e.activation = t
  BY DEF BaseInv, HookOK
<1>2. PICK b, w : b = builder /\ w = written
  OBVIOUS
<1>3. /\ builder' = AddNode(b, e)
      /\ written' = WrittenNow(w, e, AddNode(b, e).last)
  BY <1>1, <1>2 DEF Log, WrittenNow
<1>4. BuilderOK(b) /\ WrittenOK(b, w) /\ SourcesOK(b) /\ InputOK(w, e)
  BY <1>1, <1>2
<1>5. BuilderOK(AddNode(b, e)) /\ SourcesOK(AddNode(b, e))
      /\ WrittenOK(AddNode(b, e), WrittenNow(w, e, AddNode(b, e).last))
  BY <1>1, <1>4, AddNodeKeeps, LogKeepsSources, LogKeepsWritten
<1>6. \A u \in Activations \ {t} : written'[u] = written[u]
  <2>1. w \in [Activations -> [Locals -> At]]
    BY <1>4 DEF WrittenOK
  <2> QED
    BY <1>1, <1>2, <1>3, <2>1 DEF WrittenNow
<1>7. e.dest = NoLocal => written' = written
  BY <1>2, <1>3 DEF WrittenNow
<1>8. NullOK(builder', failed', strayed')
  <2>1. PICK size, stray : size = failed /\ stray = strayed
    OBVIOUS
  <2>2. failed' = FailedNow(size, e) /\ strayed' = StrayedNow(size, stray, e)
    BY <2>1 DEF Log, FailedNow, StrayedNow
  <2>3. NullOK(b, size, stray)
    BY <1>2, <2>1 DEF BaseInv
  <2>4. NullOK(AddNode(b, e), FailedNow(size, e), StrayedNow(size, stray, e))
    BY <1>1, <1>4, <2>3, LogKeepsNull
  <2> QED
    BY <1>3, <2>2, <2>4
<1> QED
  BY <1>3, <1>5, <1>6, <1>7, <1>8

(* A queue is as it was as long as its activation's locals are. *)
LEMMA QueueKept ==
    ASSUME NEW t, NEW q, NEW w, NEW x, QueueOK(t, q, w), x[t] = w[t]
    PROVE  QueueOK(t, q, x)
BY DEF QueueOK, AllocOK, FreeOK, HookOK, InputOK

LEMMA PendingKept ==
    ASSUME PendingOK, pending' = pending, NEW t \in Activations, pending[t] = <<>>,
           \A u \in Activations \ {t} : written'[u] = written[u]
    PROVE  PendingOK'
<1>1. ASSUME NEW u \in Activations
      PROVE  QueueOK(u, pending[u], written')
  <2>1. QueueOK(u, pending[u], written)
    BY DEF PendingOK
  <2>2. CASE u = t
    BY <2>2 DEF QueueOK
  <2>3. CASE u # t
    BY <2>1, <2>3, QueueKept
  <2> QED
    BY <2>2, <2>3
<1> QED
  BY <1>1 DEF PendingOK

LEMMA QueueSet ==
    ASSUME PendingOK, NEW t \in Activations, NEW q, pending' = [pending EXCEPT ![t] = q],
           QueueOK(t, q, written'), \A u \in Activations \ {t} : written'[u] = written[u]
    PROVE  PendingOK'
<1>1. ASSUME NEW u \in Activations
      PROVE  QueueOK(u, pending'[u], written')
  <2>1. QueueOK(u, pending[u], written)
    BY DEF PendingOK
  <2>2. CASE u = t
    BY <2>2 DEF PendingOK
  <2>3. CASE u # t
    <3>1. pending'[u] = pending[u]
      BY <2>3 DEF PendingOK
    <3> QED
      BY <2>1, <2>3, <3>1, QueueKept
  <2> QED
    BY <2>2, <2>3
<1> QED
  BY <1>1 DEF PendingOK

LEMMA SetsKeeps ==
    ASSUME LocalsOK, NEW t, NEW v, NEW p, Sets(t, v, p), PtrOK(p, live), live' = live
    PROVE  LocalsOK'
<1>1. locals' \in [Activations -> [Locals -> Pointer]]
  BY DEF LocalsOK, Sets, PtrOK
<1>2. ASSUME NEW u \in Activations, NEW x \in Locals
      PROVE  locals'[u][x] = p \/ locals'[u][x] = locals[u][x]
  BY DEF LocalsOK, Sets
<1>3. \A u \in Activations, x \in Locals : PtrOK(locals'[u][x], live')
  BY <1>2 DEF LocalsOK
<1> QED
  BY <1>1, <1>3 DEF LocalsOK, Sets

-----------------------------------------------------------------------------
LEMMA RunsFacts == ASSUME NEW t, NEW n, Runs(t, n) PROVE pending[t] = <<>>
BY Zenon DEF Runs

(* An activation sends an event at once. *)
LEMMA SentAtOnce ==
    ASSUME BaseInv, NEW t \in Activations, NEW e, HookOK(t, e, written), Log(t, e), pending[t] = <<>>,
           Keeps, LocalsOK'
    PROVE  BaseInv'
<1>1. /\ BuilderOK(builder') /\ WrittenOK(builder', written') /\ SourcesOK(builder')
      /\ NullOK(builder', failed', strayed')
      /\ \A u \in Activations \ {t} : written'[u] = written[u]
  BY LogStep
<1>2. pending' = pending /\ live' = live /\ nextId' = nextId
  BY DEF Keeps
<1>3. PendingOK'
  BY <1>1, <1>2, PendingKept DEF BaseInv
<1>4. LiveOK'
  BY <1>2 DEF BaseInv, LiveOK
<1> QED
  BY <1>1, <1>3, <1>4 DEF BaseInv

LEMMA LocalsUnchanged ==
    ASSUME BaseInv, UNCHANGED <<locals, cell, live>> PROVE LocalsOK'
BY DEF BaseInv, LocalsOK

LEMMA CopyBase ==
    ASSUME BaseInv, NEW t \in Activations, NEW v \in Locals, NEW w \in Locals, Copy(t, v, w) PROVE BaseInv'
<1>1. PICK p, e : p = locals[t][w] /\ e = Event(t, "copy", p, w, v)
  OBVIOUS
<1>2. pending[t] = <<>> /\ p # Dead /\ Sets(t, v, p) /\ Log(t, e) /\ Keeps
  BY <1>1, RunsFacts DEF Copy
<1>3. PtrOK(p, live)
  BY <1>1 DEF BaseInv, LocalsOK
<1>4. HookOK(t, e, written)
  BY <1>1, <1>2, <1>3, PlainEvent DEF Kinds, Dests
<1>5. LocalsOK'
  BY <1>2, <1>3, SetsKeeps DEF BaseInv, Keeps
<1> QED
  BY <1>2, <1>4, <1>5, SentAtOnce

LEMMA SetNullBase ==
    ASSUME BaseInv, NEW t \in Activations, NEW v \in Results, SetNull(t, v) PROVE BaseInv'
<1>1. PICK p, e : p = Null /\ e = Event(t, "copy", p, NoLocal, v)
  OBVIOUS
<1>2. pending[t] = <<>> /\ Sets(t, v, p) /\ Log(t, e) /\ Keeps
  BY <1>1, RunsFacts DEF SetNull
<1>3. PtrOK(p, live) /\ p # Dead
  BY <1>1, FixedPointers DEF Null, Dead
<1>4. HookOK(t, e, written)
  <2>1. v \in Dests /\ NoLocal \in Locals \cup {NoLocal} /\ "copy" \in Kinds
    BY DEF Dests, Kinds
  <2> QED
    BY <1>1, <1>3, <2>1, PlainEvent
<1>5. LocalsOK'
  BY <1>2, <1>3, SetsKeeps DEF BaseInv, Keeps
<1> QED
  BY <1>2, <1>4, <1>5, SentAtOnce

(* Where a pointer's object ends. *)
LEMMA EndFacts ==
    ASSUME LiveOK, NEW p, PtrOK(p, live), p.object > 0, p.ptr < EndOf(p)
    PROVE  \/ p.object = 1 /\ p.ptr = StaticAt
           \/ \E o \in live : p.object = o.id /\ p.ptr \in o.at .. o.at + o.size /\ p.ptr + 1 \in o.at .. o.at + o.size
<1>1. CASE p.object = 1 /\ p.ptr \in {StaticAt, StaticAt + 1}
  BY <1>1, StaticIsNat DEF EndOf
<1>2. CASE \E o \in live : p.object = o.id /\ p.ptr \in o.at .. o.at + o.size
  <2>1. PICK o \in live : p.object = o.id /\ p.ptr \in o.at .. o.at + o.size
    BY <1>2
  <2>2. o.id \in 2 .. nextId - 1 /\ \A q \in live : q.id = p.object => q = o
    BY <2>1 DEF LiveOK
  <2> DEFINE z == CHOOSE z \in live : z.id = p.object
  <2>3. z = o
    BY <2>1, <2>2
  <2> HIDE DEF z
  <2>4. p.object # 1
    BY <2>1, <2>2 DEF LiveOK
  <2>5. EndOf(p) = z.at + z.size
    BY <2>4 DEF EndOf, z
  <2>6. o.at \in Nat /\ o.size \in Nat
    BY <2>1, AddressAssumption DEF LiveOK, Object
  <2>7. p.ptr + 1 \in o.at .. o.at + o.size
    BY <2>1, <2>3, <2>5, <2>6
  <2> QED
    BY <2>1, <2>7
<1> QED
  BY <1>1, <1>2 DEF PtrOK, Dead, Null

LEMMA OffsetBase ==
    ASSUME BaseInv, NEW t \in Activations, NEW v \in Locals, NEW w \in Locals, Offset(t, v, w) PROVE BaseInv'
<1>1. PICK p, q, e : /\ p = locals[t][w] /\ q = [p EXCEPT !.ptr = @ + 1]
                     /\ e = [Event(t, "offset", p, w, v) EXCEPT !.to = q.ptr]
  OBVIOUS
<1>2. /\ pending[t] = <<>> /\ p.object > 0 /\ p # Dead /\ p.ptr < EndOf(p)
      /\ Sets(t, v, q) /\ Log(t, e) /\ Keeps
  BY <1>1, RunsFacts DEF Offset, Dead
<1>3. PtrOK(p, live) /\ p \in Pointer
  BY <1>1 DEF BaseInv, LocalsOK, PtrOK
<1>4. q \in Pointer /\ q.ptr = p.ptr + 1 /\ q.object = p.object
  BY <1>1, <1>3 DEF Pointer
<1>5. \/ p.object = 1 /\ p.ptr = StaticAt
      \/ \E o \in live : p.object = o.id /\ p.ptr \in o.at .. o.at + o.size /\ p.ptr + 1 \in o.at .. o.at + o.size
  BY <1>2, <1>3, EndFacts DEF BaseInv
<1>6. PtrOK(q, live)
  BY <1>4, <1>5 DEF PtrOK
<1>7. p.ptr \in Address /\ p.ptr # 0 /\ p.ptr \notin NullOffsets
  <2>1. p.ptr \in Address
    BY <1>2, <1>3, PtrFacts DEF BaseInv, LiveOK
  <2>2. CASE p.object = 1 /\ p.ptr = StaticAt
    BY <2>1, <2>2, StaticIsNat
  <2>3. CASE \E o \in live : p.ptr \in o.at .. o.at + o.size
    <3>1. PICK o \in live : p.ptr \in o.at .. o.at + o.size
      BY <2>3
    <3>2. o.at \in Starts
      BY DEF BaseInv, LiveOK, Object
    <3>3. o.at \in Nat /\ StaticAt + 1 < o.at
      BY <3>2, AddressAssumption
    <3> QED
      BY <2>1, <3>1, <3>3, StaticIsNat
  <2> QED
    BY <1>5, <2>1, <2>2, <2>3
<1>8. HookOK(t, e, written)
  <2>1. About(e, t, "offset", p, w, v) /\ e.to = q.ptr
    BY <1>1 DEF About, Event
  <2>2. q.ptr \in Address /\ q.ptr # 0
    BY <1>3, <1>4, <1>7, StaticIsNat DEF Address, Pointer
  <2> QED
    BY <1>2, <1>3, <1>7, <2>1, <2>2, EventFacts DEF Kinds, Dests
<1>9. LocalsOK'
  BY <1>2, <1>6, SetsKeeps DEF BaseInv, Keeps
<1> QED
  BY <1>2, <1>8, <1>9, SentAtOnce

LEMMA OffsetNullBase ==
    ASSUME BaseInv, NEW t \in Activations, NEW v \in Locals, NEW w \in Locals, OffsetNull(t, v, w) PROVE BaseInv'
<1>1. PICK q, e : /\ e = Event(t, "copy", q, w, v)
                  /\ q \in {locals[t][x] : x \in Locals} \cup {Stray(k) : k \in NullOffsets}
                  /\ q # Dead /\ Sets(t, v, q) /\ Log(t, e)
  BY DEF OffsetNull
<1>2. pending[t] = <<>> /\ Keeps
  BY RunsFacts DEF OffsetNull
<1>3. PtrOK(q, live)
  BY <1>1, FixedPointers DEF BaseInv, LocalsOK
<1>4. HookOK(t, e, written)
  BY <1>1, <1>3, PlainEvent DEF Kinds, Dests
<1>5. LocalsOK'
  BY <1>1, <1>2, <1>3, SetsKeeps DEF BaseInv, Keeps
<1> QED
  BY <1>1, <1>2, <1>4, <1>5, SentAtOnce

-----------------------------------------------------------------------------
LEMMA UseBase ==
    ASSUME BaseInv, NEW t \in Activations, NEW w \in Locals, Use(t, w) PROVE BaseInv'
<1>1. PICK p, e : p = locals[t][w] /\ e = Event(t, "use", p, w, NoLocal)
  OBVIOUS
<1>2. pending[t] = <<>> /\ p # Dead /\ Log(t, e) /\ Keeps /\ UNCHANGED <<locals, cell>>
  BY <1>1, RunsFacts DEF Use, Dead
<1>3. PtrOK(p, live)
  BY <1>1 DEF BaseInv, LocalsOK
<1>4. HookOK(t, e, written)
  BY <1>1, <1>2, <1>3, PlainEvent DEF Kinds, Dests
<1>5. LocalsOK'
  BY <1>2, LocalsUnchanged DEF Keeps
<1> QED
  BY <1>2, <1>4, <1>5, SentAtOnce

LEMMA StoreValueBase ==
    ASSUME BaseInv, NEW t \in Activations, NEW w \in Locals, StoreValue(t, w) PROVE BaseInv'
<1>1. PICK p, e : p = locals[t][w] /\ e = Event(t, "store", p, w, NoLocal)
  OBVIOUS
<1>2. pending[t] = <<>> /\ p # Dead /\ Log(t, e) /\ Keeps /\ UNCHANGED locals /\ cell' = p
  BY <1>1, RunsFacts DEF StoreValue
<1>3. PtrOK(p, live)
  BY <1>1 DEF BaseInv, LocalsOK
<1>4. HookOK(t, e, written)
  BY <1>1, <1>2, <1>3, PlainEvent DEF Kinds, Dests
<1>5. LocalsOK'
  BY <1>2, <1>3 DEF Keeps, LocalsOK, BaseInv
<1> QED
  BY <1>2, <1>4, <1>5, SentAtOnce

LEMMA LoadValueBase ==
    ASSUME BaseInv, NEW t \in Activations, NEW v \in Results, LoadValue(t, v) PROVE BaseInv'
<1>1. PICK p, e : p = cell /\ e = Event(t, "value", p, NoLocal, v)
  OBVIOUS
<1>2. pending[t] = <<>> /\ p # Dead /\ Log(t, e) /\ Keeps /\ Sets(t, v, p)
  BY <1>1, RunsFacts DEF LoadValue
<1>3. PtrOK(p, live)
  BY <1>1 DEF BaseInv, LocalsOK
<1>4. HookOK(t, e, written)
  <2>1. v \in Dests /\ NoLocal \in Locals \cup {NoLocal} /\ "value" \in Kinds
    BY DEF Dests, Kinds
  <2>2. PtrOK(p, live) /\ p # Dead /\ e = Event(t, "value", p, NoLocal, v)
    BY <1>1, <1>2, <1>3
  <2> QED
    BY <2>1, <2>2, PlainEvent
<1>5. LocalsOK'
  BY <1>2, <1>3, SetsKeeps DEF BaseInv, Keeps
<1> QED
  BY <1>2, <1>4, <1>5, SentAtOnce

LEMMA FreeNullBase ==
    ASSUME BaseInv, NEW t \in Activations, NEW w \in Locals, FreeNull(t, w) PROVE BaseInv'
<1>1. PICK p, e : p = Null /\ e = Event(t, "free", p, w, NoLocal)
  OBVIOUS
<1>2. pending[t] = <<>> /\ Log(t, e) /\ Keeps /\ UNCHANGED <<locals, cell>>
  BY <1>1, RunsFacts DEF FreeNull
<1>3. PtrOK(p, live) /\ p # Dead
  BY <1>1, FixedPointers DEF Null, Dead
<1>4. HookOK(t, e, written)
  BY <1>1, <1>3, PlainEvent DEF Kinds, Dests
<1>5. LocalsOK'
  BY <1>2, LocalsUnchanged DEF Keeps
<1> QED
  BY <1>2, <1>4, <1>5, SentAtOnce

LEMMA MallocFailsBase ==
    ASSUME BaseInv, NEW t \in Activations, NEW v \in Results, NEW size \in Sizes, MallocFails(t, v, size)
    PROVE  BaseInv'
<1>1. PICK p, e : p = Null /\ e = AllocOf(t, v, p, size)
  OBVIOUS
<1>2. pending[t] = <<>> /\ Log(t, e) /\ Keeps /\ Sets(t, v, p)
  BY <1>1, RunsFacts DEF MallocFails
<1>3. PtrOK(p, live)
  BY <1>1, FixedPointers
<1>4. HookOK(t, e, written)
  <2>1. e = AllocOf(t, v, [ptr |-> 0, object |-> 0], size) /\ 0 \in Starts \cup {0} /\ 0 \in Int
    BY <1>1 DEF Null
  <2> QED
    BY <2>1, AllocEvent DEF AllocOK
<1>5. LocalsOK'
  BY <1>2, <1>3, SetsKeeps DEF BaseInv, Keeps
<1> QED
  BY <1>2, <1>4, <1>5, SentAtOnce

-----------------------------------------------------------------------------
(* An activation makes a call and its hook waits to log it. *)
LEMMA CallMade ==
    ASSUME BaseInv, NEW t \in Activations, NEW q, pending' = [pending EXCEPT ![t] = q],
           QueueOK(t, q, written), Quiet, LiveOK', LocalsOK'
    PROVE  BaseInv'
<1>1. written' = written /\ builder' = builder /\ failed' = failed /\ strayed' = strayed
  BY DEF Quiet
<1>2. PendingOK'
  BY <1>1, QueueSet DEF BaseInv
<1> QED
  BY <1>1, <1>2 DEF BaseInv

LEMMA PtrMore ==
    ASSUME NEW S, NEW T, S \subseteq T, NEW p, PtrOK(p, S) PROVE PtrOK(p, T)
BY DEF PtrOK

LEMMA PtrForgets ==
    ASSUME NEW S, NEW o, NEW p, PtrOK(p, S), p.object # o.id PROVE PtrOK(p, S \ {o})
BY DEF PtrOK

(* The objects after one was allocated. *)
LEMMA LiveMore ==
    ASSUME LiveOK, NEW S \in SUBSET live, NEW at \in Starts, NEW size \in Sizes, NEW o,
           o = [at |-> at, size |-> size, id |-> nextId],
           Fits(at, size, S), live' = S \cup {o}, nextId' = nextId + 1
    PROVE  LiveOK'
<1>1. nextId' \in Nat /\ 2 <= nextId' /\ nextId \in 2 .. nextId' - 1
      /\ \A x \in 2 .. nextId - 1 : x \in 2 .. nextId' - 1 /\ x # nextId
  BY DEF LiveOK
<1>2. o \in Object /\ o.id = nextId /\ o.at = at /\ o.size = size
  BY DEF Object, LiveOK
<1>3. ASSUME NEW q \in S
      PROVE  Apart(o, q) /\ Apart(q, o) /\ q.id # o.id /\ q \in Object /\ q.id \in 2 .. nextId' - 1
  <2>1. Apart([at |-> at, size |-> size], q)
    BY DEF Fits
  <2>2. Apart(o, q) /\ Apart(q, o)
    BY <1>2, <2>1 DEF Apart
  <2>3. q \in Object /\ q.id \in 2 .. nextId - 1
    BY DEF LiveOK
  <2> QED
    BY <1>1, <1>2, <2>2, <2>3
<1>4. \A q, r \in S : q = r \/ (Apart(q, r) /\ q.id # r.id)
  BY DEF LiveOK
<1>5. \A q \in live' : q \in Object /\ q.id \in 2 .. nextId' - 1
  BY <1>1, <1>2, <1>3
<1>6. \A q, r \in live' : q = r \/ (Apart(q, r) /\ q.id # r.id)
  BY <1>3, <1>4
<1> QED
  BY <1>1, <1>5, <1>6 DEF LiveOK

LEMMA NewPointer ==
    ASSUME NEW S, NEW at \in Starts, NEW size \in Sizes, NEW id \in Int,
           [at |-> at, size |-> size, id |-> id] \in S
    PROVE  PtrOK([ptr |-> at, object |-> id], S)
<1>1. at \in Nat /\ size \in Nat
  BY AddressAssumption
<1>2. at \in at .. at + size
  BY <1>1
<1> DEFINE p == [ptr |-> at, object |-> id]
           o == [at |-> at, size |-> size, id |-> id]
<1>3. p \in Pointer /\ p.object = o.id /\ p.ptr \in o.at .. o.at + o.size
  BY <1>1, <1>2 DEF Pointer
<1> HIDE DEF p
<1> QED
  BY <1>3 DEF PtrOK, p

LEMMA MallocBase ==
    ASSUME BaseInv, NEW t \in Activations, NEW v \in Results, NEW size \in Sizes, Malloc(t, v, size)
    PROVE  BaseInv'
<1>1. PICK at, id, o, p, e :
         /\ at \in Starts /\ id = nextId /\ o = [at |-> at, size |-> size, id |-> id] /\ p = [ptr |-> at, object |-> id]
         /\ e = AllocOf(t, v, p, size)
         /\ Fits(at, size, live) /\ Sets(t, v, p) /\ live' = live \cup {o}
         /\ pending' = [pending EXCEPT ![t] = <<e>>]
  BY DEF Malloc
<1>2. nextId' = nextId + 1 /\ Quiet
  BY DEF Malloc
<1>3. id \in Int
  BY <1>1 DEF BaseInv, LiveOK
<1>4. LiveOK'
  BY <1>1, <1>2, LiveMore DEF BaseInv
<1>5. PtrOK(p, live')
  BY <1>1, <1>3, NewPointer
<1>6. LocalsOK'
  <2>1. locals \in [Activations -> [Locals -> Pointer]]
        /\ (\A u \in Activations, x \in Locals : PtrOK(locals[u][x], live)) /\ PtrOK(cell, live)
    BY DEF BaseInv, LocalsOK
  <2>2. locals' = [locals EXCEPT ![t][v] = p] /\ cell' = cell
    BY <1>1 DEF Sets
  <2>3. live \subseteq live' /\ p \in Pointer
    BY <1>1, <1>5 DEF PtrOK
  <2>4. locals' \in [Activations -> [Locals -> Pointer]]
    BY <2>1, <2>2, <2>3
  <2>5. ASSUME NEW u \in Activations, NEW x \in Locals
        PROVE  PtrOK(locals'[u][x], live')
    <3>1. locals'[u][x] = p \/ locals'[u][x] = locals[u][x]
      BY <2>1, <2>2
    <3>2. PtrOK(locals[u][x], live')
      BY <2>1, <2>3, PtrMore
    <3> QED
      BY <1>5, <3>1, <3>2
  <2>6. PtrOK(cell', live')
    BY <2>1, <2>2, <2>3, PtrMore
  <2> QED
    BY <2>4, <2>5, <2>6 DEF LocalsOK
<1>7. QueueOK(t, <<e>>, written)
  <2>1. AllocOK(t, e, written)
    BY <1>1, <1>3, AllocEvent
  <2> QED
    BY <2>1 DEF QueueOK
<1> QED
  BY <1>1, <1>2, <1>4, <1>6, <1>7, CallMade

-----------------------------------------------------------------------------
LEMMA FreeEvent ==
    ASSUME BaseInv, NEW t \in Activations, NEW w \in Locals, NEW p, p = locals[t][w],
           NEW o \in ObjectAt(p), NEW e, e = Event(t, "free", p, w, NoLocal)
    PROVE  FreeOK(t, e, written) /\ o \in live /\ p.object = o.id
<1>1. PtrOK(p, live) /\ o \in live /\ p.object = o.id /\ o.id \in 2 .. nextId - 1
  BY DEF BaseInv, LocalsOK, ObjectAt, LiveOK
<1>2. p # Dead
  BY <1>1 DEF Dead, BaseInv, LiveOK
<1>3. HookOK(t, e, written) /\ e.kind = "free" /\ e.dest = NoLocal
  BY <1>1, <1>2, PlainEvent DEF Kinds, Dests
<1> QED
  BY <1>1, <1>3 DEF FreeOK

LEMMA FreeBase ==
    ASSUME BaseInv, NEW t \in Activations, NEW w \in Locals, Free(t, w) PROVE BaseInv'
<1>1. PICK p, e, o :
         /\ o \in ObjectAt(p) /\ p = locals[t][w] /\ e = Event(t, "free", p, w, NoLocal)
         /\ live' = live \ {o} /\ Forget(o.id)
         /\ pending' = [pending EXCEPT ![t] = <<e>>]
  BY DEF Free
<1>2. Quiet /\ nextId' = nextId
  BY DEF Free
<1>3. FreeOK(t, e, written) /\ o \in live
  BY <1>1, FreeEvent
<1>4. LiveOK'
  BY <1>1, <1>2 DEF BaseInv, LiveOK
<1>5. LocalsOK'
  <2>1. locals \in [Activations -> [Locals -> Pointer]]
        /\ (\A u \in Activations, x \in Locals : PtrOK(locals[u][x], live)) /\ PtrOK(cell, live)
    BY DEF BaseInv, LocalsOK
  <2>2. /\ locals' = [u \in Activations |-> [x \in Locals |-> IF locals[u][x].object = o.id THEN Dead ELSE locals[u][x]]]
        /\ cell' = IF cell.object = o.id THEN Dead ELSE cell
    BY <1>1 DEF Forget
  <2>3. Dead \in Pointer
    BY DEF Dead, Pointer
  <2>4. locals' \in [Activations -> [Locals -> Pointer]]
    BY <2>1, <2>2, <2>3
  <2>5. ASSUME NEW u \in Activations, NEW x \in Locals
        PROVE  PtrOK(locals'[u][x], live')
    <3>1. locals'[u][x] = IF locals[u][x].object = o.id THEN Dead ELSE locals[u][x]
      BY <2>2
    <3> QED
      BY <1>1, <2>1, <3>1, PtrForgets, FixedPointers
  <2>6. PtrOK(cell', live')
    BY <1>1, <2>1, <2>2, PtrForgets, FixedPointers
  <2> QED
    BY <2>4, <2>5, <2>6 DEF LocalsOK
<1>6. QueueOK(t, <<e>>, written)
  BY <1>3 DEF QueueOK
<1> QED
  BY <1>1, <1>2, <1>4, <1>5, <1>6, CallMade

LEMMA ReallocFailsBase ==
    ASSUME BaseInv, NEW t \in Activations, NEW v \in Results, NEW w \in Locals, NEW size \in Sizes,
           ReallocFails(t, v, w, size)
    PROVE  BaseInv'
<1>1. PICK p, null, e, f : /\ p = locals[t][w] /\ e = Event(t, "free", p, w, NoLocal)
                           /\ null = Null /\ f = AllocOf(t, v, null, size)
  OBVIOUS
<1>2. /\ Quiet /\ nextId' = nextId /\ live' = live /\ ObjectAt(p) # {} /\ Sets(t, v, null)
      /\ pending' = [pending EXCEPT ![t] = <<e, f>>]
  BY <1>1 DEF ReallocFails, ReallocLogs
<1>3. PICK o : o \in ObjectAt(p)
  BY <1>2
<1>4. FreeOK(t, e, written)
  BY <1>1, <1>3, FreeEvent
<1>5. AllocOK(t, f, written)
  <2>1. f = AllocOf(t, v, [ptr |-> 0, object |-> 0], size) /\ 0 \in Starts \cup {0} /\ 0 \in Int
    BY <1>1 DEF Null
  <2> QED
    BY <2>1, AllocEvent
<1>6. LiveOK'
  BY <1>2 DEF BaseInv, LiveOK
<1>7. LocalsOK'
  BY <1>1, <1>2, SetsKeeps, FixedPointers DEF BaseInv
<1>8. QueueOK(t, <<e, f>>, written)
  BY <1>4, <1>5 DEF QueueOK
<1> QED
  BY <1>2, <1>6, <1>7, <1>8, CallMade

(* The locals when nothing is left that points into an object. *)
Forgotten(id) ==
    [t \in Activations |-> [v \in Locals |-> IF locals[t][v].object = id THEN Dead ELSE locals[t][v]]]

(* realloc of the object o to the object n. *)
Moves(t, v, w, size, o, n) ==
    /\ o \in ObjectAt(locals[t][w]) /\ n.at \in Starts
    /\ n = [at |-> n.at, size |-> size, id |-> nextId]
    /\ Fits(n.at, size, live \ {o})
    /\ n.at = o.at \/ Apart(n, o)
    /\ live' = (live \ {o}) \cup {n} /\ unlogged' = unlogged \cup {o}
    /\ locals' = [Forgotten(o.id) EXCEPT ![t][v] = [ptr |-> n.at, object |-> nextId]]
    /\ cell' = IF cell.object = o.id THEN Dead ELSE cell
    /\ pending' = [pending EXCEPT ![t] =
          <<Event(t, "free", locals[t][w], w, NoLocal),
            AllocOf(t, v, [ptr |-> n.at, object |-> nextId], size)>>]
    /\ misled' = (misled \/ \E f \in unlogged : ~Apart(n, f))

LEMMA ReallocMoves ==
    ASSUME NEW t, NEW v, NEW w, NEW size, Realloc(t, v, w, size)
    PROVE  \E o, n : Moves(t, v, w, size, o, n)
<1>1. PICK o \in ObjectAt(locals[t][w]), at \in Starts :
         /\ Fits(at, size, live \ {o})
         /\ at = o.at \/ Apart([at |-> at, size |-> size, id |-> nextId], o)
         /\ live' = (live \ {o}) \cup {[at |-> at, size |-> size, id |-> nextId]}
         /\ unlogged' = unlogged \cup {o}
         /\ locals' = [Forgotten(o.id) EXCEPT ![t][v] = [ptr |-> at, object |-> nextId]]
         /\ cell' = IF cell.object = o.id THEN Dead ELSE cell
         /\ pending' = [pending EXCEPT ![t] =
               <<Event(t, "free", locals[t][w], w, NoLocal),
                 AllocOf(t, v, [ptr |-> at, object |-> nextId], size)>>]
         /\ misled' = (misled \/ \E f \in unlogged : ~Apart([at |-> at, size |-> size, id |-> nextId], f))
  BY Zenon DEF Realloc, ReallocLogs, Forgotten
<1>2. PICK n : n = [at |-> at, size |-> size, id |-> nextId]
  OBVIOUS
<1>3. n.at = at
  BY <1>2
<1>4. Moves(t, v, w, size, o, n)
  BY <1>1, <1>2, <1>3, Zenon DEF Moves
<1> QED
  BY <1>4

LEMMA ReallocBase ==
    ASSUME BaseInv, NEW t \in Activations, NEW v \in Results, NEW w \in Locals, NEW size \in Sizes,
           Realloc(t, v, w, size)
    PROVE  BaseInv'
<1>0. PICK o, n : Moves(t, v, w, size, o, n)
  BY ReallocMoves
<1> DEFINE at == n.at
<1>1. PICK p, id, e, q, f, forgotten :
         /\ p = locals[t][w] /\ id = nextId /\ e = Event(t, "free", p, w, NoLocal)
         /\ q = [ptr |-> at, object |-> id] /\ f = AllocOf(t, v, q, size)
         /\ forgotten = Forgotten(o.id)
  OBVIOUS
<1>1a. /\ o \in ObjectAt(p) /\ at \in Starts
       /\ n = [at |-> at, size |-> size, id |-> id]
       /\ Fits(at, size, live \ {o}) /\ live' = (live \ {o}) \cup {n}
       /\ locals' = [forgotten EXCEPT ![t][v] = q]
       /\ cell' = IF cell.object = o.id THEN Dead ELSE cell
       /\ pending' = [pending EXCEPT ![t] = <<e, f>>]
  BY <1>0, <1>1, Zenon DEF Moves
<1> HIDE DEF at
<1>2. Quiet /\ nextId' = nextId + 1
  BY DEF Realloc
<1>3. FreeOK(t, e, written) /\ o \in live
  BY <1>1, <1>1a, FreeEvent
<1>4. id \in Int
  BY <1>1 DEF BaseInv, LiveOK
<1>5. AllocOK(t, f, written)
  BY <1>1, <1>1a, <1>4, AllocEvent
<1>6. LiveOK'
  BY <1>1, <1>1a, <1>2, LiveMore DEF BaseInv
<1>7. PtrOK(q, live')
  BY <1>1, <1>1a, <1>4, NewPointer
<1>8. LocalsOK'
  <2>1. locals \in [Activations -> [Locals -> Pointer]]
        /\ (\A u \in Activations, x \in Locals : PtrOK(locals[u][x], live)) /\ PtrOK(cell, live)
    BY DEF BaseInv, LocalsOK
  <2>2. Dead \in Pointer /\ q \in Pointer
    BY <1>7 DEF Dead, Pointer, PtrOK
  <2>3. forgotten \in [Activations -> [Locals -> Pointer]]
    BY <1>1, <2>1, <2>2 DEF Forgotten
  <2>4. locals' \in [Activations -> [Locals -> Pointer]]
    BY <1>1, <1>1a, <2>2, <2>3
  <2>5. live \ {o} \subseteq live'
    BY <1>1, <1>1a
  <2>6. ASSUME NEW r, PtrOK(r, live)
        PROVE  PtrOK(IF r.object = o.id THEN Dead ELSE r, live')
    <3>1. CASE r.object = o.id
      BY <3>1, FixedPointers
    <3>2. CASE r.object # o.id
      <4>1. PtrOK(r, live \ {o})
        BY <2>6, <3>2, PtrForgets
      <4> QED
        BY <2>5, <3>2, <4>1, PtrMore
    <3> QED
      BY <3>1, <3>2
  <2>7. ASSUME NEW u \in Activations, NEW x \in Locals
        PROVE  PtrOK(locals'[u][x], live')
    <3>1. locals'[u][x] = q \/ locals'[u][x] = forgotten[u][x]
      BY <1>1, <1>1a, <2>3
    <3>2. PICK r : r = locals[u][x]
      OBVIOUS
    <3>3. forgotten[u][x] = IF r.object = o.id THEN Dead ELSE r
      BY <1>1, <3>2 DEF Forgotten
    <3>4. PtrOK(forgotten[u][x], live')
      BY <2>1, <2>6, <3>2, <3>3
    <3> QED
      BY <1>7, <3>1, <3>4
  <2>8. PtrOK(cell', live')
    <3>1. PICK r : r = cell
      OBVIOUS
    <3> QED
      BY <1>1, <1>1a, <2>1, <2>6, <3>1
  <2> QED
    BY <2>4, <2>7, <2>8 DEF LocalsOK
<1>9. QueueOK(t, <<e, f>>, written)
  BY <1>3, <1>5 DEF QueueOK
<1> QED
  BY <1>1, <1>1a, <1>2, <1>6, <1>8, <1>9, CallMade

LEMMA QueueOfOne == ASSUME NEW x PROVE Head(<<x>>) = x /\ Tail(<<x>>) = <<>>
  OBVIOUS

LEMMA QueueOfTwo == ASSUME NEW x, NEW y PROVE Head(<<x, y>>) = x /\ Tail(<<x, y>>) = <<y>>
  OBVIOUS

LEMMA SendBase ==
    ASSUME BaseInv, NEW t \in Activations, Send(t) PROVE BaseInv'
<1>1. PICK q, w : q = pending[t] /\ w = written
  OBVIOUS
<1>2. /\ q # <<>> /\ Log(t, Head(q)) /\ pending' = [pending EXCEPT ![t] = Tail(q)]
      /\ UNCHANGED <<program, nextId>>
  BY <1>1 DEF Send, PendingOK
<1>3. QueueOK(t, q, w) /\ PendingOK
  BY <1>1 DEF BaseInv, PendingOK
<1>4. PICK e, rest : /\ e = Head(q) /\ rest = Tail(q) /\ HookOK(t, e, w)
                     /\ \/ rest = <<>>
                        \/ e.dest = NoLocal /\ rest = <<rest[1]>> /\ AllocOK(t, rest[1], w)
  <2>1. CASE q = <<q[1]>> /\ (AllocOK(t, q[1], w) \/ FreeOK(t, q[1], w))
    <3>1. Head(q) = q[1] /\ Tail(q) = <<>>
      BY <2>1, QueueOfOne
    <3> QED
      BY <2>1, <3>1 DEF AllocOK, FreeOK
  <2>2. CASE q = <<q[1], q[2]>> /\ FreeOK(t, q[1], w) /\ AllocOK(t, q[2], w)
    <3>1. Head(q) = q[1] /\ Tail(q) = <<q[2]>>
      BY <2>2, QueueOfTwo
    <3>2. Tail(q)[1] = q[2]
      BY <3>1
    <3> QED
      BY <2>2, <3>1, <3>2 DEF FreeOK
  <2> QED
    BY <1>2, <1>3, <2>1, <2>2 DEF QueueOK
<1>5. /\ BuilderOK(builder') /\ WrittenOK(builder', written') /\ SourcesOK(builder')
      /\ NullOK(builder', failed', strayed')
      /\ \A u \in Activations \ {t} : written'[u] = written[u]
      /\ e.dest = NoLocal => written' = written
  BY <1>1, <1>2, <1>4, LogStep
<1>6. QueueOK(t, rest, written')
  <2>1. CASE rest = <<>>
    BY <2>1 DEF QueueOK
  <2>2. CASE e.dest = NoLocal /\ rest = <<rest[1]>> /\ AllocOK(t, rest[1], w)
    <3>1. written' = w
      BY <1>1, <1>5, <2>2
    <3> QED
      BY <2>2, <3>1 DEF QueueOK
  <2> QED
    BY <1>4, <2>1, <2>2
<1>7. PendingOK'
  BY <1>2, <1>3, <1>4, <1>5, <1>6, QueueSet
<1>8. LiveOK' /\ LocalsOK'
  BY <1>2 DEF program, BaseInv, LiveOK, LocalsOK
<1> QED
  BY <1>5, <1>7, <1>8 DEF BaseInv

-----------------------------------------------------------------------------
LEMMA InitBase == Init => BaseInv
<1> SUFFICES ASSUME Init PROVE BaseInv
  OBVIOUS
<1>1. LiveOK
  BY DEF Init, LiveOK
<1>2. LocalsOK
  <2>1. Dead \in Pointer /\ PtrOK(Dead, live) /\ PtrOK(Static, live)
    BY FixedPointers DEF Dead, Pointer
  <2> QED
    BY <2>1 DEF Init, LocalsOK
<1>3. PendingOK
  BY DEF Init, PendingOK, QueueOK
<1>4. builder.graphs = <<>> /\ builder.provenances = <<>> /\ builder.mixed = FALSE
  BY DEF Init, NewBuilder
<1>5. DOMAIN builder.graphs = {} /\ DOMAIN builder.provenances = {} /\ builder.graphs \in Seq(Graph)
  BY <1>4
<1>6. BuilderOK(builder) /\ NullOK(builder, failed, strayed)
  BY <1>4, <1>5 DEF BuilderOK, KnownOK, SourcesBefore, NullOK
<1>7. SourcesOK(builder)
  BY <1>5 DEF SourcesOK
<1>8. WrittenOK(builder, written)
  <2>1. Nowhere \in At /\ Nowhere.graph = 0
    BY DEF Nowhere, At
  <2> QED
    BY <2>1 DEF Init, WrittenOK, Names
<1> QED
  BY <1>1, <1>2, <1>3, <1>6, <1>7, <1>8 DEF BaseInv

LEMMA NextBase == BaseInv /\ [Next]_vars => BaseInv'
<1> SUFFICES ASSUME BaseInv, [Next]_vars PROVE BaseInv'
  OBVIOUS
<1>1. ASSUME NEW t \in Activations, NEW v \in Results, SetNull(t, v) PROVE BaseInv'
  BY <1>1, SetNullBase
<1>2. ASSUME NEW t \in Activations, NEW v \in Results, LoadValue(t, v) PROVE BaseInv'
  BY <1>2, LoadValueBase
<1>3. ASSUME NEW t \in Activations, NEW v \in Results, NEW size \in Sizes, Malloc(t, v, size) PROVE BaseInv'
  BY <1>3, MallocBase
<1>4. ASSUME NEW t \in Activations, NEW v \in Results, NEW size \in Sizes, MallocFails(t, v, size) PROVE BaseInv'
  BY <1>4, MallocFailsBase
<1>5. ASSUME NEW t \in Activations, NEW w \in Locals, StoreValue(t, w) PROVE BaseInv'
  BY <1>5, StoreValueBase
<1>6. ASSUME NEW t \in Activations, NEW w \in Locals, Use(t, w) PROVE BaseInv'
  BY <1>6, UseBase
<1>7. ASSUME NEW t \in Activations, NEW w \in Locals, Free(t, w) PROVE BaseInv'
  BY <1>7, FreeBase
<1>8. ASSUME NEW t \in Activations, NEW w \in Locals, FreeNull(t, w) PROVE BaseInv'
  BY <1>8, FreeNullBase
<1>9. ASSUME NEW t \in Activations, NEW v \in Locals, NEW w \in Locals, Copy(t, v, w) PROVE BaseInv'
  BY <1>9, CopyBase
<1>10. ASSUME NEW t \in Activations, NEW v \in Locals, NEW w \in Locals, Offset(t, v, w) PROVE BaseInv'
  BY <1>10, OffsetBase
<1>10a. ASSUME NEW t \in Activations, NEW v \in Locals, NEW w \in Locals, OffsetNull(t, v, w) PROVE BaseInv'
  BY <1>10a, OffsetNullBase
<1>11. ASSUME NEW t \in Activations, NEW v \in Results, NEW w \in Locals, NEW size \in Sizes,
              Realloc(t, v, w, size)
       PROVE  BaseInv'
  BY <1>11, ReallocBase
<1>12. ASSUME NEW t \in Activations, NEW v \in Results, NEW w \in Locals, NEW size \in Sizes,
              ReallocFails(t, v, w, size)
       PROVE  BaseInv'
  BY <1>12, ReallocFailsBase
<1>13. ASSUME NEW t \in Activations, Send(t) PROVE BaseInv'
  BY <1>13, SendBase
<1>14. CASE UNCHANGED vars
  BY <1>14 DEF vars, program, BaseInv, LiveOK, LocalsOK, PendingOK
<1> QED
  BY <1>1, <1>2, <1>3, <1>4, <1>5, <1>6, <1>7, <1>8, <1>9, <1>10, <1>10a, <1>11, <1>12, <1>13, <1>14 DEF Next

LEMMA BaseInductive == Spec => []BaseInv
<1> QED
  BY InitBase, NextBase, PTL DEF Spec

(* Objects are disjoint, their identities are past ones, every known        *)
(* address is that of a graph, and sources come before their nodes.         *)
THEOREM TypeCorrect == Spec => []TypeOK
<1>1. BaseInv => TypeOK
  <2> SUFFICES ASSUME BaseInv PROVE TypeOK
    OBVIOUS
  <2>1. ASSUME NEW t \in Activations, NEW v \in Locals
        PROVE  locals[t][v].object < nextId
    <3>1. PtrOK(locals[t][v], live) /\ LiveOK
      BY DEF BaseInv, LocalsOK
    <3> QED
      BY <3>1 DEF PtrOK, LiveOK, Dead, Null
  <2>2. ASSUME NEW at \in DOMAIN builder.provenances
        PROVE  builder.provenances[at].graph \in DOMAIN builder.graphs
    BY DEF BaseInv, BuilderOK, KnownOK
  <2>3. ASSUME NEW g \in DOMAIN builder.graphs, NEW n \in DOMAIN Nodes(g)
        PROVE  Nodes(g)[n].source < n
    BY DEF BaseInv, BuilderOK, SourcesBefore, Nodes
  <2> QED
    BY <2>1, <2>2, <2>3 DEF TypeOK, BaseInv, LiveOK
<1> QED
  BY <1>1, BaseInductive, PTL

(* add_node's assertion fails only after null was offset to within the size *)
(* of the last request that failed: an event about null finds only graphs   *)
(* of null pointers and no other event does, though the log be misled.      *)
THEOREM NullsStayApart == Spec => []NullsApart
<1>1. BaseInv => NullsApart
  BY DEF BaseInv, NullOK, NullsApart
<1> QED
  BY <1>1, BaseInductive, PTL

(* A node's source is the node that produced its input, unless another      *)
(* activation's write to its own local of that number came between          *)
(* (add_node's direct_source looks at the number of the local alone).       *)
THEOREM SourcesCorrect == Spec => []SourceIsInput
<1>1. BaseInv => SourceIsInput
  BY DEF BaseInv, SourcesOK, SourceIsInput, Nodes
<1> QED
  BY <1>1, BaseInductive, PTL

-----------------------------------------------------------------------------
(* What the builder knows, and what is in its graphs, as long as the log    *)
(* tells the truth.  The objects of `tracked` are those whose end is not    *)
(* logged and whose beginning is; those of `there` are all whose end is not *)
(* logged.                                                                  *)
ObjectsOf(b, g) == {b.graphs[g].nodes[n].object : n \in DOMAIN b.graphs[g].nodes}

Low == {0, StaticAt, StaticAt + 1} \cup NullOffsets

(* What is known of null and what it is offset to, of the static object and *)
(* its end, ...                                                             *)
LowEntry(b, s) ==
    /\ s \in Low
    /\ s # 0 => b.provenances[s].size = Unsized
    /\ \A x \in ObjectsOf(b, b.provenances[s].graph) : x < 2

(* ... of a heap object, ... *)
HeapEntry(b, o) ==
    /\ o.at \in DOMAIN b.provenances
    /\ b.provenances[o.at].size = o.size
    /\ ObjectsOf(b, b.provenances[o.at].graph) = {o.id}
    /\ \A n \in DOMAIN b.graphs[b.provenances[o.at].graph].nodes :
          b.graphs[b.provenances[o.at].graph].nodes[n].kind # "free"

(* ... and of nothing else. *)
Tells(b, tracked) ==
    /\ \A s \in DOMAIN b.provenances : LowEntry(b, s) \/ \E o \in tracked : o.at = s
    /\ \A o \in tracked : HeapEntry(b, o)

(* GraphPerObject and FreeIsTheEnd, of any builder. *)
PerObject(b) ==
    \A g, h \in DOMAIN b.graphs : \A x \in ObjectsOf(b, g) :
        x >= 2 => ObjectsOf(b, g) = {x} /\ (x \in ObjectsOf(b, h) => h = g)

FreeLast(b, there) ==
    \A g \in DOMAIN b.graphs : \A n \in DOMAIN b.graphs[g].nodes :
        b.graphs[g].nodes[n].kind = "free" /\ b.graphs[g].nodes[n].object >= 2 =>
            n = Len(b.graphs[g].nodes) /\ \A o \in there : o.id \notin ObjectsOf(b, g)

(* No graph has an object that was not there yet. *)
Begun(b, next) == \A g \in DOMAIN b.graphs : \A x \in ObjectsOf(b, g) : x < next

(* Identities are of one object each; tracked objects lie apart. *)
Space(tracked, there, next) ==
    /\ next \in Nat /\ tracked \subseteq there
    /\ \A o \in there : o \in Object /\ o.id \in 2 .. next - 1
    /\ \A o, p \in there : o = p \/ o.id # p.id
    /\ \A o, p \in tracked : o = p \/ Apart(o, p)

(* No graph has an object whose beginning is not logged. *)
Untold(b, tracked, there) ==
    \A o \in there \ tracked : \A g \in DOMAIN b.graphs : o.id \notin ObjectsOf(b, g)

-----------------------------------------------------------------------------
LEMMA ObjectFacts ==
    ASSUME NEW o \in Object
    PROVE  /\ o.at \in Nat /\ o.size \in Nat /\ o.size > 0 /\ o.id \in Int /\ StaticAt + 1 < o.at
           /\ o.at \notin Low
<1>1. o.at \in Starts /\ o.size \in Sizes /\ o.id \in Int
  BY DEF Object
<1>2. o.at \in Nat /\ StaticAt + 1 < o.at
  BY <1>1, AddressAssumption
<1>3. o.size \in Nat /\ o.size > 0
  <2>1. Sizes \subseteq Nat \ {0}
    BY AddressAssumption
  <2>2. o.size \in Nat \ {0}
    BY <1>1, <2>1
  <2> QED
    BY <2>2
<1> QED
  BY <1>1, <1>2, <1>3, StaticIsNat DEF Low

(* A pointer into a tracked object, or to its end, finds that object. *)
LEMMA FindsTracked ==
    ASSUME NEW b, BuilderOK(b), NEW tracked, NEW there, NEW next, Space(tracked, there, next),
           Tells(b, tracked), NEW o \in tracked, NEW a \in o.at .. o.at + o.size
    PROVE  /\ Max(Below(b.provenances, a)) = o.at
           /\ Below(b.provenances, a) # {}
           /\ Covers(b.provenances, o.at, a)
           /\ Found(b.provenances, a) = {o.at}
<1> DEFINE P == b.provenances
<1>1. o \in Object /\ o.at \in Nat /\ o.size \in Nat /\ StaticAt + 1 < o.at
  BY ObjectFacts DEF Space
<1>2. o.at \in DOMAIN P /\ P[o.at].size = o.size
  BY DEF Tells, HeapEntry
<1>3. DOMAIN P \subseteq Int
  BY StaticIsNat DEF BuilderOK, KnownOK, Address
<1>4. o.at \in Below(P, a)
  BY <1>1, <1>2 DEF Below
<1>5. ASSUME NEW s \in Below(P, a)
      PROVE  s <= o.at
  <2>1. s \in DOMAIN P /\ s <= a /\ s \in Int
    BY <1>3 DEF Below
  <2>2. CASE LowEntry(b, s)
    BY <1>1, <2>2, StaticIsNat DEF LowEntry, Low
  <2>3. CASE \E p \in tracked : p.at = s
    <3>1. PICK p \in tracked : p.at = s
      BY <2>3
    <3>2. p \in Object /\ p.at \in Nat /\ p.size \in Nat
      BY ObjectFacts DEF Space
    <3>3. o = p \/ p.at + p.size < o.at \/ o.at + o.size < p.at
      BY DEF Space, Apart
    <3> QED
      BY <1>1, <2>1, <3>1, <3>2, <3>3
  <2> QED
    BY <2>1, <2>2, <2>3 DEF Tells
<1>6. Below(P, a) \subseteq Int
  BY <1>3 DEF Below
<1>7. Max(Below(P, a)) = o.at
  BY <1>4, <1>5, <1>6, MaxOf
<1>8. Covers(P, o.at, a)
  <2>1. P[o.at].size # Unsized
    BY <1>1, <1>2 DEF Unsized
  <2> QED
    BY <1>1, <1>2, <2>1 DEF Covers
<1>9. Found(P, a) = {o.at}
  BY <1>4, <1>7, <1>8 DEF Found
<1> QED
  BY <1>4, <1>7, <1>8, <1>9

(* A low pointer finds nothing or a low entry. *)
LEMMA FindsLow ==
    ASSUME NEW b, BuilderOK(b), NEW tracked, NEW there, NEW next, Space(tracked, there, next),
           Tells(b, tracked), NEW a \in Low, NEW s \in Found(b.provenances, a)
    PROVE  s \in DOMAIN b.provenances /\ LowEntry(b, s)
<1>1. s \in DOMAIN b.provenances /\ s <= a
  BY DEF Found, Below
<1>2. a <= StaticAt + 1
  BY StaticIsNat DEF Low
<1>3. ASSUME NEW o \in tracked, o.at = s
      PROVE  FALSE
  <2>1. o.at \in Nat /\ StaticAt + 1 < o.at
    BY ObjectFacts DEF Space
  <2>2. a \in Nat
    BY StaticIsNat DEF Low
  <2> QED
    BY <1>1, <1>2, <1>3, <2>1, <2>2, StaticIsNat
<1> QED
  BY <1>1, <1>3 DEF Tells

(* The objects of the graphs after an event. *)
LEMMA ObjectsGrow ==
    ASSUME NEW b, BuilderOK(b), NEW e, EventOK(e)
    PROVE  LET c == AddNode(b, e)
               g == Target(b, e)
           IN  /\ DOMAIN c.graphs = DOMAIN b.graphs \cup {g}
               /\ \A h \in DOMAIN b.graphs \ {g} : c.graphs[h] = b.graphs[h] /\ ObjectsOf(c, h) = ObjectsOf(b, h)
               /\ g \in DOMAIN b.graphs => ObjectsOf(c, g) = ObjectsOf(b, g) \cup {e.object}
               /\ g \notin DOMAIN b.graphs => ObjectsOf(c, g) = {e.object}
               /\ \A n \in DOMAIN c.graphs[g].nodes :
                    \/ n = Len(c.graphs[g].nodes)
                       /\ c.graphs[g].nodes[n].kind = e.kind /\ c.graphs[g].nodes[n].object = e.object
                    \/ /\ g \in DOMAIN b.graphs /\ n \in DOMAIN b.graphs[g].nodes
                       /\ c.graphs[g].nodes[n] = b.graphs[g].nodes[n]
<1> DEFINE c == AddNode(b, e)
           g == Target(b, e)
           m == OldLen(b, g)
<1>1. /\ Grows(b, c, g, NodeOf(e, SourceOf(b, e)), e.ptr = 0) /\ m \in Nat
      /\ b.graphs \in Seq(Graph)
  BY AddNodeKeeps DEF BuilderOK
<1> HIDE DEF c, g
<1>2. /\ DOMAIN c.graphs = DOMAIN b.graphs \cup {g}
      /\ \A h \in DOMAIN b.graphs \ {g} : c.graphs[h] = b.graphs[h]
      /\ DOMAIN c.graphs[g].nodes = 1 .. m + 1 /\ Len(c.graphs[g].nodes) = m + 1
      /\ c.graphs[g].nodes[m + 1].kind = e.kind /\ c.graphs[g].nodes[m + 1].object = e.object
      /\ \A i \in 1 .. m : g \in DOMAIN b.graphs /\ i \in DOMAIN b.graphs[g].nodes
                           /\ c.graphs[g].nodes[i] = b.graphs[g].nodes[i]
  BY <1>1 DEF Grows, NodeOf
<1>3. \A h \in DOMAIN b.graphs \ {g} : ObjectsOf(c, h) = ObjectsOf(b, h)
  BY <1>2 DEF ObjectsOf
<1>4. g \in DOMAIN b.graphs => DOMAIN b.graphs[g].nodes = 1 .. m
  <2>1. g \in DOMAIN b.graphs => b.graphs[g].nodes \in Seq(Node)
    BY <1>1, NodesTyped
  <2> QED
    BY <2>1 DEF OldLen
<1>5. g \notin DOMAIN b.graphs => m = 0
  BY DEF OldLen
<1> HIDE DEF m
<1>6. m + 1 \in 1 .. m + 1 /\ \A i \in 1 .. m + 1 : i = m + 1 \/ i \in 1 .. m
  BY <1>1
<1>7. \A i \in 1 .. m : i \in 1 .. m + 1
  BY <1>1
<1>8. g \in DOMAIN b.graphs => ObjectsOf(c, g) = ObjectsOf(b, g) \cup {e.object}
  <2> SUFFICES ASSUME g \in DOMAIN b.graphs
               PROVE  ObjectsOf(c, g) = ObjectsOf(b, g) \cup {e.object}
    OBVIOUS
  <2>1. \A x : x \in ObjectsOf(c, g) <=> x \in ObjectsOf(b, g) \/ x = e.object
    BY <1>2, <1>4, <1>6, <1>7 DEF ObjectsOf
  <2> QED
    BY <2>1
<1>9. g \notin DOMAIN b.graphs => ObjectsOf(c, g) = {e.object}
  <2> SUFFICES ASSUME g \notin DOMAIN b.graphs
               PROVE  ObjectsOf(c, g) = {e.object}
    OBVIOUS
  <2>1. \A x : x \in ObjectsOf(c, g) <=> x = e.object
    BY <1>2, <1>6, <1>7 DEF ObjectsOf
  <2> QED
    BY <2>1
<1>10. \A n \in DOMAIN c.graphs[g].nodes :
          \/ n = Len(c.graphs[g].nodes)
             /\ c.graphs[g].nodes[n].kind = e.kind /\ c.graphs[g].nodes[n].object = e.object
          \/ /\ g \in DOMAIN b.graphs /\ n \in DOMAIN b.graphs[g].nodes
             /\ c.graphs[g].nodes[n] = b.graphs[g].nodes[n]
  BY <1>2, <1>6
<1> QED
  BY <1>2, <1>3, <1>8, <1>9, <1>10 DEF c, g

-----------------------------------------------------------------------------
(* An event goes where its object's events are.                            *)
GoesHome(b, e) ==
    LET g == Target(b, e) IN
    /\ e.object >= 2 => \A h \in DOMAIN b.graphs \ {g} : e.object \notin ObjectsOf(b, h)
    /\ g \in DOMAIN b.graphs =>
         /\ \A x \in ObjectsOf(b, g) : x = e.object \/ (x < 2 /\ e.object < 2)
         /\ \A n \in DOMAIN b.graphs[g].nodes :
               b.graphs[g].nodes[n].kind = "free" => b.graphs[g].nodes[n].object < 2

LEMMA GraphsTell ==
    ASSUME NEW b, BuilderOK(b), NEW e, EventOK(e), GoesHome(b, e),
           NEW next \in Nat, e.object < next, NEW there, NEW left \in SUBSET there,
           PerObject(b), FreeLast(b, there), Begun(b, next),
           \A o \in left : o.id \in Int,
           e.kind = "free" /\ e.object >= 2 => \A o \in left : o.id # e.object
    PROVE  PerObject(AddNode(b, e)) /\ FreeLast(AddNode(b, e), left) /\ Begun(AddNode(b, e), next)
<1> DEFINE c == AddNode(b, e)
           g == Target(b, e)
           x == e.object
<1>1. /\ DOMAIN c.graphs = DOMAIN b.graphs \cup {g}
      /\ \A h \in DOMAIN b.graphs \ {g} : c.graphs[h] = b.graphs[h] /\ ObjectsOf(c, h) = ObjectsOf(b, h)
      /\ g \in DOMAIN b.graphs => ObjectsOf(c, g) = ObjectsOf(b, g) \cup {x}
      /\ g \notin DOMAIN b.graphs => ObjectsOf(c, g) = {x}
      /\ \A n \in DOMAIN c.graphs[g].nodes :
           \/ n = Len(c.graphs[g].nodes) /\ c.graphs[g].nodes[n].kind = e.kind
              /\ c.graphs[g].nodes[n].object = x
           \/ /\ g \in DOMAIN b.graphs /\ n \in DOMAIN b.graphs[g].nodes
              /\ c.graphs[g].nodes[n] = b.graphs[g].nodes[n]
  BY ObjectsGrow
<1>2. x \in Int
  BY DEF EventOK
<1> HIDE DEF c, x
<1>3. /\ x >= 2 => \A h \in DOMAIN b.graphs \ {g} : x \notin ObjectsOf(b, h)
      /\ g \in DOMAIN b.graphs =>
           /\ \A y \in ObjectsOf(b, g) : y = x \/ (y < 2 /\ x < 2)
           /\ \A n \in DOMAIN b.graphs[g].nodes :
                 b.graphs[g].nodes[n].kind = "free" => b.graphs[g].nodes[n].object < 2
  BY DEF GoesHome, x
<1> HIDE DEF g
<1>4. \A y \in ObjectsOf(c, g) : y = x \/ (y < 2 /\ x < 2)
  BY <1>1, <1>3
<1>5. x \in ObjectsOf(c, g) /\ (x >= 2 => ObjectsOf(c, g) = {x})
  <2>1. x \in ObjectsOf(c, g)
    BY <1>1
  <2>2. x >= 2 => ~(x < 2)
    BY <1>2
  <2>3. x >= 2 => \A y \in ObjectsOf(c, g) : y = x
    BY <1>4, <2>2
  <2> QED
    BY <2>1, <2>3
<1>5a. \A h \in DOMAIN b.graphs : \A y \in ObjectsOf(b, h) : y \in Int
  <2> SUFFICES ASSUME NEW h \in DOMAIN b.graphs, NEW n \in DOMAIN b.graphs[h].nodes
               PROVE  b.graphs[h].nodes[n].object \in Int
    BY DEF ObjectsOf
  <2>1. b.graphs[h].nodes \in Seq(Node)
    BY NodesTyped DEF BuilderOK
  <2>2. b.graphs[h].nodes[n] \in Node
    BY <2>1
  <2> QED
    BY <2>2 DEF Node
<1>6. PerObject(c)
  <2> SUFFICES ASSUME NEW h \in DOMAIN c.graphs, NEW k \in DOMAIN c.graphs,
                      NEW y \in ObjectsOf(c, h), y >= 2
               PROVE  ObjectsOf(c, h) = {y} /\ (y \in ObjectsOf(c, k) => k = h)
    BY DEF PerObject
  <2>1. CASE h = g
    <3>1. y = x /\ ObjectsOf(c, h) = {y}
      <4>1. y = x \/ y < 2
        BY <1>4, <2>1
      <4>2. y \in Int
        BY <1>1, <1>2, <1>5a, <2>1
      <4> QED
        BY <1>5, <2>1, <4>1, <4>2
    <3>2. ASSUME k # g, y \in ObjectsOf(c, k)
          PROVE  FALSE
      BY <1>1, <1>3, <3>1, <3>2
    <3> QED
      BY <2>1, <3>1, <3>2
  <2>2. CASE h # g
    <3>1. h \in DOMAIN b.graphs /\ y \in ObjectsOf(b, h) /\ ObjectsOf(c, h) = ObjectsOf(b, h)
      BY <1>1, <2>2
    <3>2. ObjectsOf(b, h) = {y} /\ \A l \in DOMAIN b.graphs : y \in ObjectsOf(b, l) => l = h
      BY <3>1 DEF PerObject
    <3>3. CASE k = g
      <4>1. ASSUME y \in ObjectsOf(c, g)
            PROVE  FALSE
        <5>1. y \in Int
          BY <1>5a, <3>1
        <5>2. y = x
          BY <1>4, <4>1, <5>1
        <5> QED
          BY <1>3, <2>2, <3>1, <5>2
      <4> QED
        BY <3>1, <3>2, <3>3, <4>1
    <3>4. CASE k # g
      BY <1>1, <3>1, <3>2, <3>4
    <3> QED
      BY <3>3, <3>4
  <2> QED
    BY <2>1, <2>2
<1>7. FreeLast(c, left)
  <2> SUFFICES ASSUME NEW h \in DOMAIN c.graphs, NEW n \in DOMAIN c.graphs[h].nodes,
                      c.graphs[h].nodes[n].kind = "free", c.graphs[h].nodes[n].object >= 2
               PROVE  n = Len(c.graphs[h].nodes) /\ \A o \in left : o.id \notin ObjectsOf(c, h)
    BY DEF FreeLast
  <2>1. CASE h = g
    <3>1. CASE n = Len(c.graphs[g].nodes) /\ c.graphs[g].nodes[n].kind = e.kind /\ c.graphs[g].nodes[n].object = x
      <4>1. e.kind = "free" /\ x >= 2
        BY <2>1, <3>1
      <4>2. \A o \in left : o.id # x
        BY <4>1 DEF x
      <4>3. ObjectsOf(c, g) = {x}
        BY <1>5, <4>1
      <4> QED
        BY <2>1, <3>1, <4>2, <4>3
    <3>2. CASE /\ g \in DOMAIN b.graphs /\ n \in DOMAIN b.graphs[g].nodes
               /\ c.graphs[g].nodes[n] = b.graphs[g].nodes[n]
      <4>1. b.graphs[g].nodes[n].object < 2 /\ b.graphs[g].nodes[n].object >= 2
        BY <1>3, <2>1, <3>2
      <4>2. b.graphs[g].nodes[n].object \in Int
        BY <1>5a, <3>2 DEF ObjectsOf
      <4> QED
        BY <4>1, <4>2
    <3> QED
      BY <1>1, <2>1, <3>1, <3>2
  <2>2. CASE h # g
    BY <1>1, <2>2 DEF FreeLast
  <2> QED
    BY <2>1, <2>2
<1>8. Begun(c, next)
  <2> SUFFICES ASSUME NEW h \in DOMAIN c.graphs, NEW y \in ObjectsOf(c, h)
               PROVE  y < next
    BY DEF Begun
  <2>1. CASE h = g /\ y = x
    BY <2>1 DEF x
  <2>2. CASE ~(h = g /\ y = x)
    <3>1. h \in DOMAIN b.graphs /\ y \in ObjectsOf(b, h)
      BY <1>1, <2>2
    <3> QED
      BY <3>1 DEF Begun
  <2> QED
    BY <2>1, <2>2
<1> QED
  BY <1>6, <1>7, <1>8 DEF c

-----------------------------------------------------------------------------
(* The builder tells the truth about the heap that the log has described. *)
Truth(b, tracked, there, next) ==
    /\ Space(tracked, there, next)
    /\ Tells(b, tracked)
    /\ PerObject(b)
    /\ FreeLast(b, there)
    /\ Begun(b, next)
    /\ Untold(b, tracked, there)

(* What is known of an object whose graph gets no node stays. *)
LEMMA EntriesKept ==
    ASSUME NEW b, BuilderOK(b), NEW e, EventOK(e), NEW s \in DOMAIN b.provenances,
           s \in DOMAIN AddNode(b, e).provenances,
           AddNode(b, e).provenances[s] = b.provenances[s],
           b.provenances[s].graph # Target(b, e)
    PROVE  /\ LowEntry(b, s) => LowEntry(AddNode(b, e), s)
           /\ \A o : o.at = s /\ HeapEntry(b, o) => HeapEntry(AddNode(b, e), o)
<1> DEFINE c == AddNode(b, e)
           h == b.provenances[s].graph
<1>1. h \in DOMAIN b.graphs
  BY DEF BuilderOK, KnownOK
<1>2. c.graphs[h] = b.graphs[h] /\ ObjectsOf(c, h) = ObjectsOf(b, h)
  BY <1>1, ObjectsGrow
<1> HIDE DEF c
<1>3. c.provenances[s].graph = h /\ c.provenances[s].size = b.provenances[s].size /\ s \in DOMAIN c.provenances
  BY DEF c
<1> HIDE DEF h
<1>4. h = b.provenances[s].graph
  BY DEF h
<1>5. LowEntry(b, s) => LowEntry(c, s)
  BY <1>2, <1>3, <1>4 DEF LowEntry
<1>6. ASSUME NEW o, o.at = s, HeapEntry(b, o)
      PROVE  HeapEntry(c, o)
  BY <1>2, <1>3, <1>4, <1>6 DEF HeapEntry
<1> QED
  BY <1>5, <1>6 DEF c

(* A known address stays known as it is, unless an event is about it. *)
LEMMA UpdateKeeps ==
    ASSUME NEW P, NEW e, NEW g, NEW n, NEW s \in DOMAIN P,
           ~(e.kind = "free" /\ e.ptr # 0 /\ s = e.ptr)
    PROVE  s \in DOMAIN UpdateProvenance(P, e, g, n)
<1>1. CASE e.kind = "alloc"
  <2>1. UpdateProvenance(P, e, g, n) = Put(P, e.ptr, Provenance(e.size, g, n))
    BY <1>1 DEF UpdateProvenance
  <2> QED
    BY <2>1 DEF Put
<1>2. CASE e.kind = "free" /\ e.ptr # 0
  <2>1. UpdateProvenance(P, e, g, n) = Without(P, e.ptr)
    BY <1>2 DEF UpdateProvenance
  <2> QED
    BY <1>2, <2>1 DEF Without
<1>3. CASE e.kind \in {"copy", "offset"} /\ IsNew(P, e, e.to)
  <2>1. UpdateProvenance(P, e, g, n) = Put(P, e.to, Provenance(Unsized, g, n))
    BY <1>3 DEF UpdateProvenance
  <2> QED
    BY <2>1 DEF Put
<1>4. CASE ~(e.kind = "alloc") /\ ~(e.kind = "free" /\ e.ptr # 0)
           /\ ~(e.kind \in {"copy", "offset"} /\ IsNew(P, e, e.to))
  <2>1. UpdateProvenance(P, e, g, n) = P
    BY <1>4 DEF UpdateProvenance
  <2> QED
    BY <2>1
<1> QED
  BY <1>1, <1>2, <1>3, <1>4

(* The graph of a tracked object. *)
LEMMA HomeFacts ==
    ASSUME NEW b, BuilderOK(b), NEW tracked, NEW there, NEW next, Truth(b, tracked, there, next),
           NEW o \in tracked, NEW e, EventOK(e), e.kind # "alloc", e.object = o.id,
           e.ptr \in o.at .. o.at + o.size
    PROVE  /\ Target(b, e) = b.provenances[o.at].graph /\ Target(b, e) \in DOMAIN b.graphs
           /\ GoesHome(b, e)
           /\ e.object < next /\ e.object >= 2
           /\ \A s \in DOMAIN b.provenances :
                LowEntry(b, s) => b.provenances[s].graph # Target(b, e)
           /\ \A p \in tracked : p # o => b.provenances[p.at].graph # Target(b, e)
<1> DEFINE g == b.provenances[o.at].graph
<1>1. Found(b.provenances, e.ptr) = {o.at}
  BY FindsTracked DEF Truth
<1>2. Max({o.at}) = o.at
  BY ObjectFacts, MaxOfOne DEF Truth, Space
<1>3. Target(b, e) = g
  BY <1>1, <1>2 DEF Target, Opens, Near
<1>4. HeapEntry(b, o) /\ o.id \in Int /\ o.id >= 2 /\ o.id < next
  BY DEF Truth, Tells, Space
<1>5. g \in DOMAIN b.graphs /\ ObjectsOf(b, g) = {o.id}
      /\ \A n \in DOMAIN b.graphs[g].nodes : b.graphs[g].nodes[n].kind # "free"
  BY <1>4 DEF HeapEntry, BuilderOK, KnownOK
<1>6. \A h \in DOMAIN b.graphs \ {g} : o.id \notin ObjectsOf(b, h)
  BY <1>4, <1>5 DEF Truth, PerObject
<1>7. ASSUME NEW s \in DOMAIN b.provenances, LowEntry(b, s), b.provenances[s].graph = g
      PROVE  FALSE
  <2>1. o.id \in ObjectsOf(b, b.provenances[s].graph)
    BY <1>5, <1>7
  <2>2. o.id < 2
    BY <1>7, <2>1 DEF LowEntry
  <2> QED
    BY <1>4, <2>2
<1>8. ASSUME NEW p \in tracked, p # o, b.provenances[p.at].graph = g
      PROVE  FALSE
  <2>1. HeapEntry(b, p) /\ p.id # o.id
    BY <1>8 DEF Truth, Tells, Space
  <2> QED
    BY <1>5, <1>8, <2>1 DEF HeapEntry
<1> HIDE DEF g
<1>9. GoesHome(b, e)
  BY <1>3, <1>5, <1>6 DEF GoesHome
<1> QED
  BY <1>3, <1>4, <1>5, <1>7, <1>8, <1>9 DEF g

(* An event about a tracked object that is still there. *)
LEMMA HeapEventTells ==
    ASSUME NEW b, BuilderOK(b), NEW tracked, NEW there, NEW next, Truth(b, tracked, there, next),
           NEW o \in tracked, NEW e, EventOK(e), e.kind \notin {"alloc", "free"}, e.object = o.id,
           e.ptr \in o.at .. o.at + o.size, e.to \in o.at .. o.at + o.size
    PROVE  Truth(AddNode(b, e), tracked, there, next)
<1> DEFINE c == AddNode(b, e)
           g == Target(b, e)
<1>1. /\ g = b.provenances[o.at].graph /\ g \in DOMAIN b.graphs
      /\ GoesHome(b, e) /\ e.object < next /\ e.object >= 2
      /\ \A s \in DOMAIN b.provenances : LowEntry(b, s) => b.provenances[s].graph # g
      /\ \A p \in tracked : p # o => b.provenances[p.at].graph # g
  BY HomeFacts
<1>2. c.provenances = b.provenances
  <2>1. ~IsNew(b.provenances, e, e.to)
    <3>1. /\ Max(Below(b.provenances, e.to)) = o.at
          /\ Below(b.provenances, e.to) # {} /\ Covers(b.provenances, o.at, e.to)
      BY FindsTracked DEF Truth
    <3> QED
      BY <3>1 DEF IsNew
  <2>2. \A n : UpdateProvenance(b.provenances, e, g, n) = b.provenances
    BY <2>1 DEF UpdateProvenance
  <2> QED
    BY <2>2, KnownAfter
<1>3. PerObject(c) /\ FreeLast(c, there) /\ Begun(c, next)
  <2>1. /\ next \in Nat /\ PerObject(b) /\ FreeLast(b, there) /\ Begun(b, next)
        /\ there \in SUBSET there /\ (\A q \in there : q.id \in Int)
    BY DEF Truth, Space
  <2> QED
    BY <1>1, <2>1, GraphsTell
<1>4. /\ DOMAIN c.graphs = DOMAIN b.graphs
      /\ \A h \in DOMAIN b.graphs \ {g} : ObjectsOf(c, h) = ObjectsOf(b, h)
      /\ ObjectsOf(c, g) = ObjectsOf(b, g) \cup {o.id}
      /\ \A n \in DOMAIN c.graphs[g].nodes :
            \/ c.graphs[g].nodes[n].kind = e.kind
            \/ n \in DOMAIN b.graphs[g].nodes /\ c.graphs[g].nodes[n] = b.graphs[g].nodes[n]
  <2>1. /\ DOMAIN c.graphs = DOMAIN b.graphs \cup {g}
        /\ \A h \in DOMAIN b.graphs \ {g} : ObjectsOf(c, h) = ObjectsOf(b, h)
        /\ g \in DOMAIN b.graphs => ObjectsOf(c, g) = ObjectsOf(b, g) \cup {e.object}
        /\ \A n \in DOMAIN c.graphs[g].nodes :
             \/ n = Len(c.graphs[g].nodes)
                /\ c.graphs[g].nodes[n].kind = e.kind /\ c.graphs[g].nodes[n].object = e.object
             \/ /\ g \in DOMAIN b.graphs /\ n \in DOMAIN b.graphs[g].nodes
                /\ c.graphs[g].nodes[n] = b.graphs[g].nodes[n]
    BY ObjectsGrow
  <2> HIDE DEF c, g
  <2> QED
    BY <1>1, <2>1
<1>5. /\ o.at \in DOMAIN b.provenances /\ b.provenances[o.at].size = o.size
      /\ ObjectsOf(b, g) = {o.id}
      /\ \A n \in DOMAIN b.graphs[g].nodes : b.graphs[g].nodes[n].kind # "free"
  <2>1. HeapEntry(b, o)
    BY DEF Truth, Tells
  <2> HIDE DEF g
  <2> QED
    BY <1>1, <2>1 DEF HeapEntry
<1>6. ObjectsOf(c, g) = {o.id}
  BY <1>4, <1>5
<1>7. HeapEntry(c, o)
  <2> HIDE DEF c, g
  <2>1. \A n \in DOMAIN c.graphs[g].nodes : c.graphs[g].nodes[n].kind # "free"
    BY <1>4, <1>5
  <2> QED
    BY <1>1, <1>2, <1>5, <1>6, <2>1 DEF HeapEntry
<1>8. \A p \in tracked : HeapEntry(c, p)
  <2> SUFFICES ASSUME NEW p \in tracked, p # o
               PROVE  HeapEntry(c, p)
    BY <1>7
  <2>1. HeapEntry(b, p)
    BY DEF Truth, Tells
  <2>2. p.at \in DOMAIN b.provenances
    BY <2>1 DEF HeapEntry
  <2> QED
    BY <1>1, <1>2, <2>1, <2>2, EntriesKept
<1>9. \A s \in DOMAIN c.provenances : LowEntry(c, s) \/ \E p \in tracked : p.at = s
  <2> SUFFICES ASSUME NEW s \in DOMAIN c.provenances, ~\E p \in tracked : p.at = s
               PROVE  LowEntry(c, s)
    OBVIOUS
  <2>1. LowEntry(b, s) /\ s \in DOMAIN b.provenances
    BY <1>2 DEF Truth, Tells
  <2> QED
    BY <1>1, <1>2, <2>1, EntriesKept
<1>10. Untold(c, tracked, there)
  <2> SUFFICES ASSUME NEW q \in there \ tracked, NEW h \in DOMAIN c.graphs
               PROVE  q.id \notin ObjectsOf(c, h)
    BY DEF Untold
  <2>1. q.id # o.id
    BY DEF Truth, Space
  <2>2. q.id \notin ObjectsOf(b, h)
    BY <1>4 DEF Truth, Untold
  <2> QED
    BY <1>4, <1>6, <2>1, <2>2
<1> HIDE DEF c
<1>11. Tells(c, tracked)
  BY <1>8, <1>9 DEF Tells
<1>12. Truth(c, tracked, there, next)
  BY <1>3, <1>10, <1>11 DEF Truth
<1> QED
  BY <1>12 DEF c

-----------------------------------------------------------------------------
(* What the event does to the graphs, as one fact. *)
LEMMA GraphStep ==
    ASSUME NEW b, BuilderOK(b), NEW tracked, NEW there, NEW next, Truth(b, tracked, there, next),
           NEW e, EventOK(e), GoesHome(b, e), e.object < next, NEW left \in SUBSET there,
           e.kind = "free" /\ e.object >= 2 => \A o \in left : o.id # e.object
    PROVE  PerObject(AddNode(b, e)) /\ FreeLast(AddNode(b, e), left) /\ Begun(AddNode(b, e), next)
<1>1. /\ next \in Nat /\ PerObject(b) /\ FreeLast(b, there) /\ Begun(b, next)
      /\ (\A q \in left : q.id \in Int)
  BY DEF Truth, Space
<1> QED
  BY <1>1, GraphsTell

(* An event about null, or about the static object. *)
LEMMA LowEventTells ==
    ASSUME NEW b, BuilderOK(b), NEW tracked, NEW there, NEW next, Truth(b, tracked, there, next),
           next >= 2, NEW e, EventOK(e), e.object < 2, e.ptr \in Low, e.to \in Low,
           e.kind \in {"alloc", "free"} => e.ptr = 0
    PROVE  Truth(AddNode(b, e), tracked, there, next)
<1> DEFINE c == AddNode(b, e)
           g == Target(b, e)
           x == e.object
<1>1. x \in Int /\ x < 2 /\ next \in Nat /\ x < next
  BY DEF EventOK, Truth, Space
<1>2. g \in DOMAIN b.graphs => \A y \in ObjectsOf(b, g) : y < 2
  <2> SUFFICES ASSUME g \in DOMAIN b.graphs
               PROVE  \A y \in ObjectsOf(b, g) : y < 2
    OBVIOUS
  <2>1. ~Opens(b, e)
    BY TargetFacts
  <2>2. PICK s \in Found(b.provenances, e.ptr) : Near(b, e) = b.provenances[s]
    <3>1. PICK s \in DOMAIN b.provenances : Found(b.provenances, e.ptr) = {s} /\ Near(b, e) = b.provenances[s]
      BY <2>1, NearFacts
    <3> QED
      BY <3>1
  <2>3. LowEntry(b, s)
    BY <2>2, FindsLow DEF Truth
  <2>4. g = b.provenances[s].graph
    BY <2>1, <2>2 DEF Target
  <2> QED
    BY <2>3, <2>4 DEF LowEntry
<1>3. GoesHome(b, e)
  <2>1. ~(x >= 2)
    BY <1>1
  <2>2. g \in DOMAIN b.graphs =>
          \A n \in DOMAIN b.graphs[g].nodes : b.graphs[g].nodes[n].object \in ObjectsOf(b, g)
    BY DEF ObjectsOf
  <2> QED
    BY <1>1, <1>2, <2>1, <2>2 DEF GoesHome
<1>4. PerObject(c) /\ FreeLast(c, there) /\ Begun(c, next)
  <2>1. ~(x >= 2)
    BY <1>1
  <2> QED
    BY <1>1, <1>3, <2>1, GraphStep
<1>5. /\ DOMAIN c.graphs = DOMAIN b.graphs \cup {g}
      /\ \A h \in DOMAIN b.graphs \ {g} : ObjectsOf(c, h) = ObjectsOf(b, h)
      /\ g \in DOMAIN b.graphs => ObjectsOf(c, g) = ObjectsOf(b, g) \cup {x}
      /\ g \notin DOMAIN b.graphs => ObjectsOf(c, g) = {x}
  BY ObjectsGrow
<1>6. \A y \in ObjectsOf(c, g) : y < 2
  <2> HIDE DEF c, g, x
  <2> QED
    BY <1>1, <1>2, <1>5
<1>7. \A s \in DOMAIN b.provenances : s \in DOMAIN c.provenances
  <2>1. \A s \in DOMAIN b.provenances : \A n : s \in DOMAIN UpdateProvenance(b.provenances, e, g, n)
    BY UpdateKeeps
  <2> QED
    BY <2>1, KnownAfter
<1>8. \A s \in DOMAIN c.provenances :
         \/ s \in DOMAIN b.provenances /\ c.provenances[s] = b.provenances[s]
         \/ s = 0 /\ c.provenances[s].graph = g
         \/ s \in Low /\ c.provenances[s].size = Unsized /\ c.provenances[s].graph = g
  <2> DEFINE n == OldLen(b, g) + 1
             Q == UpdateProvenance(b.provenances, e, g, n)
  <2>1. c.provenances = Q
    BY AddNodeKeeps
  <2> HIDE DEF g, n, c
  <2>2. \A s \in DOMAIN Q :
           \/ s \in DOMAIN b.provenances /\ Q[s] = b.provenances[s]
           \/ e.kind = "alloc" /\ s = e.ptr /\ Q[s] = Provenance(e.size, g, n)
           \/ s = e.to /\ Q[s] = Provenance(Unsized, g, n)
    BY UpdateFacts
  <2> HIDE DEF Q
  <2> QED
    BY <2>1, <2>2 DEF Provenance
<1>9. \A o \in tracked : HeapEntry(c, o)
  <2> SUFFICES ASSUME NEW o \in tracked
               PROVE  HeapEntry(c, o)
    OBVIOUS
  <2>1. HeapEntry(b, o) /\ o.id >= 2 /\ o.at \notin Low /\ o.id \in Int
    BY ObjectFacts DEF Truth, Tells, Space
  <2>2. o.at \in DOMAIN b.provenances
    BY <2>1 DEF HeapEntry
  <2>3. o.at \in DOMAIN c.provenances /\ c.provenances[o.at] = b.provenances[o.at]
    BY <1>7, <1>8, <2>1, <2>2 DEF Low
  <2>4. b.provenances[o.at].graph # g
    <3>1. /\ b.provenances[o.at].graph \in DOMAIN b.graphs
          /\ o.id \in ObjectsOf(b, b.provenances[o.at].graph)
      BY <2>1, <2>2 DEF HeapEntry, BuilderOK, KnownOK
    <3> HIDE DEF g
    <3> QED
      BY <1>2, <2>1, <3>1
  <2> QED
    BY <2>1, <2>2, <2>3, <2>4, EntriesKept
<1>10. \A s \in DOMAIN c.provenances : LowEntry(c, s) \/ \E o \in tracked : o.at = s
  <2> SUFFICES ASSUME NEW s \in DOMAIN c.provenances, ~\E o \in tracked : o.at = s
               PROVE  LowEntry(c, s)
    OBVIOUS
  <2>1. CASE s \in DOMAIN b.provenances /\ c.provenances[s] = b.provenances[s]
    <3>1. LowEntry(b, s)
      BY <2>1 DEF Truth, Tells
    <3>2. CASE b.provenances[s].graph # g
      BY <2>1, <3>1, <3>2, EntriesKept
    <3>3. CASE b.provenances[s].graph = g
      <4> HIDE DEF c, g
      <4> QED
        BY <1>6, <2>1, <3>1, <3>3 DEF LowEntry
    <3> QED
      BY <3>2, <3>3
  <2>2. CASE s = 0 /\ c.provenances[s].graph = g
    <3> HIDE DEF c, g
    <3> QED
      BY <1>6, <2>2 DEF LowEntry, Low
  <2>3. CASE s \in Low /\ c.provenances[s].size = Unsized /\ c.provenances[s].graph = g
    <3> HIDE DEF c, g
    <3> QED
      BY <1>6, <2>3 DEF LowEntry
  <2> QED
    BY <1>8, <2>1, <2>2, <2>3
<1>11. Untold(c, tracked, there)
  <2> SUFFICES ASSUME NEW q \in there \ tracked, NEW h \in DOMAIN c.graphs
               PROVE  q.id \notin ObjectsOf(c, h)
    BY DEF Untold
  <2>1. q.id \in Int /\ q.id >= 2
    BY DEF Truth, Space
  <2>2. CASE h = g
    BY <1>6, <2>1, <2>2
  <2>3. CASE h # g
    BY <1>5, <2>3 DEF Truth, Untold
  <2> QED
    BY <2>2, <2>3
<1> HIDE DEF c
<1>12. Tells(c, tracked)
  BY <1>9, <1>10 DEF Tells
<1>13. Truth(c, tracked, there, next)
  BY <1>4, <1>11, <1>12 DEF Truth
<1> QED
  BY <1>13 DEF c

(* The end of a tracked object. *)
LEMMA FreeEventTells ==
    ASSUME NEW b, BuilderOK(b), NEW tracked, NEW there, NEW next, Truth(b, tracked, there, next),
           NEW o \in tracked, NEW e, EventOK(e), e.kind = "free", e.object = o.id, e.ptr = o.at
    PROVE  Truth(AddNode(b, e), tracked \ {o}, there \ {o}, next)
<1> DEFINE c == AddNode(b, e)
           g == Target(b, e)
           T == tracked \ {o}
           S == there \ {o}
<1>1. o \in Object /\ o.at \in Nat /\ o.size \in Nat /\ o.at # 0
  BY ObjectFacts, StaticIsNat DEF Truth, Space
<1>2. o.at \in o.at .. o.at + o.size
  BY <1>1
<1>3. /\ g = b.provenances[o.at].graph /\ g \in DOMAIN b.graphs
      /\ GoesHome(b, e) /\ e.object < next /\ e.object >= 2
      /\ \A s \in DOMAIN b.provenances : LowEntry(b, s) => b.provenances[s].graph # g
      /\ \A p \in tracked : p # o => b.provenances[p.at].graph # g
  BY <1>2, HomeFacts
<1>4. c.provenances = Without(b.provenances, o.at)
  <2>1. \A n : UpdateProvenance(b.provenances, e, g, n) = Without(b.provenances, o.at)
    BY <1>1 DEF UpdateProvenance
  <2> QED
    BY <2>1, KnownAfter
<1>5. PerObject(c) /\ FreeLast(c, S) /\ Begun(c, next)
  <2>1. S \in SUBSET there /\ \A q \in S : q.id # e.object
    BY DEF Truth, Space
  <2> QED
    BY <1>3, <2>1, GraphStep
<1>6. /\ DOMAIN c.graphs = DOMAIN b.graphs
      /\ \A h \in DOMAIN b.graphs \ {g} : ObjectsOf(c, h) = ObjectsOf(b, h)
      /\ ObjectsOf(c, g) = ObjectsOf(b, g) \cup {o.id}
  <2>1. /\ DOMAIN c.graphs = DOMAIN b.graphs \cup {g}
        /\ \A h \in DOMAIN b.graphs \ {g} : ObjectsOf(c, h) = ObjectsOf(b, h)
        /\ g \in DOMAIN b.graphs => ObjectsOf(c, g) = ObjectsOf(b, g) \cup {e.object}
    BY ObjectsGrow
  <2> HIDE DEF c, g
  <2> QED
    BY <1>3, <2>1
<1>7. ObjectsOf(b, g) = {o.id}
  <2>1. HeapEntry(b, o)
    BY DEF Truth, Tells
  <2> QED
    BY <1>3, <2>1 DEF HeapEntry
<1>8. /\ DOMAIN c.provenances = DOMAIN b.provenances \ {o.at}
      /\ \A s \in DOMAIN b.provenances \ {o.at} : c.provenances[s] = b.provenances[s]
  <2> HIDE DEF c
  <2> QED
    BY <1>4 DEF Without
<1>9. \A p \in T : HeapEntry(c, p)
  <2> SUFFICES ASSUME NEW p \in T
               PROVE  HeapEntry(c, p)
    OBVIOUS
  <2>1. HeapEntry(b, p) /\ p \in Object /\ Apart(o, p)
    BY DEF Truth, Tells, Space
  <2>2. p.at \in DOMAIN b.provenances
    BY <2>1 DEF HeapEntry
  <2>3. p.at # o.at
    <3>1. p.at \in Nat /\ p.size \in Nat
      BY <2>1, ObjectFacts
    <3> QED
      BY <1>1, <2>1, <3>1 DEF Apart
  <2> QED
    BY <1>3, <1>8, <2>1, <2>2, <2>3, EntriesKept
<1>10. \A s \in DOMAIN c.provenances : LowEntry(c, s) \/ \E p \in T : p.at = s
  <2> SUFFICES ASSUME NEW s \in DOMAIN c.provenances, ~\E p \in T : p.at = s
               PROVE  LowEntry(c, s)
    OBVIOUS
  <2>1. s \in DOMAIN b.provenances /\ s # o.at /\ c.provenances[s] = b.provenances[s]
    BY <1>8
  <2>2. LowEntry(b, s)
    BY <2>1 DEF Truth, Tells
  <2> QED
    BY <1>3, <2>1, <2>2, EntriesKept
<1>11. Untold(c, T, S)
  <2> SUFFICES ASSUME NEW q \in S \ T, NEW h \in DOMAIN c.graphs
               PROVE  q.id \notin ObjectsOf(c, h)
    BY DEF Untold
  <2>1. q \in there \ tracked /\ q.id # o.id
    BY DEF Truth, Space
  <2>2. q.id \notin ObjectsOf(b, h)
    BY <1>6, <2>1 DEF Truth, Untold
  <2> QED
    BY <1>6, <1>7, <2>1, <2>2
<1>12. Space(T, S, next)
  BY DEF Truth, Space
<1> HIDE DEF c, T, S
<1>13. Tells(c, T)
  BY <1>9, <1>10 DEF Tells
<1>14. Truth(c, T, S, next)
  BY <1>5, <1>11, <1>12, <1>13 DEF Truth
<1> QED
  BY <1>14 DEF c, T, S

(* The beginning of an object. *)
LEMMA AllocEventTells ==
    ASSUME NEW b, BuilderOK(b), NEW tracked, NEW there, NEW next, Truth(b, tracked, there, next),
           NEW o \in there \ tracked, \A p \in tracked : Apart(o, p) /\ Apart(p, o),
           NEW e, EventOK(e), e.kind = "alloc", e.object = o.id, e.ptr = o.at, e.size = o.size
    PROVE  Truth(AddNode(b, e), tracked \cup {o}, there, next)
<1> DEFINE c == AddNode(b, e)
           g == Target(b, e)
           T == tracked \cup {o}
           n == OldLen(b, g) + 1
<1>1. /\ o \in Object /\ o.at \in Nat /\ o.size \in Nat /\ o.id \in Int /\ o.id >= 2 /\ o.id < next
  BY ObjectFacts DEF Truth, Space
<1>2. g \notin DOMAIN b.graphs
  BY TargetFacts DEF Opens
<1>3. GoesHome(b, e)
  BY <1>2 DEF GoesHome, Truth, Untold
<1>4. PerObject(c) /\ FreeLast(c, there) /\ Begun(c, next)
  BY <1>1, <1>3, GraphStep
<1>5. /\ DOMAIN c.graphs = DOMAIN b.graphs \cup {g}
      /\ \A h \in DOMAIN b.graphs \ {g} : ObjectsOf(c, h) = ObjectsOf(b, h)
      /\ ObjectsOf(c, g) = {o.id}
      /\ \A i \in DOMAIN c.graphs[g].nodes : c.graphs[g].nodes[i].kind = "alloc"
  BY <1>2, ObjectsGrow
<1>6. c.provenances = Put(b.provenances, o.at, Provenance(o.size, g, n))
  <2>1. UpdateProvenance(b.provenances, e, g, n) = Put(b.provenances, o.at, Provenance(o.size, g, n))
    BY DEF UpdateProvenance
  <2> QED
    BY <2>1, KnownAfter
<1>7. /\ DOMAIN c.provenances = DOMAIN b.provenances \cup {o.at}
      /\ c.provenances[o.at].size = o.size /\ c.provenances[o.at].graph = g
      /\ \A s \in DOMAIN b.provenances \ {o.at} : c.provenances[s] = b.provenances[s]
  <2> HIDE DEF c, g, n
  <2> QED
    BY <1>6 DEF Put, Provenance
<1>8. \A s \in DOMAIN b.provenances : b.provenances[s].graph # g
  BY <1>2 DEF BuilderOK, KnownOK
<1>9. HeapEntry(c, o)
  <2> HIDE DEF c, g
  <2> QED
    BY <1>5, <1>7 DEF HeapEntry
<1>10. ASSUME NEW p \in tracked
       PROVE  HeapEntry(c, p)
  <2>1. HeapEntry(b, p) /\ p \in Object /\ Apart(o, p)
    BY DEF Truth, Tells, Space
  <2>2. p.at \in DOMAIN b.provenances
    BY <2>1 DEF HeapEntry
  <2>3. p.at # o.at
    <3>1. p.at \in Nat /\ p.size \in Nat
      BY <2>1, ObjectFacts
    <3> QED
      BY <1>1, <2>1, <3>1 DEF Apart
  <2> QED
    BY <1>7, <1>8, <2>1, <2>2, <2>3, EntriesKept
<1>11. \A s \in DOMAIN c.provenances : LowEntry(c, s) \/ \E p \in T : p.at = s
  <2> SUFFICES ASSUME NEW s \in DOMAIN c.provenances, ~\E p \in T : p.at = s
               PROVE  LowEntry(c, s)
    OBVIOUS
  <2>1. s \in DOMAIN b.provenances /\ s # o.at /\ c.provenances[s] = b.provenances[s]
    BY <1>7
  <2>2. LowEntry(b, s)
    BY <2>1 DEF Truth, Tells
  <2> QED
    BY <1>8, <2>1, <2>2, EntriesKept
<1>12. Untold(c, T, there)
  <2> SUFFICES ASSUME NEW q \in there \ T, NEW h \in DOMAIN c.graphs
               PROVE  q.id \notin ObjectsOf(c, h)
    BY DEF Untold
  <2>1. q \in there \ tracked /\ q.id # o.id
    BY DEF Truth, Space
  <2>2. CASE h = g
    BY <1>5, <2>1, <2>2
  <2>3. CASE h # g
    BY <1>5, <2>1, <2>3 DEF Truth, Untold
  <2> QED
    BY <2>2, <2>3
<1>13. Space(T, there, next)
  BY DEF Truth, Space
<1> HIDE DEF c
<1>14. Tells(c, T)
  <2>1. \A p \in T : HeapEntry(c, p)
    BY <1>9, <1>10
  <2> HIDE DEF T
  <2> QED
    BY <1>11, <2>1 DEF Tells
<1> HIDE DEF T
<1>15. Truth(c, T, there, next)
  BY <1>4, <1>12, <1>13, <1>14 DEF Truth
<1> QED
  BY <1>15 DEF c, T

-----------------------------------------------------------------------------
(* The hooks, as long as the log tells the truth.                          *)
Sends(q) == {q[i] : i \in DOMAIN q}

There == live \cup unlogged

(* An object whose hook has not logged its beginning, ... *)
New(x) == \E t \in Activations : \E e \in Sends(pending[t]) : e.kind = "alloc" /\ e.object = x

Tracked == {o \in There : ~New(o.id)}

(* ... and one which a hook has yet to end for the sake of another.         *)
Swap(o, n) == \E t \in Activations : \E f, a : pending[t] = <<f, a>> /\ f.object = o.id /\ a.object = n.id

(* What a hook has to log happened, and was not undone. *)
EventsTrue ==
    \A t \in Activations : \A e \in Sends(pending[t]) :
        \/ e.kind = "alloc" /\ \E o \in live : o.id = e.object /\ o.at = e.ptr /\ o.size = e.size
        \/ e.kind = "free" /\ \E o \in unlogged : o.id = e.object /\ o.at = e.ptr

(* Two hooks are never about the same object. *)
OneEach ==
    \A t, u \in Activations : \A e \in Sends(pending[t]), f \in Sends(pending[u]) :
        e.object = f.object => t = u /\ e = f

(* Only the activation that has a new object can have a pointer to it. *)
Unseen ==
    /\ \A t \in Activations : \A e \in Sends(pending[t]) :
          e.kind = "alloc" => \A u \in Activations \ {t}, v \in Locals : locals[u][v].object # e.object
    /\ ~New(cell.object)

(* Two objects whose ends are not logged lie apart, but for realloc. *)
Owners ==
    /\ live \cap unlogged = {}
    /\ \A f \in unlogged : ~New(f.id)
    /\ \A o, p \in There : o = p \/ Apart(o, p) \/ Swap(o, p) \/ Swap(p, o)

Hooks == EventsTrue /\ OneEach /\ Unseen /\ Owners

(* The invariant that holds until the log is misled. *)
TruthInv == misled \/ (Hooks /\ Truth(builder, Tracked, There, nextId))

-----------------------------------------------------------------------------
LEMMA SendsNone == Sends(<<>>) = {}
BY DEF Sends

LEMMA SendsOne == ASSUME NEW x PROVE Sends(<<x>>) = {x}
<1>1. DOMAIN <<x>> = {1} /\ <<x>>[1] = x
  OBVIOUS
<1> QED
  BY <1>1 DEF Sends

LEMMA OneIsNotTwo ==
    ASSUME NEW x, NEW y, NEW z PROVE <<y, z>> # <<x>>
<1>1. Len(<<y, z>>) = 2 /\ Len(<<x>>) = 1
  OBVIOUS
<1> QED
  BY <1>1

LEMMA SendsTwo == ASSUME NEW x, NEW y PROVE Sends(<<x, y>>) = {x, y}
<1>1. DOMAIN <<x, y>> = {1, 2} /\ <<x, y>>[1] = x /\ <<x, y>>[2] = y
  OBVIOUS
<1> QED
  BY <1>1 DEF Sends

LEMMA PointerIds ==
    ASSUME LiveOK, NEW p, PtrOK(p, live) PROVE p.object < nextId /\ p.object \in Int
BY DEF PtrOK, LiveOK, Dead, Null, Pointer

(* The events of a queue are of allocations and frees. *)
LEMMA QueueForms ==
    ASSUME NEW t, NEW q, NEW w, QueueOK(t, q, w), q # <<>>
    PROVE  \/ \E e : q = <<e>> /\ Sends(q) = {e} /\ Head(q) = e /\ Tail(q) = <<>>
                     /\ HookOK(t, e, w) /\ e.kind \in {"alloc", "free"}
           \/ \E f, a : q = <<f, a>> /\ Sends(q) = {f, a} /\ Head(q) = f /\ Tail(q) = <<a>>
                        /\ HookOK(t, f, w) /\ f.kind = "free" /\ a.kind = "alloc"
<1>1. CASE q = <<q[1]>> /\ (AllocOK(t, q[1], w) \/ FreeOK(t, q[1], w))
  <2>1. PICK e : e = q[1]
    OBVIOUS
  <2>2. q = <<e>> /\ Sends(<<e>>) = {e} /\ Head(<<e>>) = e /\ Tail(<<e>>) = <<>>
    BY <1>1, <2>1, SendsOne, QueueOfOne
  <2> QED
    BY <1>1, <2>1, <2>2 DEF AllocOK, FreeOK
<1>2. CASE q = <<q[1], q[2]>> /\ FreeOK(t, q[1], w) /\ AllocOK(t, q[2], w)
  <2>1. PICK f, a : f = q[1] /\ a = q[2]
    OBVIOUS
  <2>2. q = <<f, a>> /\ Sends(<<f, a>>) = {f, a} /\ Head(<<f, a>>) = f /\ Tail(<<f, a>>) = <<a>>
    BY <1>2, <2>1, SendsTwo, QueueOfTwo
  <2> QED
    BY <1>2, <2>1, <2>2 DEF AllocOK, FreeOK
<1> QED
  BY <1>1, <1>2 DEF QueueOK

(* What an activation can reach while it runs is not new. *)
LEMMA NotNew ==
    ASSUME BaseInv, Hooks, NEW t \in Activations, pending[t] = <<>>
    PROVE  /\ \A w \in Locals : ~New(locals[t][w].object)
           /\ ~New(cell.object)
           /\ \A x \in Int : x < 2 => ~New(x)
<1>1. \A u \in Activations : \A e \in Sends(pending[u]) : u # t
  BY SendsNone
<1>2. \A w \in Locals : ~New(locals[t][w].object)
  BY <1>1 DEF Hooks, Unseen, New
<1>3. ASSUME NEW x \in Int, x < 2, New(x)
      PROVE  FALSE
  <2>1. PICK o \in live : o.id = x
    BY <1>3 DEF New, Hooks, EventsTrue
  <2> QED
    BY <1>3, <2>1 DEF BaseInv, LiveOK
<1> QED
  BY <1>2, <1>3 DEF Hooks, Unseen

LEMMA PointerClass ==
    ASSUME BaseInv, NEW p, PtrOK(p, live), p # Dead, ~New(p.object)
    PROVE  \/ p.object < 2 /\ p.ptr \in Low
           \/ \E o \in Tracked : p.object = o.id /\ p.ptr \in o.at .. o.at + o.size
<1>1. CASE p = Null \/ (p.object = 1 /\ p.ptr \in {StaticAt, StaticAt + 1})
  BY <1>1 DEF Null, Low
<1>1a. CASE p.object = 0 /\ p.ptr \in NullOffsets
  BY <1>1a DEF Low
<1>2. CASE \E o \in live : p.object = o.id /\ p.ptr \in o.at .. o.at + o.size
  BY <1>2 DEF Tracked, There
<1> QED
  BY <1>1, <1>1a, <1>2 DEF PtrOK

(* An event as the builder has to see it. *)
Plain(e) ==
    \/ e.object < 2 /\ e.ptr \in Low /\ e.to \in Low /\ (e.kind \in {"alloc", "free"} => e.ptr = 0)
    \/ /\ e.kind \notin {"alloc", "free"}
       /\ \E o \in Tracked : e.object = o.id /\ e.ptr \in o.at .. o.at + o.size /\ e.to \in o.at .. o.at + o.size

LEMMA PlainStep ==
    ASSUME BaseInv, Hooks, Truth(builder, Tracked, There, nextId),
           NEW t \in Activations, pending[t] = <<>>, NEW e, HookOK(t, e, written), Log(t, e), Keeps, Plain(e),
           \A u \in Activations \ {t} : locals'[u] = locals[u],
           \A v \in Locals : ~New(locals'[t][v].object),
           ~New(cell'.object)
    PROVE  (Hooks /\ Truth(builder, Tracked, There, nextId))'
<1>1. live' = live /\ pending' = pending /\ unlogged' = unlogged /\ nextId' = nextId
  BY DEF Keeps
<1>2. There' = There /\ Tracked' = Tracked /\ (\A x : New(x)' <=> New(x)) /\ \A o, p : Swap(o, p)' <=> Swap(o, p)
  BY <1>1 DEF There, Tracked, New, Swap
<1>3. EventsTrue' /\ OneEach' /\ Owners'
  BY <1>1, <1>2 DEF Hooks, EventsTrue, OneEach, Owners
<1>4. Unseen'
  <2>1. ASSUME NEW r \in Activations, NEW f \in Sends(pending[r]), f.kind = "alloc",
               NEW u \in Activations \ {r}, NEW v \in Locals
        PROVE  locals'[u][v].object # f.object
    <3>1. CASE u = t
      BY <2>1, <3>1 DEF New
    <3>2. CASE u # t
      BY <2>1, <3>2 DEF Hooks, Unseen
    <3> QED
      BY <3>1, <3>2
  <2> QED
    BY <1>1, <1>2, <2>1 DEF Unseen, New
<1>5. Truth(builder', Tracked, There, nextId)
  <2>1. PICK b, tracked, there, next :
           b = builder /\ tracked = Tracked /\ there = There /\ next = nextId
    OBVIOUS
  <2>2. builder' = AddNode(b, e)
    BY <2>1 DEF Log
  <2>3. BuilderOK(b) /\ EventOK(e) /\ Truth(b, tracked, there, next) /\ next >= 2
    BY <2>1 DEF BaseInv, HookOK, LiveOK
  <2>4. Truth(AddNode(b, e), tracked, there, next)
    <3>1. CASE e.object < 2 /\ e.ptr \in Low /\ e.to \in Low /\ (e.kind \in {"alloc", "free"} => e.ptr = 0)
      BY <2>3, <3>1, LowEventTells
    <3>2. CASE /\ e.kind \notin {"alloc", "free"}
               /\ \E o \in Tracked : e.object = o.id /\ e.ptr \in o.at .. o.at + o.size /\ e.to \in o.at .. o.at + o.size
      BY <2>1, <2>3, <3>2, HeapEventTells
    <3> QED
      BY <3>1, <3>2 DEF Plain
  <2> QED
    BY <2>1, <2>2, <2>4
<1>6. Truth(builder, Tracked, There, nextId)'
  BY <1>1, <1>2, <1>5
<1> QED
  BY <1>3, <1>4, <1>6 DEF Hooks

-----------------------------------------------------------------------------
(* What TruthInv says of a log that is not misled. *)
Told == Hooks /\ Truth(builder, Tracked, There, nextId)

(* A pointer of an activation that is not in a hook. *)
LEMMA HandledPointer ==
    ASSUME BaseInv, Told, NEW t \in Activations, pending[t] = <<>>, NEW p, p # Dead,
           (\E w \in Locals : p = locals[t][w]) \/ p = cell
    PROVE  /\ PtrOK(p, live) /\ ~New(p.object)
           /\ \/ p.object < 2 /\ p.ptr \in Low
              \/ \E o \in Tracked : p.object = o.id /\ p.ptr \in o.at .. o.at + o.size
<1>1. PtrOK(p, live)
  BY DEF BaseInv, LocalsOK
<1>2. ~New(p.object)
  BY NotNew DEF Told
<1> QED
  BY <1>1, <1>2, PointerClass

LEMMA LowIds ==
    ASSUME BaseInv, Told, NEW t \in Activations, pending[t] = <<>>
    PROVE  ~New(Null.object) /\ Null.object < 2 /\ Null.ptr \in Low
BY NotNew DEF Null, Low, Told

(* A local is set to a pointer that is not new. *)
LEMMA SetsSeen ==
    ASSUME BaseInv, Told, NEW t \in Activations, pending[t] = <<>>, NEW v, NEW p, Sets(t, v, p), ~New(p.object)
    PROVE  /\ \A u \in Activations \ {t} : locals'[u] = locals[u]
           /\ \A x \in Locals : ~New(locals'[t][x].object)
           /\ ~New(cell'.object)
<1>1. locals \in [Activations -> [Locals -> Pointer]]
  BY DEF BaseInv, LocalsOK
<1>2. /\ \A w \in Locals : ~New(locals[t][w].object)
      /\ ~New(cell.object)
  BY NotNew DEF Told
<1>3. locals' = [locals EXCEPT ![t][v] = p] /\ cell' = cell
  BY DEF Sets
<1>4. \A u \in Activations \ {t} : locals'[u] = locals[u]
  BY <1>1, <1>3
<1>5. ASSUME NEW x \in Locals
      PROVE  locals'[t][x] = p \/ locals'[t][x] = locals[t][x]
  BY <1>1, <1>3
<1> QED
  BY <1>2, <1>3, <1>4, <1>5

LEMMA CopyTold ==
    ASSUME BaseInv, Told, NEW t \in Activations, NEW v \in Locals, NEW w \in Locals, Copy(t, v, w) PROVE Told'
<1>1. PICK p, e : p = locals[t][w] /\ e = Event(t, "copy", p, w, v)
  OBVIOUS
<1>2. pending[t] = <<>> /\ p # Dead /\ Sets(t, v, p) /\ Log(t, e) /\ Keeps
  BY <1>1, RunsFacts DEF Copy
<1>3. /\ PtrOK(p, live) /\ ~New(p.object)
      /\ \/ p.object < 2 /\ p.ptr \in Low
         \/ \E o \in Tracked : p.object = o.id /\ p.ptr \in o.at .. o.at + o.size
  BY <1>1, <1>2, HandledPointer
<1>4. HookOK(t, e, written)
  BY <1>1, <1>2, <1>3, PlainEvent DEF Kinds, Dests
<1>5. Plain(e)
  <2>1. e.kind = "copy" /\ e.ptr = p.ptr /\ e.to = p.ptr /\ e.object = p.object
    BY <1>1 DEF Event
  <2> QED
    BY <1>3, <2>1 DEF Plain
<1>6. /\ \A u \in Activations \ {t} : locals'[u] = locals[u]
      /\ \A x \in Locals : ~New(locals'[t][x].object)
      /\ ~New(cell'.object)
  BY <1>2, <1>3, SetsSeen
<1> QED
  BY <1>2, <1>4, <1>5, <1>6, PlainStep DEF Told

LEMMA LoadValueTold ==
    ASSUME BaseInv, Told, NEW t \in Activations, NEW v \in Results, LoadValue(t, v) PROVE Told'
<1>1. PICK p, e : p = cell /\ e = Event(t, "value", p, NoLocal, v)
  OBVIOUS
<1>2. pending[t] = <<>> /\ p # Dead /\ Sets(t, v, p) /\ Log(t, e) /\ Keeps
  BY <1>1, RunsFacts DEF LoadValue
<1>3. /\ PtrOK(p, live) /\ ~New(p.object)
      /\ \/ p.object < 2 /\ p.ptr \in Low
         \/ \E o \in Tracked : p.object = o.id /\ p.ptr \in o.at .. o.at + o.size
  BY <1>1, <1>2, HandledPointer
<1>4. HookOK(t, e, written)
  <2>1. v \in Dests /\ NoLocal \in Locals \cup {NoLocal} /\ "value" \in Kinds
    BY DEF Dests, Kinds
  <2>2. PtrOK(p, live) /\ p # Dead /\ e = Event(t, "value", p, NoLocal, v)
    BY <1>1, <1>2, <1>3
  <2> QED
    BY <2>1, <2>2, PlainEvent
<1>5. Plain(e)
  <2>1. e.kind = "value" /\ e.ptr = p.ptr /\ e.to = p.ptr /\ e.object = p.object
    BY <1>1 DEF Event
  <2> QED
    BY <1>3, <2>1 DEF Plain
<1>6. /\ \A u \in Activations \ {t} : locals'[u] = locals[u]
      /\ \A x \in Locals : ~New(locals'[t][x].object)
      /\ ~New(cell'.object)
  BY <1>2, <1>3, SetsSeen
<1> QED
  BY <1>2, <1>4, <1>5, <1>6, PlainStep DEF Told

LEMMA OffsetTold ==
    ASSUME BaseInv, Told, NEW t \in Activations, NEW v \in Locals, NEW w \in Locals, Offset(t, v, w) PROVE Told'
<1>1. PICK p, q, e : /\ p = locals[t][w] /\ q = [p EXCEPT !.ptr = @ + 1]
                     /\ e = [Event(t, "offset", p, w, v) EXCEPT !.to = q.ptr]
  OBVIOUS
<1>2. /\ pending[t] = <<>> /\ p.object > 0 /\ p # Dead /\ p.ptr < EndOf(p)
      /\ Sets(t, v, q) /\ Log(t, e) /\ Keeps
  BY <1>1, RunsFacts DEF Offset, Dead
<1>3. PtrOK(p, live) /\ ~New(p.object)
  BY <1>1, <1>2, HandledPointer
<1>4. q \in Pointer /\ q.ptr = p.ptr + 1 /\ q.object = p.object /\ p.ptr \in Int
  BY <1>1, <1>3 DEF Pointer, PtrOK
<1>5. \/ p.object = 1 /\ p.ptr = StaticAt
      \/ \E o \in live : p.object = o.id /\ p.ptr \in o.at .. o.at + o.size /\ p.ptr + 1 \in o.at .. o.at + o.size
  BY <1>2, <1>3, EndFacts DEF BaseInv
<1>6. \/ p.object = 1 /\ p.ptr = StaticAt
      \/ \E o \in Tracked : p.object = o.id /\ p.ptr \in o.at .. o.at + o.size /\ p.ptr + 1 \in o.at .. o.at + o.size
  BY <1>3, <1>5 DEF Tracked, There
<1>7. e.kind = "offset" /\ e.ptr = p.ptr /\ e.to = p.ptr + 1 /\ e.object = p.object
  BY <1>1, <1>4 DEF Event
<1>8. Plain(e)
  <2>1. CASE p.object = 1 /\ p.ptr = StaticAt
    BY <1>7, <2>1, StaticIsNat DEF Plain, Low
  <2>2. CASE \E o \in Tracked : p.object = o.id /\ p.ptr \in o.at .. o.at + o.size
                                /\ p.ptr + 1 \in o.at .. o.at + o.size
    BY <1>7, <2>2 DEF Plain
  <2> QED
    BY <1>6, <2>1, <2>2
<1>9. HookOK(t, e, written)
  <2>1. About(e, t, "offset", p, w, v)
    BY <1>1 DEF About, Event
  <2>2. p.ptr \in Address /\ p.ptr # 0 /\ p.ptr \notin NullOffsets
    <3>1. p.ptr \in Address
      BY <1>2, <1>3, PtrFacts DEF BaseInv, LiveOK
    <3>2. CASE p.object = 1 /\ p.ptr = StaticAt
      BY <3>1, <3>2, StaticIsNat
    <3>3. CASE \E o \in live : p.ptr \in o.at .. o.at + o.size
      <4>1. PICK o \in live : p.ptr \in o.at .. o.at + o.size
        BY <3>3
      <4>2. o.at \in Nat /\ StaticAt + 1 < o.at
        BY ObjectFacts DEF BaseInv, LiveOK
      <4> QED
        BY <3>1, <4>1, <4>2, StaticIsNat
    <3> QED
      BY <1>5, <3>1, <3>2, <3>3
  <2>3. e.to \in Address /\ e.to # 0
    BY <1>4, <1>7, <2>2, StaticIsNat DEF Address
  <2> QED
    BY <1>2, <1>3, <2>1, <2>2, <2>3, EventFacts DEF Kinds, Dests
<1>10. /\ \A u \in Activations \ {t} : locals'[u] = locals[u]
       /\ \A x \in Locals : ~New(locals'[t][x].object)
       /\ ~New(cell'.object)
  BY <1>2, <1>3, <1>4, SetsSeen
<1> QED
  BY <1>2, <1>8, <1>9, <1>10, PlainStep DEF Told

LEMMA OffsetNullTold ==
    ASSUME BaseInv, Told, NEW t \in Activations, NEW v \in Locals, NEW w \in Locals, OffsetNull(t, v, w) PROVE Told'
<1>1. PICK q, e : /\ e = Event(t, "copy", q, w, v)
                  /\ q \in {locals[t][x] : x \in Locals} \cup {Stray(k) : k \in NullOffsets}
                  /\ q # Dead /\ Sets(t, v, q) /\ Log(t, e)
  BY DEF OffsetNull
<1>2. pending[t] = <<>> /\ Keeps
  BY RunsFacts DEF OffsetNull
<1>3. /\ PtrOK(q, live) /\ ~New(q.object)
      /\ \/ q.object < 2 /\ q.ptr \in Low
         \/ \E o \in Tracked : q.object = o.id /\ q.ptr \in o.at .. o.at + o.size
  <2>1. CASE \E x \in Locals : q = locals[t][x]
    BY <1>1, <1>2, <2>1, HandledPointer
  <2>2. CASE \E k \in NullOffsets : q = Stray(k)
    <3>1. q.object = 0 /\ q.ptr \in Low /\ PtrOK(q, live)
      BY <2>2, FixedPointers DEF Stray, Low
    <3>2. ~New(0)
      BY <1>2, NotNew DEF Told
    <3> QED
      BY <3>1, <3>2
  <2> QED
    BY <1>1, <2>1, <2>2
<1>4. HookOK(t, e, written)
  BY <1>1, <1>3, PlainEvent DEF Kinds, Dests
<1>5. Plain(e)
  <2>1. e.kind = "copy" /\ e.ptr = q.ptr /\ e.to = q.ptr /\ e.object = q.object
    BY <1>1 DEF Event
  <2> QED
    BY <1>3, <2>1 DEF Plain
<1>6. /\ \A u \in Activations \ {t} : locals'[u] = locals[u]
      /\ \A x \in Locals : ~New(locals'[t][x].object)
      /\ ~New(cell'.object)
  BY <1>1, <1>2, <1>3, SetsSeen
<1> QED
  BY <1>1, <1>2, <1>4, <1>5, <1>6, PlainStep DEF Told

LEMMA SetNullTold ==
    ASSUME BaseInv, Told, NEW t \in Activations, NEW v \in Results, SetNull(t, v) PROVE Told'
<1>1. PICK p, e : p = Null /\ e = Event(t, "copy", p, NoLocal, v)
  OBVIOUS
<1>2. pending[t] = <<>> /\ Sets(t, v, p) /\ Log(t, e) /\ Keeps
  BY <1>1, RunsFacts DEF SetNull
<1>3. PtrOK(p, live) /\ p # Dead /\ ~New(p.object) /\ p.object < 2 /\ p.ptr \in Low
  BY <1>1, <1>2, FixedPointers, LowIds DEF Null, Dead
<1>4. HookOK(t, e, written)
  <2>1. v \in Dests /\ NoLocal \in Locals \cup {NoLocal} /\ "copy" \in Kinds
    BY DEF Dests, Kinds
  <2> QED
    BY <1>1, <1>3, <2>1, PlainEvent
<1>5. Plain(e)
  <2>1. e.kind = "copy" /\ e.ptr = p.ptr /\ e.to = p.ptr /\ e.object = p.object
    BY <1>1 DEF Event
  <2> QED
    BY <1>3, <2>1 DEF Plain
<1>6. /\ \A u \in Activations \ {t} : locals'[u] = locals[u]
      /\ \A x \in Locals : ~New(locals'[t][x].object)
      /\ ~New(cell'.object)
  BY <1>2, <1>3, SetsSeen
<1> QED
  BY <1>2, <1>4, <1>5, <1>6, PlainStep DEF Told

LEMMA MallocFailsTold ==
    ASSUME BaseInv, Told, NEW t \in Activations, NEW v \in Results, NEW size \in Sizes, MallocFails(t, v, size)
    PROVE  Told'
<1>1. PICK p, e : p = Null /\ e = AllocOf(t, v, p, size)
  OBVIOUS
<1>2. pending[t] = <<>> /\ Log(t, e) /\ Keeps /\ Sets(t, v, p)
  BY <1>1, RunsFacts DEF MallocFails
<1>3. ~New(p.object)
  BY <1>1, <1>2, LowIds
<1>4. HookOK(t, e, written)
  <2>1. e = AllocOf(t, v, [ptr |-> 0, object |-> 0], size) /\ 0 \in Starts \cup {0} /\ 0 \in Int
    BY <1>1 DEF Null
  <2> QED
    BY <2>1, AllocEvent DEF AllocOK
<1>5. Plain(e)
  <2>1. e.kind = "alloc" /\ e.ptr = 0 /\ e.to = 0 /\ e.object = 0
    BY <1>1 DEF AllocOf, Event, Null
  <2> QED
    BY <2>1 DEF Plain, Low
<1>6. /\ \A u \in Activations \ {t} : locals'[u] = locals[u]
      /\ \A x \in Locals : ~New(locals'[t][x].object)
      /\ ~New(cell'.object)
  BY <1>2, <1>3, SetsSeen
<1> QED
  BY <1>2, <1>4, <1>5, <1>6, PlainStep DEF Told

LEMMA FreeNullTold ==
    ASSUME BaseInv, Told, NEW t \in Activations, NEW w \in Locals, FreeNull(t, w) PROVE Told'
<1>1. PICK p, e : p = Null /\ e = Event(t, "free", p, w, NoLocal)
  OBVIOUS
<1>2. pending[t] = <<>> /\ Log(t, e) /\ Keeps /\ UNCHANGED <<locals, cell>>
  BY <1>1, RunsFacts DEF FreeNull
<1>3. PtrOK(p, live) /\ p # Dead
  BY <1>1, FixedPointers DEF Null, Dead
<1>4. HookOK(t, e, written)
  BY <1>1, <1>3, PlainEvent DEF Kinds, Dests
<1>5. Plain(e)
  <2>1. e.kind = "free" /\ e.ptr = 0 /\ e.to = 0 /\ e.object = 0
    BY <1>1 DEF Event, Null
  <2> QED
    BY <2>1 DEF Plain, Low
<1> QED
  BY <1>2, <1>4, <1>5, NotNew, PlainStep DEF Told

LEMMA UseTold ==
    ASSUME BaseInv, Told, NEW t \in Activations, NEW w \in Locals, Use(t, w) PROVE Told'
<1>1. PICK p, e : p = locals[t][w] /\ e = Event(t, "use", p, w, NoLocal)
  OBVIOUS
<1>2. pending[t] = <<>> /\ p # Dead /\ Log(t, e) /\ Keeps /\ UNCHANGED <<locals, cell>>
  BY <1>1, RunsFacts DEF Use, Dead
<1>3. /\ PtrOK(p, live) /\ ~New(p.object)
      /\ \/ p.object < 2 /\ p.ptr \in Low
         \/ \E o \in Tracked : p.object = o.id /\ p.ptr \in o.at .. o.at + o.size
  BY <1>1, <1>2, HandledPointer
<1>4. HookOK(t, e, written)
  BY <1>1, <1>2, <1>3, PlainEvent DEF Kinds, Dests
<1>5. Plain(e)
  <2>1. e.kind = "use" /\ e.ptr = p.ptr /\ e.to = p.ptr /\ e.object = p.object
    BY <1>1 DEF Event
  <2> QED
    BY <1>3, <2>1 DEF Plain
<1> QED
  BY <1>2, <1>4, <1>5, NotNew, PlainStep DEF Told

LEMMA StoreValueTold ==
    ASSUME BaseInv, Told, NEW t \in Activations, NEW w \in Locals, StoreValue(t, w) PROVE Told'
<1>1. PICK p, e : p = locals[t][w] /\ e = Event(t, "store", p, w, NoLocal)
  OBVIOUS
<1>2. pending[t] = <<>> /\ p # Dead /\ Log(t, e) /\ Keeps /\ UNCHANGED locals /\ cell' = p
  BY <1>1, RunsFacts DEF StoreValue
<1>3. /\ PtrOK(p, live) /\ ~New(p.object)
      /\ \/ p.object < 2 /\ p.ptr \in Low
         \/ \E o \in Tracked : p.object = o.id /\ p.ptr \in o.at .. o.at + o.size
  BY <1>1, <1>2, HandledPointer
<1>4. HookOK(t, e, written)
  BY <1>1, <1>2, <1>3, PlainEvent DEF Kinds, Dests
<1>5. Plain(e)
  <2>1. e.kind = "store" /\ e.ptr = p.ptr /\ e.to = p.ptr /\ e.object = p.object
    BY <1>1 DEF Event
  <2> QED
    BY <1>3, <2>1 DEF Plain
<1> QED
  BY <1>2, <1>3, <1>4, <1>5, NotNew, PlainStep DEF Told

-----------------------------------------------------------------------------
(* A new object, of which the log says nothing. *)
LEMMA NewThereTells ==
    ASSUME NEW b, BuilderOK(b), NEW tracked, NEW there, NEW next, Truth(b, tracked, there, next),
           next >= 2, NEW o \in Object, o.id = next
    PROVE  Truth(b, tracked, there \cup {o}, next + 1)
<1>1. next \in Nat /\ \A q \in there : q.id \in 2 .. next - 1
  BY DEF Truth, Space
<1>2. next \in 2 .. (next + 1) - 1 /\ \A x \in 2 .. next - 1 : x \in 2 .. (next + 1) - 1 /\ x # next
  BY <1>1
<1>3. \A g \in DOMAIN b.graphs : \A x \in ObjectsOf(b, g) : x < next /\ x \in Int
  <2> SUFFICES ASSUME NEW g \in DOMAIN b.graphs, NEW n \in DOMAIN b.graphs[g].nodes
               PROVE  b.graphs[g].nodes[n].object \in Int /\ b.graphs[g].nodes[n].object < next
    BY DEF ObjectsOf
  <2>1. b.graphs[g].nodes \in Seq(Node)
    BY NodesTyped DEF BuilderOK
  <2>2. b.graphs[g].nodes[n] \in Node
    BY <2>1
  <2> QED
    BY <2>2 DEF Node, Truth, Begun, ObjectsOf
<1>4. \A g \in DOMAIN b.graphs : o.id \notin ObjectsOf(b, g)
  BY <1>1, <1>3
<1>5. Space(tracked, there \cup {o}, next + 1)
  BY <1>1, <1>2 DEF Truth, Space
<1>6. Begun(b, next + 1)
  BY <1>1, <1>3 DEF Begun
<1>7. FreeLast(b, there \cup {o}) /\ Untold(b, tracked, there \cup {o})
  BY <1>4 DEF Truth, FreeLast, Untold
<1> QED
  BY <1>5, <1>6, <1>7 DEF Truth

(* Facts about all that is pending. *)
LEMMA EventIds ==
    ASSUME BaseInv, Told, NEW t \in Activations, NEW e \in Sends(pending[t])
    PROVE  e.object < nextId /\ e.object \in Int /\ e.object >= 2
<1>1. PICK o \in There : o.id = e.object
  BY DEF Told, Hooks, EventsTrue, There
<1> QED
  BY <1>1 DEF Told, Truth, Space

LEMMA ThereIds ==
    ASSUME BaseInv, Told, NEW o \in There
    PROVE  /\ o \in Object /\ o.id < nextId /\ o.id >= 2 /\ o.id \in Int /\ nextId \in Nat
           /\ \A p \in There : p.id = o.id => p = o
BY DEF Told, Truth, Space

LEMMA SameApart == ASSUME NEW o, NEW p, Apart(o, p) PROVE Apart(p, o)
BY DEF Apart

(* An activation whose hook has nothing to log begins a call. *)
LEMMA QueueBegins ==
    ASSUME PendingOK, NEW t \in Activations, pending[t] = <<>>, NEW q, pending' = [pending EXCEPT ![t] = q]
    PROVE  /\ pending'[t] = q /\ \A u \in Activations \ {t} : pending'[u] = pending[u]
           /\ \A u \in Activations : \A e \in Sends(pending[u]) : u # t
           /\ \A o, p : Swap(o, p) => Swap(o, p)'
<1>1. pending'[t] = q /\ \A u \in Activations \ {t} : pending'[u] = pending[u]
  BY DEF PendingOK
<1>2. \A u \in Activations : \A e \in Sends(pending[u]) : u # t
  BY SendsNone
<1>3. ASSUME NEW o, NEW p, Swap(o, p)
      PROVE  Swap(o, p)'
  <2>1. PICK u, f, a : u \in Activations /\ pending[u] = <<f, a>> /\ f.object = o.id /\ a.object = p.id
    BY <1>3 DEF Swap
  <2>2. u # t
    <3>1. f \in Sends(pending[u])
      BY <2>1, SendsTwo
    <3> QED
      BY <1>2, <3>1
  <2>3. pending'[u] = <<f, a>>
    BY <1>1, <2>1, <2>2
  <2> QED
    BY <2>1, <2>3 DEF Swap
<1> QED
  BY <1>1, <1>2, <1>3

LEMMA MallocTold ==
    ASSUME BaseInv, Told, NEW t \in Activations, NEW v \in Results, NEW size \in Sizes, Malloc(t, v, size), ~misled'
    PROVE  Told'
<1>1. PICK at, id, o, p, e :
         /\ at \in Starts /\ id = nextId /\ o = [at |-> at, size |-> size, id |-> id]
         /\ p = [ptr |-> at, object |-> id]
         /\ e = AllocOf(t, v, p, size)
         /\ Fits(at, size, live) /\ Sets(t, v, p) /\ live' = live \cup {o}
         /\ pending' = [pending EXCEPT ![t] = <<e>>]
         /\ misled' = (misled \/ \E f \in unlogged : ~Apart(o, f))
  BY DEF Malloc
<1>2. nextId' = nextId + 1 /\ builder' = builder /\ unlogged' = unlogged /\ pending[t] = <<>>
  BY RunsFacts DEF Malloc, Quiet
<1>3. id \in Int /\ id >= 2 /\ o \in Object /\ o.id = id /\ o.at = at /\ o.size = size
  BY <1>1 DEF BaseInv, LiveOK, Object
<1>4. e.kind = "alloc" /\ e.object = id /\ e.ptr = at /\ e.size = size
  BY <1>1 DEF AllocOf, Event
<1>5. /\ pending'[t] = <<e>> /\ \A u \in Activations \ {t} : pending'[u] = pending[u]
      /\ \A u \in Activations : \A f \in Sends(pending[u]) : u # t
      /\ \A q, r : Swap(q, r) => Swap(q, r)'
  BY <1>1, <1>2, QueueBegins DEF BaseInv
<1>6. Sends(pending'[t]) = {e}
  BY <1>5, SendsOne
<1>7. There' = There \cup {o}
  BY <1>1, <1>2 DEF There
<1>8. \A x : New(x)' <=> New(x) \/ x = id
  BY <1>4, <1>5, <1>6 DEF New
<1>9. \A q \in There : q \in Object /\ q.id # id
  BY <1>1, ThereIds
<1>10. Tracked' = Tracked
  BY <1>3, <1>7, <1>8, <1>9 DEF Tracked
<1>11. Truth(builder, Tracked, There, nextId)'
  <2>1. PICK b, tracked, there, next : b = builder /\ tracked = Tracked /\ there = There /\ next = nextId
    OBVIOUS
  <2>2. BuilderOK(b) /\ Truth(b, tracked, there, next) /\ next >= 2
    BY <2>1 DEF Told, BaseInv, LiveOK
  <2>3. Truth(b, tracked, there \cup {o}, next + 1)
    BY <1>1, <1>3, <2>1, <2>2, NewThereTells
  <2> QED
    BY <1>2, <1>7, <1>10, <2>1, <2>3
<1>12. EventsTrue'
  <2> SUFFICES ASSUME NEW u \in Activations, NEW f \in Sends(pending'[u])
               PROVE  \/ f.kind = "alloc" /\ \E q \in live' : q.id = f.object /\ q.at = f.ptr /\ q.size = f.size
                      \/ f.kind = "free" /\ \E q \in unlogged' : q.id = f.object /\ q.at = f.ptr
    BY DEF EventsTrue
  <2>1. CASE u = t
    BY <1>1, <1>3, <1>4, <1>6, <2>1
  <2>2. CASE u # t
    BY <1>1, <1>2, <1>5, <2>2 DEF Told, Hooks, EventsTrue
  <2> QED
    BY <2>1, <2>2
<1>13. \A u \in Activations : \A f \in Sends(pending[u]) : f.object # id
  BY <1>1, EventIds DEF BaseInv, LiveOK
<1>14. OneEach'
  <2> SUFFICES ASSUME NEW u \in Activations, NEW r \in Activations,
                      NEW f \in Sends(pending'[u]), NEW h \in Sends(pending'[r]), f.object = h.object
               PROVE  u = r /\ f = h
    BY DEF OneEach
  <2>1. CASE u # t /\ r # t
    BY <1>5, <2>1 DEF Told, Hooks, OneEach
  <2>2. CASE u = t \/ r = t
    BY <1>4, <1>5, <1>6, <1>13, <2>2
  <2> QED
    BY <2>1, <2>2
<1>15. locals \in [Activations -> [Locals -> Pointer]] /\ locals' = [locals EXCEPT ![t][v] = p] /\ cell' = cell
  BY <1>1 DEF Sets, BaseInv, LocalsOK
<1>16. /\ \A u \in Activations, x \in Locals : locals[u][x].object # id
       /\ cell.object # id
  BY <1>1, PointerIds DEF BaseInv, LocalsOK, LiveOK
<1>17. Unseen'
  <2>1. ASSUME NEW r \in Activations, NEW f \in Sends(pending'[r]), f.kind = "alloc",
               NEW u \in Activations \ {r}, NEW x \in Locals
        PROVE  locals'[u][x].object # f.object
    <3>1. CASE r = t
      <4>1. locals'[u][x] = locals[u][x]
        BY <1>15, <2>1, <3>1
      <4> QED
        BY <1>4, <1>6, <1>16, <3>1, <4>1
    <3>2. CASE r # t
      <4>1. f \in Sends(pending[r])
        BY <1>5, <3>2
      <4>2. locals'[u][x] = locals[u][x] \/ locals'[u][x] = p
        BY <1>15
      <4>3. locals[u][x].object # f.object
        BY <2>1, <4>1 DEF Told, Hooks, Unseen
      <4>4. p.object = id
        BY <1>1
      <4> QED
        BY <1>13, <4>1, <4>2, <4>3, <4>4
    <3> QED
      BY <3>1, <3>2
  <2>2. ~New(cell.object)'
    BY <1>8, <1>15, <1>16 DEF Told, Hooks, Unseen
  <2> QED
    BY <2>1, <2>2 DEF Unseen
<1>18. Owners'
  <2>1. o \notin unlogged /\ \A f \in unlogged : f \in There
    BY <1>3, <1>9 DEF There
  <2>2. live' \cap unlogged' = {}
    BY <1>1, <1>2, <2>1 DEF Told, Hooks, Owners
  <2>3. \A f \in unlogged' : ~New(f.id)'
    BY <1>2, <1>8, <1>9, <2>1 DEF Told, Hooks, Owners
  <2>4. \A q \in live : Apart(o, q) /\ Apart(q, o)
    <3> SUFFICES ASSUME NEW q \in live
                 PROVE  Apart(o, q)
      BY SameApart
    <3>1. Apart([at |-> at, size |-> size], q)
      BY <1>1 DEF Fits
    <3> QED
      BY <1>3, <3>1 DEF Apart
  <2>5. \A q \in unlogged : Apart(o, q) /\ Apart(q, o)
    BY <1>1, SameApart
  <2>6. \A q, r \in There' : q = r \/ Apart(q, r) \/ Swap(q, r)' \/ Swap(r, q)'
    BY <1>5, <1>7, <2>4, <2>5 DEF Told, Hooks, Owners, There
  <2> QED
    BY <2>2, <2>3, <2>6 DEF Owners
<1> QED
  BY <1>11, <1>12, <1>14, <1>17, <1>18 DEF Told, Hooks

-----------------------------------------------------------------------------
(* The object an activation may free. *)
LEMMA Freeable ==
    ASSUME BaseInv, Told, NEW t \in Activations, pending[t] = <<>>, NEW w \in Locals,
           NEW o \in ObjectAt(locals[t][w])
    PROVE  /\ o \in live /\ o \in There /\ locals[t][w].object = o.id /\ locals[t][w].ptr = o.at
           /\ ~New(o.id) /\ o \in Tracked
           /\ \A u \in Activations : \A e \in Sends(pending[u]) : e.object # o.id
<1>1. o \in live /\ locals[t][w].object = o.id /\ locals[t][w].ptr = o.at /\ o \in There
  BY DEF ObjectAt, There
<1>2. ~New(o.id)
  BY <1>1, NotNew DEF Told
<1>3. ASSUME NEW u \in Activations, NEW e \in Sends(pending[u]), e.object = o.id
      PROVE  FALSE
  <2>1. CASE e.kind = "alloc"
    BY <1>2, <1>3, <2>1 DEF New
  <2>2. CASE \E q \in unlogged : q.id = e.object
    <3>1. PICK q \in unlogged : q.id = o.id
      BY <1>3, <2>2
    <3>2. q = o
      BY <1>1, <3>1, ThereIds DEF There
    <3> QED
      BY <1>1, <3>1, <3>2 DEF Told, Hooks, Owners
  <2> QED
    BY <2>1, <2>2 DEF Told, Hooks, EventsTrue
<1> QED
  BY <1>1, <1>2, <1>3 DEF Tracked

LEMMA FreeTold ==
    ASSUME BaseInv, Told, NEW t \in Activations, NEW w \in Locals, Free(t, w) PROVE Told'
<1>1. PICK p, e, o : 
         /\ o \in ObjectAt(p) /\ p = locals[t][w] /\ e = Event(t, "free", p, w, NoLocal)
         /\ live' = live \ {o} /\ unlogged' = unlogged \cup {o} /\ Forget(o.id)
         /\ pending' = [pending EXCEPT ![t] = <<e>>]
  BY DEF Free
<1>2. nextId' = nextId /\ builder' = builder /\ pending[t] = <<>>
  BY RunsFacts DEF Free, Quiet
<1>3. /\ o \in live /\ o \in There /\ p.object = o.id /\ p.ptr = o.at
      /\ ~New(o.id)
      /\ \A u \in Activations : \A f \in Sends(pending[u]) : f.object # o.id
  BY <1>1, <1>2, Freeable
<1>4. e.kind = "free" /\ e.object = o.id /\ e.ptr = o.at
  BY <1>1, <1>3 DEF Event
<1>5. /\ pending'[t] = <<e>> /\ \A u \in Activations \ {t} : pending'[u] = pending[u]
      /\ \A u \in Activations : \A f \in Sends(pending[u]) : u # t
      /\ \A q, r : Swap(q, r) => Swap(q, r)'
  BY <1>1, <1>2, QueueBegins DEF BaseInv
<1>6. Sends(pending'[t]) = {e}
  BY <1>5, SendsOne
<1>7. There' = There
  BY <1>1, <1>3 DEF There
<1>8. \A x : New(x)' <=> New(x)
  BY <1>4, <1>5, <1>6 DEF New
<1>9. Tracked' = Tracked
  BY <1>7, <1>8 DEF Tracked
<1>10. Truth(builder, Tracked, There, nextId)'
  BY <1>2, <1>7, <1>9 DEF Told
<1>11. EventsTrue'
  <2> SUFFICES ASSUME NEW u \in Activations, NEW f \in Sends(pending'[u])
               PROVE  \/ f.kind = "alloc" /\ \E q \in live' : q.id = f.object /\ q.at = f.ptr /\ q.size = f.size
                      \/ f.kind = "free" /\ \E q \in unlogged' : q.id = f.object /\ q.at = f.ptr
    BY DEF EventsTrue
  <2>1. CASE u = t
    BY <1>1, <1>4, <1>6, <2>1
  <2>2. CASE u # t
    <3>1. f \in Sends(pending[u]) /\ f.object # o.id
      BY <1>3, <1>5, <2>2
    <3>2. \/ f.kind = "alloc" /\ \E q \in live : q.id = f.object /\ q.at = f.ptr /\ q.size = f.size
          \/ f.kind = "free" /\ \E q \in unlogged : q.id = f.object /\ q.at = f.ptr
      BY <3>1 DEF Told, Hooks, EventsTrue
    <3> QED
      BY <1>1, <3>1, <3>2
  <2> QED
    BY <2>1, <2>2
<1>12. OneEach'
  <2> SUFFICES ASSUME NEW u \in Activations, NEW r \in Activations,
                      NEW f \in Sends(pending'[u]), NEW h \in Sends(pending'[r]), f.object = h.object
               PROVE  u = r /\ f = h
    BY DEF OneEach
  <2>1. CASE u # t /\ r # t
    BY <1>5, <2>1 DEF Told, Hooks, OneEach
  <2>2. CASE u = t \/ r = t
    BY <1>3, <1>4, <1>5, <1>6, <2>2
  <2> QED
    BY <2>1, <2>2
<1>13. /\ \A u \in Activations, x \in Locals : locals'[u][x] = locals[u][x] \/ locals'[u][x] = Dead
       /\ cell' = cell \/ cell' = Dead
  BY <1>1 DEF Forget
<1>14. ~New(Dead.object) /\ Dead.object < 2
  BY <1>2, NotNew DEF Dead, Told
<1>15. Unseen'
  <2>1. ASSUME NEW r \in Activations, NEW f \in Sends(pending'[r]), f.kind = "alloc",
               NEW u \in Activations \ {r}, NEW x \in Locals
        PROVE  locals'[u][x].object # f.object
    <3>1. r # t
      BY <1>4, <1>6, <2>1
    <3>2. f \in Sends(pending[r])
      BY <1>5, <3>1
    <3>3. locals[u][x].object # f.object /\ f.object # Dead.object
      BY <1>14, <2>1, <3>2 DEF Told, Hooks, Unseen, New
    <3> QED
      BY <1>13, <3>3
  <2>2. ~New(cell.object)'
    BY <1>8, <1>13, <1>14 DEF Told, Hooks, Unseen
  <2> QED
    BY <2>1, <2>2 DEF Unseen
<1>16. Owners'
  <2>1. live' \cap unlogged' = {}
    BY <1>1 DEF Told, Hooks, Owners
  <2>2. \A f \in unlogged' : ~New(f.id)'
    BY <1>1, <1>3, <1>8 DEF Told, Hooks, Owners
  <2>3. \A q, r \in There' : q = r \/ Apart(q, r) \/ Swap(q, r)' \/ Swap(r, q)'
    BY <1>5, <1>7 DEF Told, Hooks, Owners
  <2> QED
    BY <2>1, <2>2, <2>3 DEF Owners
<1> QED
  BY <1>10, <1>11, <1>12, <1>15, <1>16 DEF Told, Hooks

LEMMA ReallocTold ==
    ASSUME BaseInv, Told, NEW t \in Activations, NEW v \in Results, NEW w \in Locals, NEW size \in Sizes,
           Realloc(t, v, w, size), ~misled'
    PROVE  Told'
<1>1. PICK o, n : Moves(t, v, w, size, o, n)
  BY ReallocMoves
<1>2. PICK id, p, e, f : /\ id = nextId /\ p = [ptr |-> n.at, object |-> id]
                         /\ e = Event(t, "free", locals[t][w], w, NoLocal)
                         /\ f = AllocOf(t, v, p, size)
  OBVIOUS
<1>3. /\ o \in ObjectAt(locals[t][w]) /\ n.at \in Starts
      /\ n = [at |-> n.at, size |-> size, id |-> id]
      /\ Fits(n.at, size, live \ {o})
      /\ n.at = o.at \/ Apart(n, o)
      /\ live' = (live \ {o}) \cup {n} /\ unlogged' = unlogged \cup {o}
      /\ locals' = [Forgotten(o.id) EXCEPT ![t][v] = p]
      /\ cell' = IF cell.object = o.id THEN Dead ELSE cell
      /\ pending' = [pending EXCEPT ![t] = <<e, f>>]
      /\ misled' = (misled \/ \E q \in unlogged : ~Apart(n, q))
  BY <1>1, <1>2, Zenon DEF Moves
<1>4. nextId' = nextId + 1 /\ builder' = builder /\ pending[t] = <<>>
  BY RunsFacts DEF Realloc, Quiet
<1>5. /\ o \in live /\ o \in There /\ locals[t][w].object = o.id /\ locals[t][w].ptr = o.at
      /\ ~New(o.id)
      /\ \A u \in Activations : \A q \in Sends(pending[u]) : q.object # o.id
  BY <1>3, <1>4, Freeable
<1>6. id \in Int /\ id >= 2 /\ n \in Object /\ n.id = id /\ n.size = size
  BY <1>2, <1>3 DEF BaseInv, LiveOK, Object
<1>7. /\ e.kind = "free" /\ e.object = o.id /\ e.ptr = o.at
      /\ f.kind = "alloc" /\ f.object = id /\ f.ptr = n.at /\ f.size = size
  BY <1>2, <1>5 DEF AllocOf, Event
<1>8. /\ pending'[t] = <<e, f>> /\ \A u \in Activations \ {t} : pending'[u] = pending[u]
      /\ \A u \in Activations : \A q \in Sends(pending[u]) : u # t
      /\ \A q, r : Swap(q, r) => Swap(q, r)'
  BY <1>3, <1>4, QueueBegins DEF BaseInv
<1>9. Sends(pending'[t]) = {e, f}
  BY <1>8, SendsTwo
<1>10. There' = There \cup {n}
  BY <1>3, <1>5 DEF There
<1>11. \A x : New(x)' <=> New(x) \/ x = id
  BY <1>7, <1>8, <1>9 DEF New
<1>12. \A q \in There : q \in Object /\ q.id # id
  BY <1>2, ThereIds
<1>13. Tracked' = Tracked
  BY <1>6, <1>10, <1>11, <1>12 DEF Tracked
<1>14. Truth(builder, Tracked, There, nextId)'
  <2>1. PICK b, tracked, there, next : b = builder /\ tracked = Tracked /\ there = There /\ next = nextId
    OBVIOUS
  <2>2. BuilderOK(b) /\ Truth(b, tracked, there, next) /\ next >= 2
    BY <2>1 DEF Told, BaseInv, LiveOK
  <2>3. Truth(b, tracked, there \cup {n}, next + 1)
    BY <1>2, <1>6, <2>1, <2>2, NewThereTells
  <2> QED
    BY <1>4, <1>10, <1>13, <2>1, <2>3
<1>15. \A u \in Activations : \A q \in Sends(pending[u]) : q.object # id /\ q.object # o.id
  BY <1>2, <1>5, EventIds DEF BaseInv, LiveOK
<1>16. EventsTrue'
  <2> SUFFICES ASSUME NEW u \in Activations, NEW h \in Sends(pending'[u])
               PROVE  \/ h.kind = "alloc" /\ \E q \in live' : q.id = h.object /\ q.at = h.ptr /\ q.size = h.size
                      \/ h.kind = "free" /\ \E q \in unlogged' : q.id = h.object /\ q.at = h.ptr
    BY DEF EventsTrue
  <2>1. CASE u = t
    <3>1. CASE h = e
      BY <1>3, <1>7, <3>1
    <3>2. CASE h = f
      <4>1. n \in live'
        BY <1>3
      <4> QED
        BY <1>6, <1>7, <3>2, <4>1
    <3> QED
      BY <1>9, <2>1, <3>1, <3>2
  <2>2. CASE u # t
    <3>1. h \in Sends(pending[u]) /\ h.object # o.id
      BY <1>8, <1>15, <2>2
    <3>2. \/ h.kind = "alloc" /\ \E q \in live : q.id = h.object /\ q.at = h.ptr /\ q.size = h.size
          \/ h.kind = "free" /\ \E q \in unlogged : q.id = h.object /\ q.at = h.ptr
      BY <3>1 DEF Told, Hooks, EventsTrue
    <3>3. live \ {o} \subseteq live' /\ unlogged \subseteq unlogged'
      BY <1>3
    <3> QED
      BY <3>1, <3>2, <3>3
  <2> QED
    BY <2>1, <2>2
<1>17. OneEach'
  <2> SUFFICES ASSUME NEW u \in Activations, NEW r \in Activations,
                      NEW g \in Sends(pending'[u]), NEW h \in Sends(pending'[r]), g.object = h.object
               PROVE  u = r /\ g = h
    BY DEF OneEach
  <2>1. CASE u # t /\ r # t
    BY <1>8, <2>1 DEF Told, Hooks, OneEach
  <2>2. CASE u = t /\ r = t
    <3>1. o.id # id
      BY <1>5, <1>12
    <3> QED
      BY <1>7, <1>9, <2>2, <3>1
  <2>3. CASE ~(u = t <=> r = t)
    BY <1>7, <1>8, <1>9, <1>15, <2>3
  <2> QED
    BY <2>1, <2>2, <2>3
<1>18. /\ \A u \in Activations \ {t}, x \in Locals : locals'[u][x] = locals[u][x] \/ locals'[u][x] = Dead
       /\ \A x \in Locals : locals'[t][x] = locals[t][x] \/ locals'[t][x] = Dead \/ locals'[t][x] = p
       /\ cell' = cell \/ cell' = Dead
  <2>1. PICK z : z = Forgotten(o.id)
    OBVIOUS
  <2>2. /\ z \in [Activations -> [Locals -> {locals[u][x] : u \in Activations, x \in Locals} \cup {Dead}]]
        /\ \A u \in Activations, x \in Locals : z[u][x] = locals[u][x] \/ z[u][x] = Dead
    BY <2>1 DEF Forgotten
  <2>3. locals' = [z EXCEPT ![t][v] = p]
    BY <1>3, <2>1
  <2>4. \A u \in Activations, x \in Locals : locals'[u][x] = z[u][x] \/ (u = t /\ locals'[u][x] = p)
    BY <2>2, <2>3
  <2> QED
    BY <1>3, <2>2, <2>4
<1>19. ~New(Dead.object) /\ Dead.object < 2 /\ Dead.object \in Int
  BY <1>4, NotNew DEF Dead, Told
<1>20. /\ \A u \in Activations, x \in Locals : locals[u][x].object # id
       /\ cell.object # id
  BY <1>2, PointerIds DEF BaseInv, LocalsOK, LiveOK
<1>21. Unseen'
  <2>1. ASSUME NEW r \in Activations, NEW h \in Sends(pending'[r]), h.kind = "alloc",
               NEW u \in Activations \ {r}, NEW x \in Locals
        PROVE  locals'[u][x].object # h.object
    <3>1. CASE r = t
      <4>1. h.object = id
        BY <1>7, <1>9, <2>1, <3>1
      <4>2. locals'[u][x] = locals[u][x] \/ locals'[u][x] = Dead
        BY <1>18, <2>1, <3>1
      <4> QED
        BY <1>6, <1>19, <1>20, <4>1, <4>2
    <3>2. CASE r # t
      <4>1. h \in Sends(pending[r])
        BY <1>8, <3>2
      <4>2. locals'[u][x] = locals[u][x] \/ locals'[u][x] = Dead \/ locals'[u][x] = p
        BY <1>18
      <4>3. locals[u][x].object # h.object /\ h.object # Dead.object
        BY <1>19, <2>1, <4>1 DEF Told, Hooks, Unseen, New
      <4>4. p.object = id
        BY <1>2
      <4> QED
        BY <1>15, <4>1, <4>2, <4>3, <4>4
    <3> QED
      BY <3>1, <3>2
  <2>2. ~New(cell.object)'
    <3>1. cell'.object # id /\ ~New(cell'.object)
      BY <1>6, <1>18, <1>19, <1>20 DEF Told, Hooks, Unseen
    <3> QED
      BY <1>11, <3>1
  <2> QED
    BY <2>1, <2>2 DEF Unseen
<1>22. Owners'
  <2>1. n \notin unlogged /\ n # o /\ \A q \in unlogged : q \in There
    BY <1>5, <1>6, <1>12 DEF There
  <2>2. live' \cap unlogged' = {}
    BY <1>3, <2>1 DEF Told, Hooks, Owners
  <2>3. \A q \in unlogged' : ~New(q.id)'
    BY <1>3, <1>5, <1>11, <1>12, <2>1 DEF Told, Hooks, Owners
  <2>4. \A q \in live \ {o} : Apart(n, q) /\ Apart(q, n)
    <3> SUFFICES ASSUME NEW q \in live \ {o}
                 PROVE  Apart(n, q)
      BY SameApart
    <3>1. Apart([at |-> n.at, size |-> size], q)
      BY <1>3 DEF Fits
    <3> QED
      BY <1>6, <3>1 DEF Apart
  <2>5. \A q \in unlogged : Apart(n, q) /\ Apart(q, n)
    BY <1>3, SameApart
  <2>6. Swap(o, n)'
    BY <1>6, <1>7, <1>8 DEF Swap
  <2>7. \A q, r \in There' : q = r \/ Apart(q, r) \/ Swap(q, r)' \/ Swap(r, q)'
    BY <1>8, <1>10, <2>4, <2>5, <2>6 DEF Told, Hooks, Owners, There
  <2> QED
    BY <2>2, <2>3, <2>7 DEF Owners
<1> QED
  BY <1>14, <1>16, <1>17, <1>21, <1>22 DEF Told, Hooks

-----------------------------------------------------------------------------
(* A hook logs the end of an object, ...                                   *)
LEMMA SendFree ==
    ASSUME BaseInv, Told, NEW t \in Activations, NEW e, NEW rest,
           e \in Sends(pending[t]), Sends(pending[t]) = Sends(rest) \cup {e}, e.kind = "free",
           HookOK(t, e, written), builder' = AddNode(builder, e),
           pending' = [pending EXCEPT ![t] = rest], \A f \in Sends(rest) : f # e,
           unlogged' = {o \in unlogged : ~(e.kind = "free" /\ e.object = o.id)},
           UNCHANGED <<program, nextId>>
    PROVE  Told'
<1>1. PICK o \in unlogged : o.id = e.object /\ o.at = e.ptr
  BY DEF Told, Hooks, EventsTrue
<1>2. o \in There /\ ~New(o.id) /\ o \in Tracked /\ \A q \in There : q.id = o.id => q = o
  <2>1. o \in There
    BY DEF There
  <2> QED
    BY <2>1, ThereIds DEF Told, Hooks, Owners, Tracked
<1>3. unlogged' = unlogged \ {o} /\ live' = live /\ locals' = locals /\ cell' = cell /\ nextId' = nextId
  BY <1>1, <1>2 DEF There, program
<1>4. pending'[t] = rest /\ \A u \in Activations \ {t} : pending'[u] = pending[u]
  BY DEF BaseInv, PendingOK
<1>5. There' = There \ {o} /\ o \notin live
  BY <1>3 DEF There, Told, Hooks, Owners
<1>6. \A u \in Activations : \A f \in Sends(pending'[u]) : f \in Sends(pending[u]) /\ f.object # e.object
  <2> SUFFICES ASSUME NEW u \in Activations, NEW f \in Sends(pending'[u])
               PROVE  f \in Sends(pending[u]) /\ f.object # e.object
    OBVIOUS
  <2>1. f \in Sends(pending[u]) /\ (u = t => f # e)
    BY <1>4
  <2> QED
    BY <2>1 DEF Told, Hooks, OneEach
<1>7. \A x : New(x)' <=> New(x)
  <2>1. \A u \in Activations : \A f \in Sends(pending[u]) : f.kind = "alloc" => f \in Sends(pending'[u])
    BY <1>4
  <2> QED
    BY <1>6, <2>1 DEF New
<1>8. Tracked' = Tracked \ {o}
  BY <1>5, <1>7 DEF Tracked
<1>9. Truth(builder, Tracked, There, nextId)'
  <2>1. PICK b, tracked, there, next : b = builder /\ tracked = Tracked /\ there = There /\ next = nextId
    OBVIOUS
  <2>2. BuilderOK(b) /\ Truth(b, tracked, there, next) /\ EventOK(e)
    BY <2>1 DEF Told, BaseInv, HookOK
  <2>3. Truth(AddNode(b, e), tracked \ {o}, there \ {o}, next)
    BY <1>1, <1>2, <2>1, <2>2, FreeEventTells
  <2> QED
    BY <1>3, <1>5, <1>8, <2>1, <2>3
<1>10. EventsTrue'
  <2> SUFFICES ASSUME NEW u \in Activations, NEW f \in Sends(pending'[u])
               PROVE  \/ f.kind = "alloc" /\ \E q \in live' : q.id = f.object /\ q.at = f.ptr /\ q.size = f.size
                      \/ f.kind = "free" /\ \E q \in unlogged' : q.id = f.object /\ q.at = f.ptr
    BY DEF EventsTrue
  <2>1. f \in Sends(pending[u]) /\ f.object # o.id
    BY <1>1, <1>6
  <2>2. \/ f.kind = "alloc" /\ \E q \in live : q.id = f.object /\ q.at = f.ptr /\ q.size = f.size
        \/ f.kind = "free" /\ \E q \in unlogged : q.id = f.object /\ q.at = f.ptr
    BY <2>1 DEF Told, Hooks, EventsTrue
  <2> QED
    BY <1>3, <2>1, <2>2
<1>11. OneEach'
  BY <1>6 DEF Told, Hooks, OneEach
<1>12. Unseen'
  BY <1>3, <1>6, <1>7 DEF Told, Hooks, Unseen
<1>13. Owners'
  <2>1. live' \cap unlogged' = {} /\ \A f \in unlogged' : ~New(f.id)'
    BY <1>3, <1>7 DEF Told, Hooks, Owners
  <2>2. ASSUME NEW q \in There', NEW r \in There', Swap(q, r)
        PROVE  Swap(q, r)'
    <3>1. PICK u, f, a : u \in Activations /\ pending[u] = <<f, a>> /\ f.object = q.id /\ a.object = r.id
      BY <2>2 DEF Swap
    <3>2. CASE u = t
      <4>1. Sends(pending[t]) = {f, a}
        BY <3>1, <3>2, SendsTwo
      <4>2. q # o /\ r # o /\ q \in There /\ r \in There
        BY <1>5
      <4>3. q.id # e.object /\ r.id # e.object
        BY <1>1, <1>2, <4>2
      <4> QED
        BY <3>1, <4>1, <4>3
    <3>3. CASE u # t
      BY <1>4, <3>1, <3>3 DEF Swap
    <3> QED
      BY <3>2, <3>3
  <2>3. \A q, r \in There' : q = r \/ Apart(q, r) \/ Swap(q, r)' \/ Swap(r, q)'
    BY <1>5, <2>2 DEF Told, Hooks, Owners
  <2> QED
    BY <2>1, <2>3 DEF Owners
<1> QED
  BY <1>9, <1>10, <1>11, <1>12, <1>13 DEF Told, Hooks

(* ... or the beginning of one, which is all it has to log. *)
LEMMA SendAlloc ==
    ASSUME BaseInv, Told, NEW t \in Activations, NEW e, pending[t] = <<e>>, e.kind = "alloc",
           HookOK(t, e, written), builder' = AddNode(builder, e),
           pending' = [pending EXCEPT ![t] = <<>>],
           unlogged' = {o \in unlogged : ~(e.kind = "free" /\ e.object = o.id)},
           UNCHANGED <<program, nextId>>
    PROVE  Told'
<1>0. Sends(pending[t]) = {e}
  BY SendsOne
<1>1. PICK o \in live : o.id = e.object /\ o.at = e.ptr /\ o.size = e.size
  BY <1>0 DEF Told, Hooks, EventsTrue
<1>2. New(o.id) /\ o \in There /\ o \notin Tracked /\ \A q \in There : q.id = o.id => q = o
  <2>1. o \in There
    BY DEF There
  <2>2. New(o.id)
    BY <1>0, <1>1 DEF New
  <2> QED
    BY <2>1, <2>2, ThereIds DEF Tracked
<1>3. unlogged' = unlogged /\ live' = live /\ locals' = locals /\ cell' = cell /\ nextId' = nextId
      /\ There' = There
  BY DEF There, program
<1>4. pending'[t] = <<>> /\ \A u \in Activations \ {t} : pending'[u] = pending[u]
  BY DEF BaseInv, PendingOK
<1>5. \A u \in Activations : \A f \in Sends(pending'[u]) : u # t /\ f \in Sends(pending[u])
  BY <1>4, SendsNone
<1>6. \A u \in Activations \ {t} : \A f \in Sends(pending[u]) : f \in Sends(pending'[u]) /\ f.object # e.object
  BY <1>0, <1>4 DEF Told, Hooks, OneEach
<1>7. \A x : New(x)' <=> New(x) /\ x # e.object
  BY <1>0, <1>5, <1>6 DEF New
<1>8. Tracked' = Tracked \cup {o}
  BY <1>1, <1>2, <1>3, <1>7 DEF Tracked
<1>9. \A p \in Tracked : Apart(o, p) /\ Apart(p, o)
  <2> SUFFICES ASSUME NEW p \in Tracked
               PROVE  Apart(o, p)
    BY SameApart
  <2>1. p # o /\ p \in There /\ ~New(p.id)
    BY <1>2 DEF Tracked
  <2>2. ~Swap(o, p) /\ ~Swap(p, o)
    <3>1. ASSUME NEW u \in Activations, NEW f, NEW a, pending[u] = <<f, a>>
          PROVE  a.object # p.id /\ a.object # o.id
      <4>1. Sends(pending[u]) = {f, a}
        BY <3>1, SendsTwo
      <4>2. u # t
        BY <3>1
      <4>3. a.kind = "alloc"
        <5>1. QueueOK(u, <<f, a>>, written)
          BY <3>1 DEF BaseInv, PendingOK
        <5> QED
          BY <5>1 DEF QueueOK, AllocOK
      <4>4. a.object # p.id
        BY <2>1, <4>1, <4>3 DEF New
      <4> QED
        BY <1>1, <1>6, <4>1, <4>2, <4>4
    <3> QED
      BY <3>1 DEF Swap
  <2>3. Apart(o, p) \/ Apart(p, o)
    BY <1>2, <2>1, <2>2 DEF Told, Hooks, Owners
  <2> QED
    BY <2>3, SameApart
<1>10. Truth(builder, Tracked, There, nextId)'
  <2>1. PICK b, tracked, there, next : b = builder /\ tracked = Tracked /\ there = There /\ next = nextId
    OBVIOUS
  <2>2. BuilderOK(b) /\ Truth(b, tracked, there, next) /\ EventOK(e)
    BY <2>1 DEF Told, BaseInv, HookOK
  <2>3. Truth(AddNode(b, e), tracked \cup {o}, there, next)
    BY <1>1, <1>2, <1>9, <2>1, <2>2, AllocEventTells
  <2> QED
    BY <1>3, <1>8, <2>1, <2>3
<1>11. EventsTrue'
  BY <1>3, <1>5 DEF Told, Hooks, EventsTrue
<1>12. OneEach'
  BY <1>5 DEF Told, Hooks, OneEach
<1>13. Unseen'
  BY <1>3, <1>5, <1>7 DEF Told, Hooks, Unseen
<1>14. Owners'
  <2>1. live' \cap unlogged' = {} /\ \A f \in unlogged' : ~New(f.id)'
    BY <1>3, <1>7 DEF Told, Hooks, Owners
  <2>2. ASSUME NEW q, NEW r, Swap(q, r)
        PROVE  Swap(q, r)'
    <3>1. PICK u, f, a : u \in Activations /\ pending[u] = <<f, a>> /\ f.object = q.id /\ a.object = r.id
      BY <2>2 DEF Swap
    <3>2. pending[u] # <<e>>
      BY <3>1, OneIsNotTwo
    <3>3. u # t
      BY <3>2
    <3> QED
      BY <1>4, <3>1, <3>3 DEF Swap
  <2>3. \A q, r \in There' : q = r \/ Apart(q, r) \/ Swap(q, r)' \/ Swap(r, q)'
    BY <1>3, <2>2 DEF Told, Hooks, Owners
  <2> QED
    BY <2>1, <2>3 DEF Owners
<1> QED
  BY <1>10, <1>11, <1>12, <1>13, <1>14 DEF Told, Hooks

LEMMA SendTold ==
    ASSUME BaseInv, Told, NEW t \in Activations, Send(t) PROVE Told'
<1>1. PICK q, w : q = pending[t] /\ w = written
  OBVIOUS
<1>2. /\ q # <<>> /\ Log(t, Head(q)) /\ pending' = [pending EXCEPT ![t] = Tail(q)]
      /\ unlogged' = {o \in unlogged : ~(Head(q).kind = "free" /\ Head(q).object = o.id)}
      /\ UNCHANGED <<program, nextId>>
  BY <1>1 DEF Send
<1>3. QueueOK(t, q, w)
  BY <1>1 DEF BaseInv, PendingOK
<1>4. builder' = AddNode(builder, Head(q))
  BY <1>2 DEF Log
<1>5. \/ \E e : q = <<e>> /\ Sends(q) = {e} /\ Head(q) = e /\ Tail(q) = <<>>
                /\ HookOK(t, e, w) /\ e.kind \in {"alloc", "free"}
      \/ \E f, a : q = <<f, a>> /\ Sends(q) = {f, a} /\ Head(q) = f /\ Tail(q) = <<a>>
                   /\ HookOK(t, f, w) /\ f.kind = "free" /\ a.kind = "alloc"
  BY <1>2, <1>3, QueueForms
<1>6. CASE \E e : q = <<e>> /\ Sends(q) = {e} /\ Head(q) = e /\ Tail(q) = <<>>
                  /\ HookOK(t, e, w) /\ e.kind \in {"alloc", "free"}
  <2>1. PICK e : q = <<e>> /\ Sends(q) = {e} /\ Head(q) = e /\ Tail(q) = <<>>
                 /\ HookOK(t, e, w) /\ e.kind \in {"alloc", "free"}
    BY <1>6
  <2>2. PICK rest : rest = <<>>
    OBVIOUS
  <2>3. Sends(rest) = {}
    BY <2>2, SendsNone
  <2>4. CASE e.kind = "free"
    BY <1>1, <1>2, <1>4, <2>1, <2>2, <2>3, <2>4, SendFree
  <2>5. CASE e.kind = "alloc"
    BY <1>1, <1>2, <1>4, <2>1, <2>5, SendAlloc
  <2> QED
    BY <2>1, <2>4, <2>5
<1>7. CASE \E f, a : q = <<f, a>> /\ Sends(q) = {f, a} /\ Head(q) = f /\ Tail(q) = <<a>>
                     /\ HookOK(t, f, w) /\ f.kind = "free" /\ a.kind = "alloc"
  <2>1. PICK f, a : q = <<f, a>> /\ Sends(q) = {f, a} /\ Head(q) = f /\ Tail(q) = <<a>>
                    /\ HookOK(t, f, w) /\ f.kind = "free" /\ a.kind = "alloc"
    BY <1>7
  <2>2. PICK rest : rest = <<a>>
    OBVIOUS
  <2>3. Sends(rest) = {a} /\ a # f
    BY <2>1, <2>2, SendsOne
  <2>4. /\ f \in Sends(pending[t]) /\ Sends(pending[t]) = Sends(rest) \cup {f}
        /\ HookOK(t, f, written) /\ f.kind = "free" /\ \A e \in Sends(rest) : e # f
    BY <1>1, <2>1, <2>3
  <2>5. /\ builder' = AddNode(builder, f) /\ pending' = [pending EXCEPT ![t] = rest]
        /\ unlogged' = {o \in unlogged : ~(f.kind = "free" /\ f.object = o.id)}
        /\ UNCHANGED <<program, nextId>>
    BY <1>1, <1>2, <1>4, <2>1, <2>2
  <2> QED
    BY <2>4, <2>5, SendFree
<1> QED
  BY <1>5, <1>6, <1>7

-----------------------------------------------------------------------------
LEMMA InitTruth == Init => TruthInv
<1> SUFFICES ASSUME Init PROVE TruthInv
  OBVIOUS
<1>1. /\ There = {} /\ Tracked = {} /\ live = {} /\ unlogged = {} /\ nextId = 2
      /\ \A t \in Activations : pending[t] = <<>>
  BY DEF Init, There, Tracked
<1>2. \A t \in Activations : Sends(pending[t]) = {}
  BY <1>1, SendsNone
<1>3. Hooks
  BY <1>1, <1>2 DEF Hooks, EventsTrue, OneEach, Unseen, Owners, New
<1>4. builder.graphs = <<>> /\ builder.provenances = <<>>
  BY DEF Init, NewBuilder
<1>5. DOMAIN builder.graphs = {} /\ DOMAIN builder.provenances = {}
  BY <1>4
<1>6. Truth(builder, {}, {}, 2)
  BY <1>5 DEF Truth, Space, Tells, PerObject, FreeLast, Begun, Untold
<1> QED
  BY <1>1, <1>3, <1>6 DEF TruthInv

(* The log does not begin to tell the truth again. *)
LEMMA OnlyMisled == ASSUME Next, misled PROVE misled'
<1>1. ASSUME NEW t \in Activations, NEW v \in Results, NEW size \in Sizes, Malloc(t, v, size) PROVE misled'
  <2>1. PICK at : misled' = (misled \/ \E f \in unlogged : ~Apart([at |-> at, size |-> size, id |-> nextId], f))
    BY <1>1, Zenon DEF Malloc
  <2> QED
    BY <2>1
<1>2. ASSUME NEW t \in Activations, NEW v \in Results, NEW w \in Locals, NEW size \in Sizes, Realloc(t, v, w, size)
      PROVE  misled'
  <2>1. PICK at : misled' = (misled \/ \E f \in unlogged : ~Apart([at |-> at, size |-> size, id |-> nextId], f))
    BY <1>2, Zenon DEF Realloc
  <2> QED
    BY <2>1
<1>3. ASSUME NEW t \in Activations, NEW v \in Results, NEW w \in Locals, NEW size \in Sizes, ReallocFails(t, v, w, size)
      PROVE  misled'
  BY <1>3 DEF ReallocFails
<1>4. ASSUME NEW t \in Activations, NEW v \in Results, SetNull(t, v) \/ LoadValue(t, v) PROVE misled'
  BY <1>4 DEF SetNull, LoadValue, Keeps
<1>5. ASSUME NEW t \in Activations, NEW v \in Results, NEW size \in Sizes, MallocFails(t, v, size) PROVE misled'
  BY <1>5 DEF MallocFails, Keeps
<1>6. ASSUME NEW t \in Activations, NEW w \in Locals, StoreValue(t, w) \/ Use(t, w) \/ Free(t, w) \/ FreeNull(t, w)
      PROVE  misled'
  BY <1>6 DEF StoreValue, Use, Free, FreeNull, Keeps
<1>7. ASSUME NEW t \in Activations, NEW v \in Locals, NEW w \in Locals, Copy(t, v, w) \/ Offset(t, v, w) \/ OffsetNull(t, v, w)
      PROVE  misled'
  BY <1>7 DEF Copy, Offset, OffsetNull, Keeps
<1>8. ASSUME NEW t \in Activations, Send(t) PROVE misled'
  BY <1>8 DEF Send
<1> QED
  BY <1>1, <1>2, <1>3, <1>4, <1>5, <1>6, <1>7, <1>8 DEF Next

LEMMA NextTruth == BaseInv /\ TruthInv /\ [Next]_vars => TruthInv'
<1> SUFFICES ASSUME BaseInv, TruthInv, [Next]_vars PROVE TruthInv'
  OBVIOUS
<1>1. CASE UNCHANGED vars
  <2>1. /\ live' = live /\ locals' = locals /\ cell' = cell /\ pending' = pending /\ unlogged' = unlogged
        /\ nextId' = nextId /\ builder' = builder /\ misled' = misled
    BY <1>1 DEF vars, program
  <2>2. There' = There /\ Tracked' = Tracked /\ (\A x : New(x)' <=> New(x)) /\ \A o, p : Swap(o, p)' <=> Swap(o, p)
    BY <2>1 DEF There, Tracked, New, Swap
  <2>3. Hooks => EventsTrue' /\ OneEach' /\ Unseen' /\ Owners'
    BY <2>1, <2>2 DEF Hooks, EventsTrue, OneEach, Unseen, Owners
  <2>4. Truth(builder, Tracked, There, nextId) => Truth(builder, Tracked, There, nextId)'
    BY <2>1, <2>2
  <2> QED
    BY <2>1, <2>3, <2>4 DEF TruthInv, Hooks
<1>2. CASE Next
  <2>1. misled => misled'
    BY <1>2, OnlyMisled
  <2> SUFFICES ASSUME ~misled', Told PROVE Told'
    BY <2>1 DEF TruthInv, Told
  <2>2. ASSUME NEW t \in Activations, NEW v \in Results, SetNull(t, v) PROVE Told'
    BY <2>2, SetNullTold
  <2>3. ASSUME NEW t \in Activations, NEW v \in Results, LoadValue(t, v) PROVE Told'
    BY <2>3, LoadValueTold
  <2>4. ASSUME NEW t \in Activations, NEW v \in Results, NEW size \in Sizes, Malloc(t, v, size) PROVE Told'
    BY <2>4, MallocTold
  <2>5. ASSUME NEW t \in Activations, NEW v \in Results, NEW size \in Sizes, MallocFails(t, v, size) PROVE Told'
    BY <2>5, MallocFailsTold
  <2>6. ASSUME NEW t \in Activations, NEW w \in Locals, StoreValue(t, w) PROVE Told'
    BY <2>6, StoreValueTold
  <2>7. ASSUME NEW t \in Activations, NEW w \in Locals, Use(t, w) PROVE Told'
    BY <2>7, UseTold
  <2>8. ASSUME NEW t \in Activations, NEW w \in Locals, Free(t, w) PROVE Told'
    BY <2>8, FreeTold
  <2>9. ASSUME NEW t \in Activations, NEW w \in Locals, FreeNull(t, w) PROVE Told'
    BY <2>9, FreeNullTold
  <2>10. ASSUME NEW t \in Activations, NEW v \in Locals, NEW w \in Locals, Copy(t, v, w) PROVE Told'
    BY <2>10, CopyTold
  <2>11. ASSUME NEW t \in Activations, NEW v \in Locals, NEW w \in Locals, Offset(t, v, w) PROVE Told'
    BY <2>11, OffsetTold
  <2>11a. ASSUME NEW t \in Activations, NEW v \in Locals, NEW w \in Locals, OffsetNull(t, v, w) PROVE Told'
    BY <2>11a, OffsetNullTold
  <2>12. ASSUME NEW t \in Activations, NEW v \in Results, NEW w \in Locals, NEW size \in Sizes,
                Realloc(t, v, w, size)
         PROVE  Told'
    BY <2>12, ReallocTold
  <2>13. ASSUME NEW t \in Activations, NEW v \in Results, NEW w \in Locals, NEW size \in Sizes
         PROVE  ~ReallocFails(t, v, w, size)
    BY DEF ReallocFails
  <2>14. ASSUME NEW t \in Activations, Send(t) PROVE Told'
    BY <2>14, SendTold
  <2> QED
    BY <1>2, <2>2, <2>3, <2>4, <2>5, <2>6, <2>7, <2>8, <2>9, <2>10, <2>11, <2>11a, <2>12, <2>13, <2>14 DEF Next
<1> QED
  BY <1>1, <1>2

LEMMA TruthInductive == Spec => [](BaseInv /\ TruthInv)
<1>1. Init => BaseInv /\ TruthInv
  BY InitBase, InitTruth
<1>2. (BaseInv /\ TruthInv) /\ [Next]_vars => (BaseInv /\ TruthInv)'
  BY NextBase, NextTruth
<1> QED
  BY <1>1, <1>2, PTL DEF Spec

(* However calls, hooks and events interleave: as long as the log is not    *)
(* misled, a graph with a heap object has no other, and the object no other *)
(* graph (add_node takes the graph that update_provenance left at the       *)
(* address).                                                                *)
THEOREM GraphsPerObject == Spec => []GraphPerObject
<1>1. BaseInv /\ TruthInv => GraphPerObject
  <2> SUFFICES ASSUME BaseInv, Told,
                      NEW g \in DOMAIN builder.graphs, NEW h \in DOMAIN builder.graphs,
                      NEW x \in Objects(g) \cap OfHeap
               PROVE  Objects(g) = {x} /\ (x \in Objects(h) => h = g)
    BY DEF TruthInv, Told, GraphPerObject
  <2>1. x >= 2
    BY DEF OfHeap, BaseInv, LiveOK
  <2>2. \A k : ObjectsOf(builder, k) = Objects(k)
    BY DEF ObjectsOf, Objects, Nodes
  <2> QED
    BY <2>1, <2>2 DEF Told, Truth, PerObject
<1> QED
  BY <1>1, TruthInductive, PTL

(* And nothing follows its free, nor is it still allocated then: the        *)
(* builder forgets an address with its free, before it can be used again.   *)
THEOREM FreesAreLast == Spec => []FreeIsTheEnd
<1>1. BaseInv /\ TruthInv => FreeIsTheEnd
  <2> SUFFICES ASSUME BaseInv, Told, NEW g \in DOMAIN builder.graphs, NEW n \in DOMAIN Nodes(g),
                      Nodes(g)[n].kind = "free", Nodes(g)[n].object \in OfHeap
               PROVE  n = Len(Nodes(g)) /\ \A o \in live : o.id \notin Objects(g)
    BY DEF TruthInv, Told, FreeIsTheEnd
  <2>1. Nodes(g)[n].object >= 2
    BY DEF OfHeap, BaseInv, LiveOK
  <2>2. ObjectsOf(builder, g) = Objects(g) /\ Nodes(g) = builder.graphs[g].nodes
    BY DEF ObjectsOf, Objects, Nodes
  <2> QED
    BY <2>1, <2>2 DEF Told, Truth, FreeLast, There
<1> QED
  BY <1>1, TruthInductive, PTL

-----------------------------------------------------------------------------
(* An allocated object of which nothing is left to log.                     *)
Logged(o) == o \in live /\ \A t \in Activations : \A i \in DOMAIN pending[t] : pending[t][i].object # o.id

(* Its address leads to its graph and to its size. *)
ObjectsKnown ==
    misled \/ \A o \in live : Logged(o) =>
        /\ o.at \in DOMAIN builder.provenances
        /\ builder.provenances[o.at].size = o.size
        /\ Objects(builder.provenances[o.at].graph) = {o.id}

(* No object is lost: as long as the log is not misled, an event about an   *)
(* allocated object finds the graph that began with its allocation          *)
(* (add_node, update_provenance).                                           *)
THEOREM ObjectsAreKnown == Spec => []ObjectsKnown
<1>1. BaseInv /\ TruthInv => ObjectsKnown
  <2> SUFFICES ASSUME BaseInv, Told, NEW o \in live, Logged(o)
               PROVE  HeapEntry(builder, o)
    BY DEF TruthInv, Told, ObjectsKnown, HeapEntry, ObjectsOf, Objects, Nodes
  <2>1. ~New(o.id)
    BY DEF New, Sends, Logged
  <2> QED
    BY <2>1 DEF Told, Truth, Tells, Tracked, There
<1> QED
  BY <1>1, TruthInductive, PTL
===============================================================================
