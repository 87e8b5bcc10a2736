----------------------------- MODULE PdgBuilder -----------------------------
(***************************************************************************)
(* The builder of pointer derivation graphs (pdg/src/builder.rs): the log  *)
(* is read event by event, every event becomes a node, and the addresses   *)
(* of the objects seen so far decide which graph it goes to.  Here are the *)
(* events of heap objects and of pointers nobody allocated; those of       *)
(* locals whose address is taken are left out.                             *)
(*                                                                         *)
(* An event is [kind, ptr, to, size, source, dest]: `ptr` is the pointer   *)
(* of interest, `to` what an offset leads to, source and dest the locals   *)
(* of its MIR place.  A "use" is a load or a store through the pointer or  *)
(* its conversion to an integer, a "value" a pointer read from memory or   *)
(* made from an integer, a "store" a pointer written to memory; an         *)
(* "offset" may be a projection.  The fields `activation`, `object` and    *)
(* `input` of events and nodes are history, which the builder only copies. *)
(* A node's function, block and statement are left out: the builder copies *)
(* them from the MIR place and reads them nowhere.                         *)
(***************************************************************************)
EXTENDS Integers, Sequences, FiniteSetsExt

CONSTANT NoLocal    \* no MIR place

NoSource == 0
Unsized  == -1

(* The graphs, what is known of each address, where the last node is, and  *)
(* whether the assertion has failed that null and other pointers are not   *)
(* mixed.                                                                  *)
Nowhere    == [graph |-> 0, node |-> 0]
NewBuilder == [graphs |-> <<>>, provenances |-> <<>>, last |-> Nowhere, mixed |-> FALSE]

Provenance(size, graph, node) == [size |-> size, graph |-> graph, node |-> node]

(* The nearest object that starts at or below an address. *)
Below(provenances, ptr) == {start \in DOMAIN provenances : start <= ptr}

Covers(provenances, start, ptr) ==
    IF provenances[start].size = Unsized THEN ptr = start
    ELSE ptr <= start + provenances[start].size

(* Mutant of Found: an object of unknown size ends nowhere. *)
FoundEndless(provenances, ptr) ==
    {start \in Below(provenances, ptr) :
        /\ start = Max(Below(provenances, ptr))
        /\ provenances[start].size = Unsized \/ Covers(provenances, start, ptr)}

(* The object a pointer points into, or right behind: none or one. *)
Found(provenances, ptr) ==
    {start \in Below(provenances, ptr) :
        start = Max(Below(provenances, ptr)) /\ Covers(provenances, start, ptr)}

(* Mutant of Writers: the first node that wrote the local. *)
WritersFirst(graph, local) ==
    {i \in DOMAIN graph.nodes : graph.nodes[i].dest = local /\ \A j \in 1 .. i - 1 : graph.nodes[j].dest # local}

(* The last node of a graph that wrote a local: none or one. *)
Writers(graph, local) ==
    {i \in DOMAIN graph.nodes :
        /\ graph.nodes[i].dest = local
        /\ \A j \in i + 1 .. Len(graph.nodes) : graph.nodes[j].dest # local}

SourceIn(graph, created, local) ==
    IF local # NoLocal /\ Writers(graph, local) # {} THEN Max(Writers(graph, local)) ELSE created

-----------------------------------------------------------------------------
Put(provenances, ptr, mapping) ==
    [start \in DOMAIN provenances \cup {ptr} |-> IF start = ptr THEN mapping ELSE provenances[start]]

Without(provenances, ptr) == [start \in DOMAIN provenances \ {ptr} |-> provenances[start]]

(* Does a derived pointer become an object of its own?  A copy does if it  *)
(* is outside of the nearest object, an offset only if that has no size.   *)
IsNew(provenances, e, ptr) ==
    LET near == Below(provenances, ptr)
    IN  \/ near = {}
        \/ /\ near # {} /\ ~Covers(provenances, Max(near), ptr)
           /\ e.kind = "copy" \/ provenances[Max(near)].size = Unsized

(* Mutant of UpdateProvenance: a freed object is still known. *)
UpdateKeepsFreed(provenances, e, graph, node) ==
    CASE e.kind = "alloc" -> Put(provenances, e.ptr, Provenance(e.size, graph, node))
      [] e.kind \in {"copy", "offset"} /\ IsNew(provenances, e, e.to) ->
            Put(provenances, e.to, Provenance(Unsized, graph, node))
      [] OTHER -> provenances

UpdateProvenance(provenances, e, graph, node) ==
    CASE e.kind = "alloc" -> Put(provenances, e.ptr, Provenance(e.size, graph, node))
      [] e.kind = "free" /\ e.ptr # 0 -> Without(provenances, e.ptr)
      [] e.kind \in {"copy", "offset"} /\ IsNew(provenances, e, e.to) ->
            Put(provenances, e.to, Provenance(Unsized, graph, node))
      [] OTHER -> provenances

(* An event in the graph g, or in a new one. *)
Added(b, e, g, source) ==
    LET graph == IF g \in DOMAIN b.graphs THEN b.graphs[g] ELSE [isNull |-> e.ptr = 0, nodes |-> <<>>]
        node == [kind |-> e.kind, activation |-> e.activation, source |-> source, dest |-> e.dest,
                 object |-> e.object, input |-> e.input]
        grown == [graph EXCEPT !.nodes = Append(@, node)]
    IN  [ graphs |-> IF g \in DOMAIN b.graphs THEN [b.graphs EXCEPT ![g] = grown] ELSE Append(b.graphs, grown),
          last |-> [graph |-> g, node |-> Len(grown.nodes)],
          provenances |-> UpdateProvenance(b.provenances, e, g, Len(grown.nodes)),
          mixed |-> b.mixed \/ graph.isNull # (e.ptr = 0) ]

(* Mutant of AddNode: a new graph's number is one too small. *)
AddNodeToTheLast(b, e) ==
    LET found == Found(b.provenances, e.ptr)
        at == b.provenances[Max(found)]
    IN  IF e.kind = "alloc" \/ found = {} THEN Added(b, e, Len(b.graphs), NoSource)
        ELSE Added(b, e, at.graph, SourceIn(b.graphs[at.graph], at.node, e.source))

(* add_node: an allocation, and a pointer into no known object, open a     *)
(* graph.                                                                  *)
AddNode(b, e) ==
    LET found == Found(b.provenances, e.ptr)
        at == b.provenances[Max(found)]
    IN  IF e.kind = "alloc" \/ found = {} THEN Added(b, e, Len(b.graphs) + 1, NoSource)
        ELSE Added(b, e, at.graph, SourceIn(b.graphs[at.graph], at.node, e.source))
=============================================================================
