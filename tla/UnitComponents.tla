--------------------------- MODULE UnitComponents ----------------------------
(***************************************************************************)
(* The units that refer to each other in a circle (lib.rs,                 *)
(* strongly_connected_components): Tarjan's algorithm, a call of its       *)
(* recursive visit or a return from one being a step, and so each          *)
(* reference that a visit looks at.  Units are numbered from 1, and an     *)
(* index of 0 is one that has not been visited.                            *)
(***************************************************************************)
EXTENDS Integers, Sequences, FiniteSetsExt

VARIABLES
    edges,      \* the units each unit refers to
    index,      \* in which order they were visited
    low,        \* the lowest index that a visit found to be reached
    counter,    \* the next index
    held,       \* the stack: units visited that have no component yet
    calls,      \* the visits that have not returned: [node, left], the
                \* references left to be looked at
    component   \* the lowest unit of each unit's component

componentVars == <<edges, index, low, counter, held, calls, component>>

Nodes == DOMAIN edges

IsGraph(e) == e \in Seq(SUBSET Nat) /\ \A u \in DOMAIN e : e[u] \subseteq DOMAIN e

(* The search begins with these references. *)
NoneVisited(e) ==
    /\ edges = e
    /\ index = [u \in DOMAIN e |-> 0] /\ low = [u \in DOMAIN e |-> 0] /\ counter = 1
    /\ held = <<>> /\ calls = <<>>
    /\ component = [u \in DOMAIN e |-> u]

ComponentsInit == \E e \in Seq(SUBSET Nat) : IsGraph(e) /\ NoneVisited(e)

-----------------------------------------------------------------------------
Current == calls[Len(calls)]

Visits(u, callers) ==
    /\ index' = [index EXCEPT ![u] = counter]
    /\ low' = [low EXCEPT ![u] = counter]
    /\ counter' = counter + 1
    /\ held' = Append(held, u)
    /\ calls' = Append(callers, [node |-> u, left |-> edges[u]])
    /\ UNCHANGED <<edges, component>>

VisitRoot(u) ==
    /\ calls = <<>>
    /\ index[u] = 0 /\ \A v \in 1 .. u - 1 : index[v] # 0
    /\ Visits(u, <<>>)

(* References are looked at in ascending order. *)
LooksAt(v) ==
    /\ calls # <<>> /\ v \in Current.left
    /\ \A w \in Current.left : v <= w

Seen(v) == [calls EXCEPT ![Len(calls)].left = @ \ {v}]

IsHeld(v) == \E i \in DOMAIN held : held[i] = v

VisitNext(v) == LooksAt(v) /\ index[v] = 0 /\ Visits(v, Seen(v))

FindHeld(v) ==
    /\ LooksAt(v) /\ index[v] # 0 /\ IsHeld(v)
    /\ low' = [low EXCEPT ![Current.node] = Min({@, index[v]})]
    /\ calls' = Seen(v)
    /\ UNCHANGED <<edges, index, counter, held, component>>

FindClosed(v) ==
    /\ LooksAt(v) /\ index[v] # 0 /\ ~IsHeld(v)
    /\ calls' = Seen(v)
    /\ UNCHANGED <<edges, index, low, counter, held, component>>

PlaceOf(u) == CHOOSE i \in DOMAIN held : held[i] = u

(* A visit that reached nothing below its own unit pops a component.       *)
Members(u) == {held[i] : i \in PlaceOf(u) .. Len(held)}

Closes(u) ==
    IF low[u] = index[u]
    THEN /\ component' = [v \in Nodes |-> IF v \in Members(u) THEN Min(Members(u)) ELSE component[v]]
         /\ held' = SubSeq(held, 1, PlaceOf(u) - 1)
    ELSE UNCHANGED <<component, held>>

(* The visit returns, and its caller takes over what it reached.           *)
Return ==
    /\ calls # <<>> /\ Current.left = {}
    /\ Closes(Current.node)
    /\ calls' = SubSeq(calls, 1, Len(calls) - 1)
    /\ low' = IF Len(calls) = 1 THEN low
              ELSE [low EXCEPT ![calls[Len(calls) - 1].node] = Min({@, low[Current.node]})]
    /\ UNCHANGED <<edges, index, counter>>

ComponentsNext ==
    \/ \E u \in Nodes : VisitRoot(u) \/ VisitNext(u) \/ FindHeld(u) \/ FindClosed(u)
    \/ Return

ComponentsSpec == ComponentsInit /\ [][ComponentsNext]_componentVars

AllVisited == calls = <<>> /\ \A u \in Nodes : index[u] # 0

-----------------------------------------------------------------------------
ComponentsTypeOK ==
    /\ IsGraph(edges)
    /\ index \in [Nodes -> Nat] /\ low \in [Nodes -> Nat] /\ counter \in Nat \ {0}
    /\ held \in Seq(Nodes)
    /\ calls \in Seq([node : Nodes, left : SUBSET Nodes])
    /\ component \in [Nodes -> Nodes]

(* v is in every set of units that holds u and all that they refer to.     *)
Reaches(u, v) ==
    \A us \in SUBSET Nodes : u \in us /\ (\A w \in us : edges[w] \subseteq us) => v \in us

(* Two units have one component if and only if each reaches the other, and  *)
(* it is called after its lowest unit.                                      *)
ComponentsExact ==
    AllVisited =>
        \A u, v \in Nodes :
            /\ component[u] = component[v] <=> Reaches(u, v) /\ Reaches(v, u)
            /\ Reaches(u, v) /\ Reaches(v, u) => component[u] <= v
==============================================================================
