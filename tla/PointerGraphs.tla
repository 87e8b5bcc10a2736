---------------------------- MODULE PointerGraphs ----------------------------
(***************************************************************************)
(* An instrumented program, its allocator, and the graphs that are built   *)
(* from its log.  The program is legal: it uses and frees only what is     *)
(* allocated, and its parts agree on who does.  A hook logs its events     *)
(* after the real call has returned (analysis/runtime/src/handlers.rs,     *)
(* dynamic_instrumentation/src/instrument.rs), so others may run between   *)
(* the call and its events.  The log is in the order the events were sent  *)
(* (EventRuntime), so the builder is here a step behind it.                *)
(*                                                                         *)
(* What runs are activations, each with locals of its own, numbered alike: *)
(* of one function or of several, in threads of their own or in one, where *)
(* a caller waits for its callee and a function may call itself.  Any of   *)
(* them may take the next step.  A pointer is [ptr, object]: the object is *)
(* history.                                                                *)
(***************************************************************************)
EXTENDS PdgBuilder

CONSTANTS
    Activations,        \* of functions, by any threads
    Locals,             \* the numbers of the pointer locals of each
    Results,            \* bound: those of them that calls and loads set
    Sizes,              \* what they allocate
    Starts,             \* where the heap's blocks may start
    StaticAt,           \* where an object lies that nobody allocates
    NullOffsets,        \* by how much null is offset to where nothing lies
    MaxEvents           \* bound: the length of the log

VARIABLES
    locals,     \* the pointer in each local of each activation
    cell,       \* a pointer in memory that all share
    live,       \* the allocated objects [at, size, id]
    pending,    \* what each one's hook has still to log
    unlogged,   \* history: the objects freed whose event is still pending
    written,    \* history: the node that wrote each local, [graph, node]
    nextId,     \* history: the identity of the next object
    misled,     \* history: the log no longer tells what happened
    failed,     \* history: the size of the last failed request, 0 for none
    strayed,    \* history: null was offset to within that size
    logged,     \* the length of the log
    builder

program == <<locals, cell, live>>
vars == <<program, pending, unlogged, written, nextId, misled, failed, strayed, logged, builder>>

(* A null pointer, one to the static object, one that null was offset to,  *)
(* and no pointer.                                                         *)
Null   == [ptr |-> 0, object |-> 0]
Static == [ptr |-> StaticAt, object |-> 1]
Stray(k) == [ptr |-> k, object |-> 0]
Dead   == [ptr |-> -1, object |-> -1]

(* A request that fails must be shorter than the lowest address of an      *)
(* object, and a number that null is offset by lies below that address.    *)
ASSUME AddressAssumption ==
    /\ Starts \subseteq Nat /\ StaticAt \in Nat \ {0} /\ Sizes \subseteq Nat \ {0}
    /\ \A a \in Starts : StaticAt + 1 < a
    /\ \A n \in Sizes : n < StaticAt
    /\ NullOffsets \subseteq 1 .. StaticAt - 1

Init ==
    /\ locals = [t \in Activations |-> [v \in Locals |-> Dead]]
    /\ cell = Static
    /\ live = {}
    /\ pending = [t \in Activations |-> <<>>]
    /\ unlogged = {} /\ nextId = 2 /\ misled = FALSE
    /\ failed = 0 /\ strayed = FALSE
    /\ written = [t \in Activations |-> [v \in Locals |-> Nowhere]]
    /\ logged = 0
    /\ builder = NewBuilder

-----------------------------------------------------------------------------
Event(t, kind, p, source, dest) ==
    [ kind |-> kind, ptr |-> p.ptr, to |-> p.ptr, size |-> 0, source |-> source, dest |-> dest,
      activation |-> t, object |-> p.object,
      input |-> IF source = NoLocal THEN Nowhere ELSE written[t][source] ]

Log(t, e) ==
    /\ logged' = logged + 1
    /\ builder' = AddNode(builder, e)
    /\ written' = IF e.dest = NoLocal THEN written
                  ELSE [written EXCEPT ![t][e.dest] = builder'.last]
    /\ failed' = IF e.kind = "alloc" /\ e.ptr = 0 THEN e.size ELSE failed
    /\ strayed' = (strayed \/ e.ptr \in 1 .. failed)

(* Who is not in a hook goes on if the log has room for what it and the    *)
(* hooks will send.                                                        *)
Runs(t, events) ==
    /\ pending[t] = <<>>
    /\ logged + MapThenSumSet(LAMBDA u : Len(pending[u]), Activations) + events <= MaxEvents

Keeps == UNCHANGED <<live, pending, unlogged, nextId, misled>>

Sets(t, v, p) == locals' = [locals EXCEPT ![t][v] = p] /\ UNCHANGED cell

(* _v = _w *)
Copy(t, v, w) ==
    /\ Runs(t, 1) /\ locals[t][w] # Dead /\ v # w
    /\ Sets(t, v, locals[t][w])
    /\ Log(t, Event(t, "copy", locals[t][w], w, v))
    /\ Keeps

(* _v = null_mut(): its source is the local 0 of the callee, which no event writes. *)
SetNull(t, v) ==
    /\ Runs(t, 1)
    /\ Sets(t, v, Null)
    /\ Log(t, Event(t, "copy", Null, NoLocal, v))
    /\ Keeps

(* _v = _w.offset(1), within an object or to its end. *)
EndOf(p) ==
    IF p.object = 1 THEN StaticAt + 1
    ELSE LET o == CHOOSE o \in live : o.id = p.object IN o.at + o.size

Offset(t, v, w) ==
    LET p == locals[t][w]
        q == [p EXCEPT !.ptr = @ + 1]
    IN  /\ Runs(t, 1) /\ p.object > 0 /\ p.ptr < EndOf(p)
        /\ Sets(t, v, q)
        /\ Log(t, [Event(t, "offset", p, w, v) EXCEPT !.to = q.ptr])
        /\ Keeps

(* The hook of a null pointer logs a copy of the number it is offset by:   *)
(* the address of a pointer that the activation has, as in `a += b` for    *)
(* `a = b`, or one where nothing lies.                                     *)
OffsetNull(t, v, w) ==
    /\ Runs(t, 1) /\ locals[t][w] = Null
    /\ \E q \in {locals[t][x] : x \in Locals} \cup {Stray(k) : k \in NullOffsets} :
          /\ q # Dead
          /\ Sets(t, v, q)
          /\ Log(t, Event(t, "copy", q, w, v))
    /\ Keeps

(* A load or a store through _w. *)
Use(t, w) ==
    LET p == locals[t][w]
    IN  /\ Runs(t, 1) /\ p.object > 0 /\ p.ptr < EndOf(p)
        /\ Log(t, Event(t, "use", p, w, NoLocal))
        /\ Keeps /\ UNCHANGED <<locals, cell>>

(* The shared cell is written and read. *)
StoreValue(t, w) ==
    /\ Runs(t, 1) /\ locals[t][w] # Dead
    /\ cell' = locals[t][w]
    /\ Log(t, Event(t, "store", locals[t][w], w, NoLocal))
    /\ Keeps /\ UNCHANGED locals

LoadValue(t, v) ==
    /\ Runs(t, 1) /\ cell # Dead
    /\ Sets(t, v, cell)
    /\ Log(t, Event(t, "value", cell, NoLocal, v))
    /\ Keeps

-----------------------------------------------------------------------------
(* The allocator: a header lies between any two objects. *)
Apart(o, p) == o.at + o.size < p.at \/ p.at + p.size < o.at

Fits(at, size, others) == \A o \in others : Apart([at |-> at, size |-> size], o)

(* Nothing is left that points into an object. *)
Forget(id) ==
    /\ locals' = [t \in Activations |-> [v \in Locals |-> IF locals[t][v].object = id THEN Dead ELSE locals[t][v]]]
    /\ cell' = IF cell.object = id THEN Dead ELSE cell

AllocOf(t, v, p, size) == [Event(t, "alloc", p, NoLocal, v) EXCEPT !.size = size]

Quiet == UNCHANGED <<written, failed, strayed, logged, builder>>

(* malloc and calloc: the call, which may fail.  The log is misled when    *)
(* memory is handed out whose last owner's event is still to come.         *)
Malloc(t, v, size) ==
    /\ Runs(t, 1)
    /\ \E at \in Starts :
          LET o == [at |-> at, size |-> size, id |-> nextId]
              p == [ptr |-> at, object |-> nextId]
          IN  /\ Fits(at, size, live)
              /\ Sets(t, v, p)
              /\ live' = live \cup {o}
              /\ pending' = [pending EXCEPT ![t] = <<AllocOf(t, v, p, size)>>]
              /\ misled' = (misled \/ \E f \in unlogged : ~Apart(o, f))
    /\ nextId' = nextId + 1
    /\ Quiet /\ UNCHANGED unlogged

(* A hook whose call changed nothing for the others logs at once.          *)
MallocFails(t, v, size) ==
    /\ Runs(t, 1)
    /\ Sets(t, v, Null)
    /\ Log(t, AllocOf(t, v, Null, size))
    /\ Keeps

ObjectAt(p) == {o \in live : o.id = p.object /\ o.at = p.ptr}

(* free *)
Free(t, w) ==
    /\ Runs(t, 1)
    /\ \E o \in ObjectAt(locals[t][w]) :
          /\ live' = live \ {o} /\ unlogged' = unlogged \cup {o}
          /\ Forget(o.id)
    /\ pending' = [pending EXCEPT ![t] = <<Event(t, "free", locals[t][w], w, NoLocal)>>]
    /\ Quiet /\ UNCHANGED <<nextId, misled>>

FreeNull(t, w) ==
    /\ Runs(t, 1) /\ locals[t][w] = Null
    /\ Log(t, Event(t, "free", Null, w, NoLocal))
    /\ Keeps /\ UNCHANGED <<locals, cell>>

(* Mutant of ReallocLogs: the new object is logged before the old one.     *)
ReallocLogsNewFirst(free, alloc) == <<alloc, free>>

ReallocLogs(free, alloc) == <<free, alloc>>

(* realloc of _w to _v: in place or elsewhere, a new object for C.         *)
Realloc(t, v, w, size) ==
    /\ Runs(t, 2)
    /\ \E o \in ObjectAt(locals[t][w]), at \in Starts :
          LET n == [at |-> at, size |-> size, id |-> nextId]
              p == [ptr |-> at, object |-> nextId]
              forgotten == [u \in Activations |-> [x \in Locals |->
                              IF locals[u][x].object = o.id THEN Dead ELSE locals[u][x]]]
          IN  /\ Fits(at, size, live \ {o})
              /\ at = o.at \/ Apart(n, o)
              /\ live' = (live \ {o}) \cup {n} /\ unlogged' = unlogged \cup {o}
              /\ locals' = [forgotten EXCEPT ![t][v] = p]
              /\ cell' = IF cell.object = o.id THEN Dead ELSE cell
              /\ pending' = [pending EXCEPT ![t] =
                    ReallocLogs(Event(t, "free", locals[t][w], w, NoLocal), AllocOf(t, v, p, size))]
              /\ misled' = (misled \/ \E f \in unlogged : ~Apart(n, f))
    /\ nextId' = nextId + 1
    /\ Quiet

(* It fails: the old object is as it was, but its end is logged.           *)
ReallocFails(t, v, w, size) ==
    /\ Runs(t, 2) /\ ObjectAt(locals[t][w]) # {}
    /\ Sets(t, v, Null)
    /\ pending' = [pending EXCEPT ![t] =
          ReallocLogs(Event(t, "free", locals[t][w], w, NoLocal), AllocOf(t, v, Null, size))]
    /\ misled' = TRUE
    /\ Quiet /\ UNCHANGED <<live, unlogged, nextId>>

(* A hook sends its next event. *)
Send(t) ==
    /\ pending[t] # <<>>
    /\ Log(t, Head(pending[t]))
    /\ pending' = [pending EXCEPT ![t] = Tail(@)]
    /\ unlogged' = {o \in unlogged : ~(Head(pending[t]).kind = "free" /\ Head(pending[t]).object = o.id)}
    /\ UNCHANGED <<program, nextId, misled>>

Next ==
    \E t \in Activations :
        \/ \E v \in Results : SetNull(t, v) \/ LoadValue(t, v)
        \/ \E v \in Results, size \in Sizes : Malloc(t, v, size) \/ MallocFails(t, v, size)
        \/ \E w \in Locals : StoreValue(t, w) \/ Use(t, w) \/ Free(t, w) \/ FreeNull(t, w)
        \/ \E v, w \in Locals : Copy(t, v, w) \/ Offset(t, v, w) \/ OffsetNull(t, v, w)
        \/ \E v \in Results, w \in Locals, size \in Sizes : Realloc(t, v, w, size) \/ ReallocFails(t, v, w, size)
        \/ Send(t)

Spec == Init /\ [][Next]_vars

-----------------------------------------------------------------------------
Nodes(g) == builder.graphs[g].nodes
Objects(g) == {Nodes(g)[n].object : n \in DOMAIN Nodes(g)}
OfHeap == 2 .. nextId - 1

TypeOK ==
    /\ \A t \in Activations, v \in Locals : locals[t][v].object < nextId
    /\ \A o \in live : o.id \in 2 .. nextId - 1
    /\ \A o, p \in live : o = p \/ Apart(o, p)
    /\ \A at \in DOMAIN builder.provenances : builder.provenances[at].graph \in DOMAIN builder.graphs
    /\ \A g \in DOMAIN builder.graphs : \A n \in DOMAIN Nodes(g) : Nodes(g)[n].source < n

(* A graph tracks one object through its lifetime: the nodes about a heap  *)
(* object are in one graph, which has no node about another.  (graph.rs,   *)
(* Graph and its nodes.)  It is so as long as the log tells the truth.     *)
GraphPerObject ==
    misled \/ \A g, h \in DOMAIN builder.graphs :
        \A x \in Objects(g) \cap OfHeap : Objects(g) = {x} /\ (x \in Objects(h) => h = g)

(* Nothing follows the end of an object, and no object ends that is still  *)
(* there.  (graph.rs, NodeKind::Free)                                      *)
FreeIsTheEnd ==
    misled \/ \A g \in DOMAIN builder.graphs : \A n \in DOMAIN Nodes(g) :
        Nodes(g)[n].kind = "free" /\ Nodes(g)[n].object \in OfHeap =>
            n = Len(Nodes(g)) /\ \A o \in live : o.id \notin Objects(g)

(* add_node's assertion: no graph mixes null and other pointers, misled or *)
(* not, but where null was offset to within the size of a request that     *)
(* failed: `failed` and `strayed` are of the log alone.                    *)
NullsApart == builder.mixed => strayed

(* The source of a node is the node that produced its input: the last one  *)
(* that wrote the local it reads, unless another activation, of this       *)
(* function or another, has written its own local of that number since.    *)
(* (graph.rs, Node::source)                                                *)
Sourced(nodes, n) ==
    LET input == nodes[n].input.node
    IN  \/ nodes[n].source = input
        \/ \E k \in input + 1 .. n - 1 :
              nodes[k].dest = nodes[input].dest /\ nodes[k].activation # nodes[n].activation

SourceIsInput ==
    \A g \in DOMAIN builder.graphs : \A n \in DOMAIN Nodes(g) :
        Nodes(g)[n].input.graph = g => Sourced(Nodes(g), n)
=============================================================================
