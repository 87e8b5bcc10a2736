---------------------------- MODULE GlobalOrder -----------------------------
(***************************************************************************)
(* The order of a module's objects (translator/global_order.rs,            *)
(* order_value_declarations).  C lets an initializer take the address of   *)
(* an object that is defined later; daslang initializes in declaration     *)
(* order and refuses that.  So the objects are sorted, depth first, and    *)
(* those on a cycle, with all that reach one, are left to [init]           *)
(* functions, which run after every initializer.                           *)
(*                                                                         *)
(* The objects are numbered as they come.  Functions are not ordered and   *)
(* are left out: deps[i] is what the initializer of i reaches through      *)
(* them.  The order in which an initializer names two objects is left open.*)
(***************************************************************************)
EXTENDS Integers, Sequences

VARIABLES
    deps,       \* the objects each initializer reaches
    inits,      \* the objects that have an initializer
    storage,    \* "none", "kept" or "in place": see Initializer
    visit,      \* the walk's state of each object
    stack,      \* the walk's path: [node, left], left to be looked at
    order,      \* the objects the walk has left
    cyclic,     \* the objects to be assigned by an [init] function
    work,       \* those of them whose users are still to be added
    pass        \* "walk", "spread", "done"

orderVars == <<deps, inits, storage, visit, stack, order, cyclic, work, pass>>

Objects == DOMAIN deps

(* The pass begins with these objects. *)
Sorting(d, i, s) ==
    /\ deps = d /\ inits = i /\ storage = s
    /\ visit = [o \in DOMAIN d |-> "unvisited"]
    /\ stack = <<>> /\ order = <<>> /\ cyclic = {} /\ work = {}
    /\ pass = "walk"

(* Only an initializer reaches other objects. *)
IsInput(d, i, s) ==
    /\ DOMAIN d \subseteq Nat /\ d \in [DOMAIN d -> SUBSET DOMAIN d]
    /\ i \subseteq DOMAIN d /\ \A o \in DOMAIN d \ i : d[o] = {}
    /\ s \in [DOMAIN d -> {"none", "kept", "in place"}]

OrderInit ==
    \E objects \in SUBSET Nat : \E d \in [objects -> SUBSET objects], i \in SUBSET objects :
        \E s \in [objects -> {"none", "kept", "in place"}] : IsInput(d, i, s) /\ Sorting(d, i, s)

-----------------------------------------------------------------------------
Top == stack[Len(stack)]

Onto(path, o) == Append(path, [node |-> o, left |-> deps[o]])

(* A walk starts at the first object that has not been visited. *)
Enter(root) ==
    /\ pass = "walk" /\ stack = <<>>
    /\ visit[root] = "unvisited" /\ \A o \in Objects : o < root => visit[o] # "unvisited"
    /\ visit' = [visit EXCEPT ![root] = "on stack"]
    /\ stack' = Onto(<<>>, root)
    /\ UNCHANGED <<deps, inits, storage, order, cyclic, work, pass>>

Looked(next) == [stack EXCEPT ![Len(stack)].left = @ \ {next}]

Descend(next) ==
    /\ pass = "walk" /\ stack # <<>> /\ next \in Top.left
    /\ visit[next] = "unvisited"
    /\ visit' = [visit EXCEPT ![next] = "on stack"]
    /\ stack' = Onto(Looked(next), next)
    /\ UNCHANGED <<deps, inits, storage, order, cyclic, work, pass>>

(* A back edge: the object that closes the cycle. *)
Close(next) ==
    /\ pass = "walk" /\ stack # <<>> /\ next \in Top.left
    /\ visit[next] = "on stack"
    /\ cyclic' = cyclic \cup {Top.node}
    /\ stack' = Looked(next)
    /\ UNCHANGED <<deps, inits, storage, visit, order, work, pass>>

Skip(next) ==
    /\ pass = "walk" /\ stack # <<>> /\ next \in Top.left
    /\ visit[next] = "done"
    /\ stack' = Looked(next)
    /\ UNCHANGED <<deps, inits, storage, visit, order, cyclic, work, pass>>

Leave ==
    /\ pass = "walk" /\ stack # <<>> /\ Top.left = {}
    /\ visit' = [visit EXCEPT ![Top.node] = "done"]
    /\ order' = Append(order, Top.node)
    /\ stack' = SubSeq(stack, 1, Len(stack) - 1)
    /\ UNCHANGED <<deps, inits, storage, cyclic, work, pass>>

EndWalk ==
    /\ pass = "walk" /\ stack = <<>> /\ \A o \in Objects : visit[o] # "unvisited"
    /\ work' = cyclic
    /\ pass' = "spread"
    /\ UNCHANGED <<deps, inits, storage, visit, stack, order, cyclic>>

(* Mutant of Users: of the object itself only. *)
UsersNone(o) == {}

Users(o) == {u \in Objects : o \in deps[u]}

(* Mutant of Spread: users are followed and left out. *)
SpreadForgets(o) ==
    /\ pass = "spread" /\ o \in work
    /\ work' = (work \ {o}) \cup (Users(o) \ cyclic)
    /\ UNCHANGED <<deps, inits, storage, visit, stack, order, cyclic, pass>>

(* What reaches an object of a cycle goes with it. *)
Spread(o) ==
    /\ pass = "spread" /\ o \in work
    /\ cyclic' = cyclic \cup Users(o)
    /\ work' = (work \ {o}) \cup (Users(o) \ cyclic)
    /\ UNCHANGED <<deps, inits, storage, visit, stack, order, pass>>

EndSpread ==
    /\ pass = "spread" /\ work = {}
    /\ pass' = "done"
    /\ UNCHANGED <<deps, inits, storage, visit, stack, order, cyclic, work>>

OrderNext ==
    \/ \E o \in Objects : Enter(o) \/ Descend(o) \/ Close(o) \/ Skip(o) \/ Spread(o)
    \/ Leave \/ EndWalk \/ EndSpread

OrderSpec == OrderInit /\ [][OrderNext]_orderVars

-----------------------------------------------------------------------------
(* What is printed: the declarations in `order`, each with its own         *)
(* initializer, with C's zero (`default`), or with none.  Records that own *)
(* storage keep it, so the [init] function of one finds its zero there; an *)
(* array of them is always assigned by one, in place.                      *)
ReadInline == UNION {deps[o] : o \in Objects \ cyclic}

Initializer(o) ==
    IF o \in inits
    THEN IF o \in cyclic THEN IF storage[o] = "none" THEN "none" ELSE "default"
         ELSE IF storage[o] = "in place" THEN "default" ELSE "inline"
    ELSE IF o \in ReadInline THEN "default" ELSE "none"

-----------------------------------------------------------------------------
OrderTypeOK ==
    /\ IsInput(deps, inits, storage)
    /\ visit \in [Objects -> {"unvisited", "on stack", "done"}]
    /\ stack \in Seq([node : Objects, left : SUBSET Objects])
    /\ order \in Seq(Objects)
    /\ cyclic \subseteq Objects /\ work \subseteq cyclic
    /\ pass \in {"walk", "spread", "done"}

IsBefore(o, p) == \E i, j \in DOMAIN order : i < j /\ order[i] = o /\ order[j] = p

(* daslang takes the module: what an initializer reaches is declared       *)
(* before it, and has an initializer of its own, its zero if nothing else. *)
DependenciesFirst ==
    pass = "done" =>
        \A o \in Objects : Initializer(o) = "inline" =>
            \A d \in deps[o] : IsBefore(d, o) /\ Initializer(d) # "none"
=============================================================================
