---------------------------- MODULE ModuleLayout ----------------------------
(***************************************************************************)
(* --module-layout source (lib.rs, transpile_source_layout): one daslang   *)
(* module a C unit.  The link pre-pass finds the owner of every external   *)
(* symbol; units that refer to each other are one module, a cluster, that  *)
(* includes a fragment of each.  Clusters are translated twice: what the   *)
(* first pass learns orders the includes, and lets every fragment follow   *)
(* its initializers through its mates'.  The clusters are found by a run   *)
(* of UnitComponents, and a translation is one of GlobalOrder.             *)
(*                                                                         *)
(* A stem or a C name is a number; a daslang name is a C name and how many *)
(* times the renamer changed it.  A program has at most one main.  What    *)
(* the shared module holds (types, the runtime, helpers) is left out.      *)
(***************************************************************************)
EXTENDS GlobalOrder, UnitComponents

CONSTANTS
    Programs,
    RuntimeName     \* the stem of the shared module

VARIABLES
    program,    \* stems: the units; main: the one that has it, or 0; decls:
                \* the functions and objects, and what each refers to
    again,      \* the second translation
    todo,       \* the units it has left
    out,        \* what the unit's last translation made of it
    read,       \* what the first pass found each declaration to read
    modules,    \* the files written
    phase       \* "link", "components", "refused", "translate", "sort", "written"

vars == <<program, again, todo, out, read, modules, phase, componentVars, orderVars>>

Units    == DOMAIN program.stems
Stem(u)  == program.stems[u]
Decls    == DOMAIN program.decls
Decl(d)  == program.decls[d]
Of(u)    == {d \in Decls : Decl(d).unit = u}
IsObject(d) == Decl(d).form # "function"

Declaration ==
    [unit : Nat, name : Nat, public : BOOLEAN, refs : SUBSET Nat,
     form : {"function", "plain", "array", "record", "records"}]

(* There is a unit.  One refers to its own declarations and to external    *)
(* symbols, and defines no symbol twice.                                   *)
IsProgram(p) ==
    /\ p.stems \in Seq(Nat) \ {<<>>} /\ p.main \in {0} \cup DOMAIN p.stems
    /\ p.decls \in Seq(Declaration)
    /\ \A d \in DOMAIN p.decls :
        /\ p.decls[d].unit \in DOMAIN p.stems
        /\ p.decls[d].refs \subseteq DOMAIN p.decls
        /\ \A e \in p.decls[d].refs : p.decls[e].public \/ p.decls[e].unit = p.decls[d].unit
        /\ \A e \in DOMAIN p.decls \ {d} :
               ~(p.decls[d].public /\ p.decls[e].public /\ p.decls[d].unit = p.decls[e].unit
                     /\ p.decls[d].name = p.decls[e].name)

ASSUME ProgramsAssumption == \A p \in Programs : IsProgram(p)
ASSUME RuntimeAssumption == RuntimeName \in Nat

Names == Nat \X Nat

-----------------------------------------------------------------------------
(* The link pre-pass, link_units.                                          *)
Foreign(u) == {e \in UNION {Decl(d).refs : d \in Of(u)} : Decl(e).unit # u}

Edges(u) == {Decl(e).unit : e \in Foreign(u)}

SameStem     == \E u, v \in Units : u # v /\ Stem(u) = Stem(v)
TakesRuntime == \E u \in Units : Stem(u) = RuntimeName
DefinedTwice == \E d, e \in Decls : /\ Decl(d).public /\ Decl(e).public /\ Decl(d).name = Decl(e).name
                                   /\ Decl(d).unit # Decl(e).unit

(* The units of u's module, and what it is called: a cluster after its     *)
(* first stem, or after the unit that has main.                            *)
Mates(u)     == {v \in Units : component[v] = component[u]}
Clustered(u) == \E v \in Mates(u) : v # u
HasMain(u)   == program.main \in Mates(u)

ModuleName(u) ==
    IF ~Clustered(u) THEN Stem(u)
    ELSE IF HasMain(u) THEN Stem(program.main)
    ELSE Min({Stem(v) : v \in Mates(u)}) + 1

NameTaken ==
    \E u, v \in Units : /\ Clustered(u) /\ ~HasMain(u)
                        /\ ModuleName(u) \in {Stem(v), RuntimeName}

EntryNeeded == \E u \in Units : \E v \in Edges(u) \ Mates(u) : HasMain(v)

Requires(u) == {ModuleName(v) : v \in Edges(u) \ Mates(u)}

-----------------------------------------------------------------------------
(* The translation of a unit.  Its external symbols, and those it uses,    *)
(* are called what C calls them.  Every other declaration takes the first  *)
(* name that no external symbol of its mates and nothing that an earlier   *)
(* mate declared has.                                                      *)
Publics(u) == {d \in Of(u) : Decl(d).public}
AsInC(ds)  == {<<Decl(d).name, 0>> : d \in ds}

Earlier(u) == {v \in Mates(u) : v < u}

DeclaredBy(us) == UNION {Range(out[v].called) : v \in us}

(* Mutant of Reserved: the external symbols of the mates are not reserved. *)
ReservesDeclared(u) == DeclaredBy(Earlier(u))

Reserved(u) ==
    DeclaredBy(Earlier(u)) \cup AsInC(UNION {Publics(v) : v \in Mates(u) \ {u}})

Fresh(name, taken) ==
    <<name, CHOOSE k \in 0 .. Cardinality(taken) :
                <<name, k>> \notin taken /\ \A j \in 0 .. k - 1 : <<name, j>> \in taken>>

Called(u) ==
    LET called[d \in Of(u)] ==
            IF Decl(d).public THEN <<Decl(d).name, 0>>
            ELSE Fresh(Decl(d).name, AsInC(Publics(u) \cup Foreign(u)) \cup Reserved(u)
                                         \cup {called[e] : e \in {e \in Of(u) : e < d}})
    IN  called

(* What an initializer or a body names, and so on through what follows[d]  *)
(* says of each name.                                                      *)
Reach(follows, from) ==
    LET reached[n \in Nat] ==
            IF n = 0 THEN from
            ELSE LET before == reached[n - 1] IN before \cup UNION {follows[d] : d \in before}
    IN  reached[Cardinality(Decls)]

(* Mutant of Follows: a fragment follows its own functions only. *)
FollowsOwn(u, second) ==
    [d \in Decls |-> IF Decl(d).unit = u /\ ~IsObject(d) THEN Decl(d).refs ELSE {}]

Follows(u, second) ==
    [d \in Decls |->
        IF Decl(d).unit = u THEN IF IsObject(d) THEN {} ELSE Decl(d).refs
        ELSE IF second /\ Decl(d).unit \in Mates(u) THEN read[d]
        ELSE {}]

Owned(u) == {d \in Of(u) : IsObject(d)}

(* Records that own storage are never left without an initializer.         *)
OwnsStorage(d) == Decl(d).form \in {"record", "records"}
Initialized(d) == Decl(d).refs # {} \/ OwnsStorage(d)

Storage(d) == IF ~OwnsStorage(d) THEN "none"
              ELSE IF Decl(d).form = "record" THEN "kept" ELSE "in place"

Dependencies(u, second) == [o \in Owned(u) |-> Reach(Follows(u, second), Decl(o).refs) \cap Owned(u)]

(* NoneVisited and Sorting, for a step. *)
Searches(e) ==
    /\ edges' = e
    /\ index' = [u \in DOMAIN e |-> 0] /\ low' = [u \in DOMAIN e |-> 0] /\ counter' = 1
    /\ held' = <<>> /\ calls' = <<>>
    /\ component' = [u \in DOMAIN e |-> u]

Sorts(d, i, s) ==
    /\ deps' = d /\ inits' = i /\ storage' = s
    /\ visit' = [o \in DOMAIN d |-> "unvisited"]
    /\ stack' = <<>> /\ order' = <<>> /\ cyclic' = {} /\ work' = {}
    /\ pass' = "walk"

(* What the sorted unit prints.  A fragment spells the zero of its other    *)
(* objects too, but for arrays.                                            *)
Printed(u, o) ==
    IF Initializer(o) = "none" /\ Clustered(u) /\ Decl(o).form # "array" THEN "default" ELSE Initializer(o)

Output(u) == [called |-> Called(u), objects |-> order, init |-> [o \in Owned(u) |-> Printed(u, o)]]

NoOutput == [called |-> <<>>, objects |-> <<>>, init |-> <<>>]

ReadBy(output, d) == IF IsObject(d) /\ output.init[d] # "inline" THEN {} ELSE Decl(d).refs

-----------------------------------------------------------------------------
(* include_order: the fragments whose objects the initializers of u reach. *)
After(u) ==
    LET mates == Mates(u)
        own   == UNION {read[d] : d \in {e \in Of(u) : IsObject(e)}}
        follows == [d \in Decls |-> IF IsObject(d) \/ Decl(d).unit \notin mates THEN {} ELSE read[d]]
    IN  ({Decl(d).unit : d \in {e \in Reach(follows, own) : IsObject(e)}} \cap mates) \ {u}

Place(left, placed) ==
    LET ready == {u \in left : After(u) \subseteq placed}
    IN  Min(IF ready = {} THEN left ELSE ready)

Included(us) ==
    LET included[k \in 1 .. Cardinality(us)] ==
            LET placed == {included[j] : j \in 1 .. k - 1} IN Place(us \ placed, placed)
    IN  included

File(outs, us) ==
    [name     |-> ModuleName(Min(us)),
     main     |-> program.main \in us,
     requires |-> UNION {Requires(u) : u \in us},
     called   |-> [d \in {e \in Decls : Decl(e).unit \in us} |-> outs[Decl(d).unit].called[d]],
     includes |-> [k \in 1 .. Cardinality(us) |-> outs[Included(us)[k]].objects],
     init     |-> [d \in {e \in Decls : Decl(e).unit \in us /\ IsObject(e)} |->
                      outs[Decl(d).unit].init[d]]]

-----------------------------------------------------------------------------
Init ==
    /\ program \in Programs
    /\ NoneVisited(<<>>)
    /\ again = FALSE /\ todo = {} /\ out = <<>> /\ read = <<>> /\ modules = {}
    /\ phase = "link"
    /\ deps = <<>> /\ inits = {} /\ storage = <<>> /\ visit = <<>> /\ stack = <<>>
    /\ order = <<>> /\ cyclic = {} /\ work = {} /\ pass = "done"

Link ==
    /\ phase = "link"
    /\ IF SameStem \/ TakesRuntime \/ DefinedTwice
       THEN phase' = "refused" /\ UNCHANGED componentVars
       ELSE phase' = "components" /\ Searches([u \in Units |-> Edges(u)])
    /\ UNCHANGED <<program, again, todo, out, read, modules, orderVars>>

Search ==
    /\ phase = "components" /\ ComponentsNext
    /\ UNCHANGED <<program, again, todo, out, read, modules, phase, orderVars>>

(* The clusters are translated first, then every unit. *)
Cluster ==
    /\ phase = "components" /\ AllVisited
    /\ phase' = IF NameTaken \/ EntryNeeded THEN "refused" ELSE "translate"
    /\ again' = \A u \in Units : ~Clustered(u)
    /\ todo' = IF again' THEN Units ELSE {u \in Units : Clustered(u)}
    /\ out' = [u \in Units |-> NoOutput]
    /\ read' = [d \in Decls |-> {}]
    /\ UNCHANGED <<program, modules, componentVars, orderVars>>

(* The first pass takes a cluster after the other. *)
Precedes(u, v) ==
    \/ ~again /\ component[u] < component[v]
    \/ (again \/ component[u] = component[v]) /\ u < v

Job == CHOOSE u \in todo : \A v \in todo \ {u} : Precedes(u, v)

(* translate_unit: its objects are sorted, and the unit is printed.        *)
Translate ==
    /\ phase = "translate"
    /\ Sorts(Dependencies(Job, again), {o \in Owned(Job) : Initialized(o)},
             [o \in Owned(Job) |-> Storage(o)])
    /\ phase' = "sort"
    /\ UNCHANGED <<program, again, todo, out, read, modules, componentVars>>

Sort ==
    /\ phase = "sort" /\ OrderNext
    /\ UNCHANGED <<program, again, todo, out, read, modules, phase, componentVars>>

(* The last unit of the second pass completes the modules. *)
Emit ==
    /\ phase = "sort" /\ pass = "done"
    /\ out' = [out EXCEPT ![Job] = Output(Job)]
    /\ read' = IF again THEN read
               ELSE [d \in Decls |-> IF Decl(d).unit = Job THEN ReadBy(out'[Job], d) ELSE read[d]]
    /\ again' = (again \/ todo = {Job})
    /\ todo' = IF ~again /\ todo = {Job} THEN Units ELSE todo \ {Job}
    /\ phase' = IF todo' = {} THEN "written" ELSE "translate"
    /\ modules' = IF todo' = {} THEN {File(out', Mates(u)) : u \in Units} ELSE modules
    /\ UNCHANGED <<program, componentVars, orderVars>>

Next == Link \/ Search \/ Cluster \/ Translate \/ Sort \/ Emit

Spec == Init /\ [][Next]_vars

-----------------------------------------------------------------------------
TypeOK ==
    /\ IsProgram(program)
    /\ ComponentsTypeOK /\ OrderTypeOK
    /\ again \in BOOLEAN /\ todo \subseteq Units
    /\ \A u \in DOMAIN out : Range(out[u].called) \subseteq Names
                          /\ Range(out[u].objects) = DOMAIN out[u].init
    /\ \A d \in DOMAIN read : read[d] \subseteq Decl(d).refs
    /\ phase \in {"link", "components", "refused", "translate", "sort", "written"}

(* The modules are the components of the units; no two have one name, and   *)
(* no module requires the one that has main.                                *)
ModulesLinked ==
    /\ \A u, v \in Units : u # v =>
           (component[u] = component[v] <=> Reaches(u, v) /\ Reaches(v, u))
    /\ \A m, n \in modules : m # n => m.name # n.name
    /\ \A m \in modules :
           /\ m.name # RuntimeName
           /\ m.requires \subseteq {n.name : n \in {k \in modules : ~k.main}} \ {m.name}

(* daslang looks for a name in the module first, then in what it requires.  *)
Home(d) == CHOOSE m \in modules : d \in DOMAIN m.called
Name(d) == Home(d).called[d]

Required(m) == UNION {DOMAIN n.called : n \in {k \in modules : k.name \in m.requires}}

Visible(m, name) ==
    LET own == {e \in DOMAIN m.called : Name(e) = name}
    IN  IF own # {} THEN own ELSE {e \in Required(m) : Decl(e).public /\ Name(e) = name}

Resolves(d, e) == Visible(Home(d), Name(e)) = {e}

(* A static of another fragment has the name of what d refers to.           *)
TakenByMate(d, e) ==
    /\ Home(e) # Home(d)
    /\ \E f \in DOMAIN Home(d).called : Decl(f).unit # Decl(d).unit /\ Name(f) = Name(e)

(* Units that refer to each other in a circle, and only those, share a      *)
(* module, whose fragments declare no name twice; modules require each      *)
(* other in no circle and never the one with main; and what C binds a use   *)
(* to is what daslang finds under the name, in the module or in what it     *)
(* requires, unless a static of another fragment has that name.             *)
Linked ==
    phase = "written" =>
        /\ ModulesLinked
        /\ \A m \in modules : IsInjective(m.called)
        /\ \A d \in Decls : \A e \in Decl(d).refs : Resolves(d, e) \/ TakenByMate(d, e)

(* "Each unit then requires the modules owning the symbols it uses, so a    *)
(* call or an extern object [...] resolves there, spelled by its C name"    *)
(* (docs/translator-overview.md:71-73).                                     *)
ResolvesThere ==
    phase = "written" => \A d \in Decls : \A e \in Decl(d).refs : Resolves(d, e)

(* daslang initializes the objects of a module in the order of their        *)
(* declarations.  An initializer may read what is declared before it and    *)
(* has an initializer of its own; daslang follows functions to what they    *)
(* read.                                                                    *)
ReadAtInit(o) ==
    Reach([d \in Decls |-> IF IsObject(d) THEN {} ELSE Decl(d).refs], Decl(o).refs)
        \cap DOMAIN Home(o).init

ComesBefore(m, e, o) ==
    \E i, j \in DOMAIN m.includes : \E k \in DOMAIN m.includes[i], l \in DOMAIN m.includes[j] :
        /\ m.includes[i][k] = e /\ m.includes[j][l] = o
        /\ i < j \/ (i = j /\ k < l)

(* A fragment's zero is not spelled for an array.                           *)
BareArray(o, e) == Decl(e).form = "array" /\ Decl(e).unit # Decl(o).unit /\ Home(e).init[e] = "none"

(* Fragments that reach each other's objects have no order.                 *)
Circle(us) == \E vs \in SUBSET us : vs # {} /\ \A u \in vs : After(u) \cap vs # {}

Unordered(o, e) == Decl(e).unit # Decl(o).unit /\ Circle(Mates(Decl(o).unit))

Inline(m) == {o \in DOMAIN m.init : m.init[o] = "inline"}

(* daslang loads every module of the program, whatever its objects reach    *)
(* through which functions of which fragments: no initializer reads what    *)
(* has none or comes later, and none runs in a circle, through its own      *)
(* fragment or another.  Except that an array of another fragment may have  *)
(* none, and that fragments that reach each other's objects stand in some   *)
(* order (lib.rs:987-989).                                                  *)
Loads ==
    phase = "written" =>
        \A m \in modules :
            /\ \A o \in Inline(m) : \A e \in ReadAtInit(o) :
                   /\ m.init[e] # "none" \/ BareArray(o, e)
                   /\ ComesBefore(m, e, o) \/ Unordered(o, e)
            /\ \A os \in SUBSET Inline(m) : os # {} => \E o \in os : ReadAtInit(o) \cap os = {}
=============================================================================
