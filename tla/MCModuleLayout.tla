--------------------------- MODULE MCModuleLayout ----------------------------
(* Programs of three units.  In the first family each unit has a function     *)
(* that may call the others', and one unit has an object, static or not, that *)
(* is called like one of them: every shape of the unit graph, with main       *)
(* anywhere, and stems that clash with each other, with a cluster or with the *)
(* shared module.  In the second a ring of functions makes the units, or two  *)
(* of them, a cluster, and three objects reach each other, also through a     *)
(* function; the last of them names at most one.  The third has four objects  *)
(* that name at most one other.                                               *)
EXTENDS ModuleLayout

Runtime == 99

Function(u, refs) == [unit |-> u, name |-> u, form |-> "function", public |-> TRUE, refs |-> refs]

Object(u, name, form, public, refs) ==
    [unit |-> u, name |-> name, form |-> form, public |-> public, refs |-> refs]

Program(stems, main, decls) == [stems |-> stems, main |-> main, decls |-> decls]

Stems == {<<10, 20, 30>>, <<30, 20, 11>>, <<20, 11, 10>>, <<10, 20, 10>>, <<98, 99, 100>>}

Uses == {c \in [1 .. 3 -> SUBSET (1 .. 3)] : \A u \in 1 .. 3 : u \notin c[u]}

Extras == {e \in (1 .. 3) \X (1 .. 3) \X BOOLEAN : e[3] => e[1] # e[2]}

(* Stems name modules and the object is a declaration: one or the other     *)
(* varies.                                                                  *)
LinkPrograms ==
    {Program(names[1], main,
             [u \in 1 .. 3 |-> Function(u, uses[u])]
                 \o <<Object(names[2][1], names[2][2], "plain", names[2][3], {})>>) :
        names \in Stems \X {<<1, 2, FALSE>>} \cup {<<10, 20, 30>>} \X Extras,
        main \in 0 .. 3, uses \in Uses}

(* The functions are declarations 1 to 3; the first reads `through`.        *)
Ring(through) == <<Function(1, {2} \cup through), Function(2, {3}), Function(3, {1})>>
Pair(through) == <<Function(1, {2} \cup through), Function(2, {1}), Function(3, {})>>

OrderPrograms ==
    {Program(<<10, 20, 30>>, 0,
             (IF shape[3] = 3 THEN Ring(through) ELSE Pair(through))
                 \o [o \in 1 .. 3 |-> Object(shape[o], o + 3, "plain", TRUE, refs[o])]) :
        shape \in {<<1, 2, 3>>, <<1, 1, 2>>, <<2, 2, 1>>, <<1, 2, 1>>},
        through \in {{}, {4}, {5}},
        refs \in {r \in [1 .. 3 -> UNION {kSubset(n, {1, 4, 5, 6}) : n \in 0 .. 2}] :
                      Cardinality(r[3]) < 2}}

Forms == {<<"plain", "array", "record", "records">>, <<"array", "records", "plain", "record">>}

FormPrograms ==
    {Program(<<10, 20, 30>>, 0,
             Pair({}) \o [o \in 1 .. 4 |-> Object(shape[o], o + 3, forms[o], TRUE, refs[o])]) :
        shape \in {<<1, 1, 2, 2>>, <<1, 2, 1, 2>>, <<3, 3, 3, 3>>},
        forms \in Forms,
        refs \in [1 .. 4 -> {{}} \cup {{o} : o \in 4 .. 7}]}

SomePrograms == LinkPrograms \cup OrderPrograms \cup FormPrograms
=============================================================================
