-------------------------- MODULE FunctionLowering --------------------------
(***************************************************************************)
(* A C function through the translator (convert_function_body): the        *)
(* structured back end, or the control-flow graph and the flat back end    *)
(* when the structured one leaves it alone.  daslang loads the statements  *)
(* and runs them; what it does is external, as in FlatLowering, and        *)
(* modelled from the comments of cfg/labels.rs and cfg/structured.rs.      *)
(***************************************************************************)
EXTENDS Structured, GraphBuild

CONSTANTS
    Names, Outcomes,    \* see CStatements
    Functions           \* sets of C functions

VARIABLES
    function, did, data,    \* see CStatements
    phase,      \* run; refused by the translator, failed in daslang
    out,        \* the statements, as daslang has loaded them
    pc,         \* the next statement: <<i>> of the function, <<..., k, i>> of
                \* the k-th list of a statement; i is behind the list at its end
    asked       \* the condition there has made its call

vars == <<function, did, data, phase, out, pc, asked>>

C == INSTANCE CStatements

-----------------------------------------------------------------------------
(* The flat statements speak of blocks, the tree of C statements. *)
WithPaths(g, s) ==
    [i \in DOMAIN s |-> IF s[i].op \in {"call", "if"} THEN [s[i] EXCEPT !.n = g[s[i].n].at] ELSE s[i]]

Flat(g) == IF g = <<>> THEN <<>> ELSE WithPaths(g, Rendered(g, {}))

(* convert_function_body *)
Translated(f) == IF StaysFlat(f.body, 0, FALSE) THEN Flat(Graph(f)) ELSE Structure(f)

(* What daslang makes of the statements it loads: nothing is left between  *)
(* a return and the next label, a void function loses the return that      *)
(* closes it, and both again.                                              *)
RECURSIVE Folded(_), Nest(_)
Folded(s) ==
    LET dead == {i \in 2 .. Len(s) : IsReturn(s[i - 1]) /\ ~IsLabel(s[i])}
    IN  IF dead # {} THEN Folded(RemoveAt(s, Min(dead)))
        ELSE IF s # <<>> /\ Last(s).op = "return" THEN Folded(Front(s))
        ELSE s

(* What follows an `if` that ends in a return, a break or a continue goes  *)
(* into its else.                                                          *)
Exits(s) == s.op = "when" /\ ExitsEarly(s)

Nest(s) ==
    LET tree == [i \in DOMAIN s |->
                    CASE EarlyExit(s[i]) -> When(Condition(s[i].n, {s[i].tree.cases[1].key}, FALSE), <<EndS("return")>>, <<>>)
                      [] Nested(s[i]) -> [s[i] EXCEPT !.then = Nest(@), !.else = Nest(@)]
                      [] OTHER -> s[i]]
        exits == {i \in 1 .. Len(s) - 1 : Exits(tree[i])}
        k == Min(exits)
    IN  IF exits = {} THEN tree
        ELSE Append(SubSeq(tree, 1, k - 1), [tree[k] EXCEPT !.else = Nest(SubSeq(s, k + 1, Len(s)))])

(* The function has been translated and loaded, nothing of it has run. *)
Init ==
    /\ \E family \in Functions : function \in family
    /\ did = C!Started /\ pc = <<1>> /\ asked = FALSE
    /\ \E s \in {Translated(function)} :
          /\ out = Nest(Folded(s))
          /\ phase = IF s = <<>> THEN "refused" ELSE "run"
    /\ data \in C!Data

-----------------------------------------------------------------------------
RECURSIVE ListAt(_, _)
ListAt(list, q) ==
    IF q = <<>> THEN list
    ELSE ListAt(IF q[2] = 1 THEN list[q[1]].then ELSE list[q[1]].else, SubSeq(q, 3, Len(q)))

Up(q)   == SubSeq(q, 1, Len(q) - 2)
Next(q) == [q EXCEPT ![Len(q)] = @ + 1]

Here == ListAt(out, Front(pc))
Statement == Here[Last(pc)]

(* The paths of the lists around the next statement, and around it up to   *)
(* the loop it is in; a loop's path is its statement's.                    *)
Around(q) == {SubSeq(q, 1, k) : k \in {k \in 0 .. Len(q) - 1 : k % 2 = 0}}
LoopsAround(q) == {l \in {Front(p) : p \in Around(q) \ {<<>>}} : ListAt(out, Front(l))[Last(l)].op = "while"}
Innermost(S) == CHOOSE q \in S : \A p \in S : Len(p) <= Len(q)

Silent == UNCHANGED <<did, data, phase>>

Finish(how) ==
    /\ did' = [C!Ends(how) EXCEPT !.turn = 1 - did.turn]
    /\ UNCHANGED <<data, phase, pc>> /\ asked' = FALSE

CallOf(p) ==
    /\ did' = [C!Calls(p) EXCEPT !.turn = 1 - did.turn]
    /\ data' \in C!Data
    /\ UNCHANGED phase

GoTo(q) == pc' = q /\ asked' = FALSE /\ Silent

Fail == phase' = "failed" /\ UNCHANGED <<did, data, pc, asked>>

(* A jump is looked up in the innermost list around it that has labels;    *)
(* its label needs a statement behind it, and it leaves no loop.  If no    *)
(* list around it has labels the jump leaves the function.                 *)
Goto(n) ==
    LET lists == {q \in Around(pc) : Labels(ListAt(out, q)) # {}}
        q == Innermost(lists)
        list == ListAt(out, q)
        at == {i \in DOMAIN list : IsLabel(list[i]) /\ list[i].n = n}
        lands == /\ at # {} /\ \E j \in DOMAIN list : j > Min(at) /\ ~IsLabel(list[j])
                 /\ \A l \in LoopsAround(pc) : Len(l) < Len(q)
    IN  CASE lists = {} -> Finish("return")
          [] lists # {} /\ lands -> GoTo(Append(q, Min(at)))
          [] lists # {} /\ ~lands -> Fail

(* At the end of a list control goes on behind the `if`, or to the loop    *)
(* again; at the end of a void function it returns.                        *)
Fall ==
    IF Len(pc) = 1 THEN IF function.returns = "void" THEN Finish("return") ELSE Fail
    ELSE LET s == Front(pc)
         IN  \E owner \in {ListAt(out, Front(Front(s)))[Last(Front(s))]} :
                GoTo(IF owner.op = "while" THEN Front(s) ELSE Next(Front(s)))

Leap(leaves) ==
    IF LoopsAround(pc) = {} THEN Fail
    ELSE GoTo(IF leaves THEN Next(Innermost(LoopsAround(pc))) ELSE Innermost(LoopsAround(pc)))

Holds(cond) == cond = Always \/ (C!Finds(function, data, cond.at) \in cond.keys) # cond.negated

(* A condition, of an `if` or a loop, makes its call and is then tested. *)
Ask(s) ==
    /\ Nested(s) /\ s.n.calls /\ ~asked
    /\ CallOf(s.n.at) /\ asked' = TRUE /\ UNCHANGED pc

Test(s) ==
    /\ Nested(s) /\ (s.n.calls => asked)
    /\ CASE Holds(s.n) -> GoTo(pc \o <<1, 1>>)
         [] ~Holds(s.n) /\ s.op = "when" -> GoTo(pc \o <<2, 1>>)
         [] ~Holds(s.n) /\ s.op = "while" -> GoTo(Next(pc))

(* A dispatch: the label it finds, or an exit. *)
RECURSIVE Found(_, _, _)
Found(tree, first, x) ==
    CASE tree.kind = "tests" ->
            IF \E c \in Range(tree.cases) : c.key = x
            THEN (CHOOSE c \in Range(tree.cases) : c.key = x).arm ELSE Stay
      [] tree.kind = "table" -> IF InTable(tree, x, "int") THEN TableNumber(tree, first, x, "int") ELSE Stay
      [] tree.kind = "split" -> Found(Side(tree, x), FirstOfSide(tree, first, x), x)

Jump(n) ==
    CASE n = Leave -> Finish("return")
      [] n = Again -> Leap(FALSE)
      [] n = Stay -> GoTo(Next(pc))
      [] n >= 0 -> Goto(n)

Search(s) ==
    /\ s.op = "if"
    /\ \E n \in {Found(s.tree, s.first, C!Finds(function, data, s.n))} : Jump(IF n = Stay THEN s.else ELSE n)

Call(s) == s.op = "call" /\ CallOf(s.n) /\ pc' = Next(pc) /\ UNCHANGED asked

Running == phase = "run" /\ ~C!Ended

Step ==
    /\ Running
    /\ UNCHANGED <<function, out>>
    /\ IF Last(pc) > Len(Here) THEN Fall
       ELSE \E s \in {Statement} :
            \/ Call(s)
            \/ Ask(s)
            \/ Test(s)
            \/ Search(s)
            \/ s.op = "goto" /\ Goto(s.n)
            \/ s.op \in C!Returning /\ Finish(s.op)
            \/ s.op = "label" /\ GoTo(Next(pc))
            \/ s.op \in {"break", "continue"} /\ Leap(s.op = "break")

(* The program that was made runs on: this is WF_vars(Step), with what     *)
(* ENABLED comes to written out.                                           *)
RunsOn  == []<>(~Running) \/ []<><<Step>>_vars

Spec == Init /\ [][Step]_vars /\ RunsOn

-----------------------------------------------------------------------------
(* The statements are such as daslang knows, a label number is on one      *)
(* label, and control is in a list or right behind it.                     *)
TypeOK ==
    /\ phase \in {"run", "refused", "failed"} /\ asked \in BOOLEAN
    /\ did.what \in {"started", "call"} \cup C!Returning
    /\ did.at \in C!Paths(function.body, <<>>)
    /\ data \in C!Data
    /\ Last(pc) \in 1 .. Len(Here) + 1
    /\ IsInjective(LabelOrder(out))

(* Every function is translated, and no jump of it fails. *)
Total == phase \notin {"refused", "failed"}

(* The translation does what the C function does: the same calls in the    *)
(* same order, every condition asked as often, the same end; and it goes   *)
(* on for as long as the function does.                                    *)
ImplementsC == C!Spec
=============================================================================
