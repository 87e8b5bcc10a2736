---------------------------- MODULE FlatLowering ----------------------------
(***************************************************************************)
(* A C function through the flat back end: its graph has been rendered     *)
(* (FlatRender), daslang loads the statements and runs them.  What daslang *)
(* does is external: its foldings and its jumps are modelled from the      *)
(* comments the repairs of cfg/labels.rs are written for.                  *)
(***************************************************************************)
EXTENDS FlatRender

CONSTANTS
    Outcomes,       \* the values conditions can have
    Families        \* sets of graphs that are rendered

VARIABLES
    graph, did, data,   \* see ControlGraph
    phase,      \* run; refused by the renderer, failed in daslang
    out,        \* the statements, as daslang has loaded them
    pc          \* the next statement

vars == <<graph, did, data, phase, out, pc>>

Flow == INSTANCE ControlGraph

-----------------------------------------------------------------------------
(* What Cfg::from_stmts, prune_unreachable and validate_edges let through. *)
(* Conditions have no statements of their own, a return without a value    *)
(* has none, and a function returns a value everywhere or nowhere.         *)
Kinds(g) == {g[b].term.kind : b \in DOMAIN g}

Reached(g, to(_)) ==
    LET from[n \in 0 .. Len(g)] ==
            IF n = 0 THEN {1} ELSE LET S == from[n - 1] IN S \cup UNION {to(b) : b \in S}
    IN  from[Len(g)]

WellFormed(g) ==
    /\ \A b \in DOMAIN g :
          /\ Range(g[b].term.to) \subseteq DOMAIN g
          /\ g[b].calls => g[b].term.kind \in {"jump", "switch", "value"}
    /\ LET to(b) == Range(g[b].term.to) IN Reached(g, to) = DOMAIN g
    /\ "return" \in Kinds(g) => Kinds(g) \cap {"value", "trap"} = {}

ASSUME GraphsAssumption == \A family \in Families : \A g \in family : WellFormed(g)

(* daslang folds what it loads: nothing is left between a return and the   *)
(* next label, a void function loses the return that closes it, and both   *)
(* again.  A function that returns no value anywhere is void.              *)
RECURSIVE Folded(_)
Folded(s) ==
    LET dead == {i \in 2 .. Len(s) : IsReturn(s[i - 1]) /\ ~IsLabel(s[i])}
    IN  IF dead # {} THEN Folded(RemoveAt(s, Min(dead)))
        ELSE IF s # <<>> /\ Last(s).op = "return" THEN Folded(Front(s))
        ELSE s

(* The function has been translated and loaded, nothing of it has run. *)
Init ==
    /\ \E family \in Families : graph \in family
    /\ did = Flow!Started /\ pc = 1
    /\ \E rendered \in {Rendered(graph, {})} :
          /\ out = Folded(rendered)
          /\ phase = IF rendered = <<>> THEN "refused" ELSE "run"
    /\ data \in Flow!Data(graph)

-----------------------------------------------------------------------------
(* An early exit takes what follows it into an `else` block: the blocks    *)
(* are nested, and the i-th statement is in the one of the exits above it. *)
Exits(i) == {k \in 1 .. i - 1 : EarlyExit(out[k]) /\ k < Len(out)}
Nest(i) == Cardinality(Exits(i))

Finish(how) ==
    /\ did' = [Flow!Ends(how) EXCEPT !.turn = 1 - did.turn]
    /\ UNCHANGED <<data, phase, pc>>

(* A jump is looked up in the innermost block around it that has labels.   *)
(* A label is where the next statement of its block is; without one, or in *)
(* a block further in, the jump fails.  If no block around it has labels   *)
(* the jump leaves the function.                                           *)
Goto(n) ==
    LET labels(q) == {i \in DOMAIN out : IsLabel(out[i]) /\ Nest(i) = q}
        around == {q \in 0 .. Nest(pc) : labels(q) # {}}
        at == {i \in labels(Max(around)) : out[i].n = n}
        lands == at # {} /\ \E j \in DOMAIN out : j > Min(at) /\ ~IsLabel(out[j])
    IN  CASE around = {} -> Finish("return")
          [] around # {} /\ lands -> pc' = Min(at) /\ UNCHANGED <<did, data, phase>>
          [] around # {} /\ ~lands -> phase' = "failed" /\ UNCHANGED <<did, data, pc>>

RECURSIVE Jump(_, _, _)
Jump(tree, first, x) ==
    CASE tree.kind = "tests" ->
            IF \E c \in Range(tree.cases) : c.key = x
            THEN (CHOOSE c \in Range(tree.cases) : c.key = x).arm ELSE Stay
      [] tree.kind = "table" -> IF InTable(tree, x, "int") THEN TableNumber(tree, first, x, "int") ELSE Stay
      [] tree.kind = "split" -> Jump(Side(tree, x), FirstOfSide(tree, first, x), x)

Proceed == pc' = pc + 1

Call(s) ==
    /\ s.op = "call"
    /\ did' = [Flow!Calls(s.n) EXCEPT !.turn = 1 - did.turn]
    /\ data' \in Flow!Data(graph)
    /\ Proceed /\ UNCHANGED phase

Test(s) ==
    /\ s.op = "if"
    /\ LET found == Jump(s.tree, s.first, data[s.n])
           n == IF found = Stay THEN s.else ELSE found
       IN  CASE n = Leave -> Finish("return")
             [] n = Stay -> Proceed /\ UNCHANGED <<did, data, phase>>
             [] OTHER -> Goto(n)

(* A void function ends where its statements do. *)
Step ==
    /\ phase = "run" /\ ~Flow!Ended
    /\ UNCHANGED <<graph, out>>
    /\ IF pc > Len(out) THEN Finish("return")
       ELSE LET s == out[pc]
            IN  \/ Call(s)
                \/ Test(s)
                \/ s.op = "goto" /\ Goto(s.n)
                \/ s.op \in Flow!Returning /\ Finish(s.op)
                \/ s.op = "label" /\ Proceed /\ UNCHANGED <<did, data, phase>>

(* The program that was made runs on. *)
Spec == Init /\ [][Step]_vars /\ WF_vars(Step)

-----------------------------------------------------------------------------
TypeOK ==
    /\ data \in Flow!Data(graph)
    /\ \A i \in DOMAIN out : out[i].n \in Nat
    /\ phase \in {"run", "refused", "failed"}
    /\ did.what \in {"started", "call"} \cup Flow!Returning /\ did.block \in 0 .. Len(graph)
    /\ pc \in 1 .. Len(out) + 1

(* Every graph has a rendering, and no jump of it fails: labels.rs:11-13.  *)
Total == phase \notin {"refused", "failed"}

(* The statements do what the graph does: the same calls, in the same      *)
(* order, the same end, and they go on for as long as the graph does.      *)
ImplementsGraph == Flow!Spec
=============================================================================
