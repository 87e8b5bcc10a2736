---------------------------- MODULE ControlGraph ----------------------------
(***************************************************************************)
(* The control-flow graph of a C function body (cfg/mod.rs), and what the  *)
(* function does: the abstract side of the flat lowering.  A block does at *)
(* most one visible thing, a call, and ends; control then follows its      *)
(* terminator.  Conditions have no effects and depend on data, which a     *)
(* call may change at will: data gives the outcome every block's condition *)
(* would have now.                                                         *)
(***************************************************************************)
EXTENDS Integers, Sequences

CONSTANT Outcomes    \* the values conditions can have; 1 is true

VARIABLES
    graph,      \* the blocks, the first is the entry
    did,        \* the last visible thing; turn tells it from the one before
    data        \* one outcome for each block's condition

vars == <<graph, did, data>>

(* A block: does it call, and its terminator.  The targets of a branch are *)
(* <<then, else>>, of a switch its cases' and last the default's; the keys *)
(* are its cases'.  A constant branch takes its first target if `taken`.   *)
Terminator(kind, to) == [kind |-> kind, to |-> to, keys |-> <<>>, taken |-> FALSE]

Calls(b)  == [what |-> "call", block |-> b, turn |-> 0]
Ends(how) == [what |-> how, block |-> 0, turn |-> 0]
Started   == Ends("started")

(* How a function ends: a plain return, a return of a value, a trap.       *)
Returning == {"return", "value", "trap"}
Ended     == did.what \in Returning

Outcome(t, x) == CASE t.kind = "switch" -> x
                   [] t.kind = "branch" -> IF x = 1 THEN 1 ELSE 0
                   [] OTHER -> 0

(* What the data may be: only conditions look at it. *)
Data(g) ==
    LET asks == {b \in DOMAIN g : g[b].term.kind \in {"branch", "switch"}}
    IN  {[b \in DOMAIN g |-> IF b \in asks THEN Outcome(g[b].term, x[b]) ELSE 0] :
            x \in [asks -> Outcomes]}

Successor(g, b, d) ==
    LET t == g[b].term
        at == {i \in DOMAIN t.keys : t.keys[i] = d[b]}
    IN  CASE t.kind = "jump"   -> t.to[1]
          [] t.kind = "branch" -> IF d[b] = 1 THEN t.to[1] ELSE t.to[2]
          [] t.kind = "const"  -> IF t.taken THEN t.to[1] ELSE t.to[2]
          [] t.kind = "switch" -> IF at = {} THEN t.to[Len(t.to)] ELSE t.to[CHOOSE i \in at : TRUE]

(* The visible thing after a block, unless control goes round blocks that  *)
(* do nothing: it has met one twice when it has met them all.              *)
RECURSIVE Leaving(_, _, _, _)
Leaving(g, b, d, others) ==
    IF g[b].term.kind \in Returning THEN {Ends(g[b].term.kind)}
    ELSE UNION {IF g[next].calls THEN {Calls(next)}
                ELSE IF others = 0 THEN {} ELSE Leaving(g, next, d, others - 1) :
                    next \in {Successor(g, b, d)}}

After(g, b, d) ==
    IF b > 0 THEN Leaving(g, b, d, Len(g))
    ELSE IF g[1].calls THEN {Calls(1)} ELSE Leaving(g, 1, d, Len(g))

Do ==
    /\ ~Ended
    /\ \E next \in After(graph, did.block, data) :
          did' = [next EXCEPT !.turn = 1 - did.turn]
    /\ data' \in IF did'.what = "call" THEN Data(graph) ELSE {data}
    /\ UNCHANGED graph

(* The function goes on for as long as it has something to do. *)
Spec == did = Started /\ data \in Data(graph) /\ [][Do]_vars /\ WF_vars(Do)
=============================================================================
