--------------------------- MODULE MCFlatLowering ---------------------------
(* Small functions for FlatLowering. *)
EXTENDS FlatLowering

(* No case, one test, a jump table, and a split. *)
KeySeqs == {<<>>, <<0>>, <<0, 1>>, <<0, 4>>}

(* The blocks that end so, in a function of n blocks. *)
BlocksOf(kind, n) ==
    LET To(m) == {Flow!Terminator(kind, to) : to \in [1 .. m -> 1 .. n]}
        ending == CASE kind \in Flow!Returning -> To(0)
                    [] kind = "jump"   -> To(1)
                    [] kind = "branch" -> To(2)
                    [] kind = "const"  -> {[t EXCEPT !.taken = taken] : t \in To(2), taken \in BOOLEAN}
                    [] kind = "switch" -> UNION {{[t EXCEPT !.keys = keys] : t \in To(Len(keys) + 1)} : keys \in KeySeqs}
    IN  [calls : IF kind \in {"jump", "switch", "value"} THEN BOOLEAN ELSE {FALSE}, term : ending]

(* Blocks are numbered in the order in which a breadth-first walk sees     *)
(* them; at most tests of them look at data.                               *)
Seen(g) == Max({1} \cup UNION {Range(g[b].term.to) : b \in DOMAIN g})

Extends(g, block, tests) ==
    /\ \A i \in DOMAIN block.term.to :
          block.term.to[i] <= 1 + Max({Seen(g)} \cup {block.term.to[j] : j \in 1 .. i - 1})
    /\ Cardinality({b \in DOMAIN g : g[b].term.kind \in {"branch", "switch"}}) = tests =>
          block.term.kind \notin {"branch", "switch"}

(* No block that constant conditions cut off. *)
NothingDead(g) ==
    LET to(b) == IF g[b].term.kind = "const" THEN {Flow!Successor(g, b, <<>>)} ELSE Range(g[b].term.to)
    IN  Reached(g, to) = DOMAIN g

(* The functions of n blocks that end in these ways. *)
FunctionsOf(kinds, n, tests) ==
    LET blocks == UNION {BlocksOf(kind, n) : kind \in kinds}
        first[m \in 0 .. n] ==
            IF m = 0 THEN {<<>>}
            ELSE {Append(x[1], x[2]) : x \in
                    {x \in first[m - 1] \X blocks :
                        (m > 1 => m <= Seen(x[1])) /\ Extends(x[1], x[2], tests)}}
    IN  {g \in first[n] : Seen(g) = n /\ NothingDead(g)}

SmallFunctions ==
    {FunctionsOf({"jump", "branch", "return"}, n, 2) : n \in 1 .. 4}
        \cup {FunctionsOf({"jump", "branch", "const"} \cup ends, n, 2) :
                ends \in {{"return"}, {"value", "trap"}}, n \in 1 .. 3}
        \cup {FunctionsOf({"jump", "switch", "return"}, n, 1) : n \in 1 .. 3}
        \cup {FunctionsOf({"jump", "switch", "value"}, n, 1) : n \in 1 .. 2}

(* void f(int a) { if (0) { d(); return; } again: if (a == 0) goto out;    *)
(*                 work(); a--; goto again; out: ; }                       *)
Block(calls, kind, to) == [calls |-> calls, term |-> Flow!Terminator(kind, to)]

DeadExit ==
    {{<<Block(FALSE, "const", <<2, 4>>), Block(TRUE, "jump", <<3>>), Block(FALSE, "return", <<>>),
       Block(FALSE, "jump", <<5>>), Block(FALSE, "jump", <<6>>), Block(FALSE, "branch", <<7, 8>>),
       Block(FALSE, "jump", <<12>>), Block(FALSE, "jump", <<9>>), Block(TRUE, "jump", <<10>>),
       Block(TRUE, "jump", <<11>>), Block(FALSE, "jump", <<6>>), Block(FALSE, "return", <<>>)>>}}
=============================================================================
