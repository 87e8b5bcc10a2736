----------------------------- MODULE GraphBuild -----------------------------
(***************************************************************************)
(* CfgBuilder (cfg/mod.rs): the control-flow graph of a C function body.   *)
(* Functions are those of CStatements, graphs those of ControlGraph, with  *)
(* the path of the statement a block's call or condition belongs to.       *)
(***************************************************************************)
EXTENDS Integers, Sequences, SequencesExt, FiniteSetsExt, TLC

(* Labels: the entry is 0, the builder's own count up, C's count down.     *)
None == -1
FromC(n) == -1 - n

Edges(kind, to) == [kind |-> kind, to |-> to, keys |-> <<>>, taken |-> FALSE]
JumpTo(label) == Edges("jump", <<label>>)

(* The builder: the blocks by label, the next label, the targets of break  *)
(* and continue, and what each open switch has collected.                  *)
NewBuilder == [nodes |-> <<>>, next |-> 1, breaks |-> <<>>, continues |-> <<>>, cases |-> <<>>]

Fresh(b, count) == [b EXCEPT !.next = @ + count]

AddBlock(b, label, calls, at, term) ==
    [b EXCEPT !.nodes = (label :> [calls |-> calls, at |-> at, term |-> term]) @@ @]

(* A statement that does nothing but go on; none where control has left.   *)
Link(b, end, to) == IF end = None THEN b ELSE AddBlock(b, end, FALSE, <<>>, JumpTo(to))

Targets(b, breaks, continues) ==
    [b EXCEPT !.breaks = @ \o breaks, !.continues = @ \o continues]

(* What has been built, and the label where control goes on, or None. *)
Built(b, end) == [b |-> b, end |-> end]

AddConditionBranch(b, entry, asks, at, then, else) ==
    LET branch == IF asks \in {"true", "false"}
                  THEN [Edges("const", <<then, else>>) EXCEPT !.taken = asks = "true"]
                  ELSE Edges("branch", <<then, else>>)
    IN  IF asks = "stmts"
        THEN AddBlock(AddBlock(Fresh(b, 1), entry, TRUE, at, JumpTo(b.next)), b.next, FALSE, at, branch)
        ELSE AddBlock(b, entry, asks = "value", at, branch)

(* Where a continue of a loop goes. *)
Continuing(kind, cond, step) == IF kind = "for" THEN step ELSE cond

-----------------------------------------------------------------------------
RECURSIVE ConvertStmt(_, _, _, _), ConvertStmts(_, _, _, _, _)

(* convert_stmts, from the i-th statement of a compound on. *)
ConvertStmts(b, s, at, i, end) ==
    IF i > Len(s.kids) THEN Built(b, end)
    ELSE LET start == IF end = None THEN Built(Fresh(b, 1), b.next) ELSE Built(b, end)
             done == ConvertStmt(start.b, s.kids[i], Append(at, i), start.end)
         IN  ConvertStmts(done.b, s, at, i + 1, done.end)

(* The fresh labels of an if are then, else and next. *)
ConvertIf(b, s, at, entry) ==
    LET asked == AddConditionBranch(Fresh(b, 3), entry, s.asks, at, b.next, b.next + 1)
        then == ConvertStmt(asked, s.kids[1], Append(at, 1), b.next)
        else == ConvertStmt(Link(then.b, then.end, b.next + 2), s.kids[2], Append(at, 2), b.next + 1)
    IN  Built(Link(else.b, else.end, b.next + 2), b.next + 2)

(* Those of a loop are condition, body and, of a `for`, the step, and what *)
(* is after the loop.                                                      *)
ConvertBody(b, s, at, entry, cond, step, after) ==
    LET body == ConvertStmt(Targets(b, <<after>>, <<Continuing(s.kind, cond, step)>>),
                            Last(s.kids), Append(at, Len(s.kids)), entry)
    IN  Link(body.b, body.end, step)

Left(b) == [b EXCEPT !.breaks = Front(@), !.continues = Front(@)]

ConvertWhile(b, s, at, entry) ==
    LET cond == b.next
        body == cond + 1
        after == cond + 2
        linked == Link(Fresh(b, 3), entry, cond)
        asked == AddConditionBranch(linked, cond, s.asks, at, body, after)
    IN  Built(Left(ConvertBody(asked, s, at, body, cond, cond, after)), after)

ConvertDo(b, s, at, entry) ==
    LET body == b.next
        cond == body + 1
        after == body + 2
        done == ConvertBody(Link(Fresh(b, 3), entry, body), s, at, body, cond, cond, after)
    IN  Built(Left(AddConditionBranch(done, cond, s.asks, at, body, after)), after)

ConvertFor(b, s, at, entry) ==
    LET cond == b.next
        body == cond + 1
        step == cond + 2
        after == cond + 3
        init == ConvertStmt(Fresh(b, 4), s.kids[1], Append(at, 1), entry)
        linked == Link(init.b, init.end, cond)
        asked == IF s.asks = "none" THEN Link(linked, cond, body)
                 ELSE AddConditionBranch(linked, cond, s.asks, at, body, after)
        done == ConvertBody(asked, s, at, body, cond, step, after)
        stepped == AddBlock(done, step, s.kids[2].kind = "expr", Append(at, 2), JumpTo(cond))
    IN  Built(Left(stepped), after)

(* The body comes first: it collects the cases. *)
ConvertSwitch(b, s, at, entry) ==
    LET end == b.next
        inside == [Targets(Fresh(b, 2), <<end>>, <<>>) EXCEPT !.cases = Append(@, [cases |-> <<>>, default |-> end])]
        body == ConvertStmt(inside, s.kids[1], Append(at, 1), end + 1)
        linked == Link(body.b, body.end, end)
        collected == Last(linked.cases)
        switch == [Edges("switch", Append([i \in DOMAIN collected.cases |-> collected.cases[i].to], collected.default))
                    EXCEPT !.keys = [i \in DOMAIN collected.cases |-> collected.cases[i].key]]
    IN  Built(AddBlock([linked EXCEPT !.breaks = Front(@), !.cases = Front(@)],
                       entry, s.asks \in {"value", "stmts"}, at, switch), end)

Collect(b, s, label) ==
    [b EXCEPT !.cases[Len(b.cases)] =
        IF s.kind = "default" THEN [@ EXCEPT !.default = label]
        ELSE [@ EXCEPT !.cases = Append(@, [key |-> s.n, to |-> label])]]

ConvertStmt(b, s, at, entry) ==
    CASE s.kind = "block" -> ConvertStmts(b, s, at, 1, entry)
      [] s.kind = "expr" -> Built(AddBlock(Fresh(b, 1), entry, TRUE, at, JumpTo(b.next)), b.next)
      [] s.kind = "return" ->
            Built(AddBlock(b, entry, s.asks \in {"value", "stmts"}, at, Edges(IF s.n = 0 THEN "return" ELSE "value", <<>>)), None)
      [] s.kind = "if" -> ConvertIf(b, s, at, entry)
      [] s.kind = "while" -> ConvertWhile(b, s, at, entry)
      [] s.kind = "do" -> ConvertDo(b, s, at, entry)
      [] s.kind = "for" -> ConvertFor(b, s, at, entry)
      [] s.kind = "switch" -> ConvertSwitch(b, s, at, entry)
      [] s.kind \in {"case", "default"} ->
            ConvertStmt(Collect(Link(Fresh(b, 1), entry, b.next), s, b.next), s.kids[1], Append(at, 1), b.next)
      [] s.kind = "goto" -> Built(Link(b, entry, FromC(s.n)), None)
      [] s.kind = "label" -> ConvertStmt(Link(b, entry, FromC(s.n)), s.kids[1], Append(at, 1), FromC(s.n))
      [] s.kind = "break" -> Built(Link(b, entry, Last(b.breaks)), None)
      [] s.kind = "continue" -> Built(Link(b, entry, Last(b.continues)), None)

-----------------------------------------------------------------------------
ImplicitReturn(returns) ==
    CASE returns = "void" -> "return" [] returns = "main" -> "value" [] returns = "value" -> "trap"

(* from_stmts: the blocks by label, closed by the implicit return. *)
FromStmts(f) ==
    LET done == ConvertStmt(NewBuilder, f.body, <<>>, 0)
        exit == IF done.end = None THEN done.b.next ELSE done.end
    IN  AddBlock(done.b, exit, FALSE, <<>>, Edges(ImplicitReturn(f.returns), <<>>)).nodes

RECURSIVE Reachable(_, _)
Reachable(nodes, seen) ==
    LET more == seen \cup UNION {Range(nodes[l].term.to) : l \in seen \cap DOMAIN nodes}
    IN  IF more = seen THEN seen ELSE Reachable(nodes, more)

(* The labels but the entry's, in order. *)
Upwards(from, to) == SelectSeq([i \in 1 .. to - from + 1 |-> from + i - 1], LAMBDA l : l # 0)

Renumbered(nodes, order) ==
    [i \in DOMAIN order |->
        [nodes[order[i]] EXCEPT !.term.to = [k \in DOMAIN @ |-> CHOOSE j \in DOMAIN order : order[j] = @[k]]]]

(* prune_unreachable and validate_edges; the blocks are numbered from the  *)
(* entry on.  An edge to no block refuses the function: <<>>.              *)
Pruned(nodes, kept) ==
    IF kept \subseteq DOMAIN nodes
    THEN Renumbered(nodes, SelectSeq(<<0>> \o Upwards(Min(kept), Max(kept)), LAMBDA l : l \in kept))
    ELSE <<>>

Validated(nodes) == Pruned(nodes, Reachable(nodes, {0}))

Graph(f) == Validated(FromStmts(f))
=============================================================================
