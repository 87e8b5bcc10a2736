----------------------------- MODULE FlatRender -----------------------------
(***************************************************************************)
(* The flat back end (cfg/labels.rs) as a function: a control-flow graph   *)
(* becomes one list of daslang statements with numbered labels and gotos.  *)
(* Blocks are laid out, only the edges that do not fall through get a      *)
(* goto, labels that would end up on nothing are repaired, and the early   *)
(* exits that daslang's folding would break are moved.                     *)
(*                                                                         *)
(* A graph is what ControlGraph takes.  Declarations and temporaries are   *)
(* data, so their hoisting is not here.                                    *)
(***************************************************************************)
EXTENDS SwitchDispatch, SequencesExt, FiniteSetsExt, TLC

(* Statements.  An `if` finds its jump in a tree of tests, whose tables'   *)
(* labels are numbered from `first` on, and otherwise takes `else`; a jump *)
(* is a label's number, or                                                 *)
Leave == -1     \* a return, or
Stay  == -2     \* none

CallS(b)  == [op |-> "call", n |-> b]
LabelS(n) == [op |-> "label", n |-> n]
GotoS(n)  == [op |-> "goto", n |-> n]
EndS(how) == [op |-> how, n |-> 0]      \* return, value, trap
IfS(b, tail, else) == [op |-> "if", n |-> b, tree |-> tail.tree, first |-> tail.first, else |-> else]

IsLabel(s)    == s.op = "label"
IsReturn(s)   == s.op \in {"return", "value"}
Transfers(s)  == s.op \in {"goto", "return", "value"}

Last0(s, otherwise) == IF s = <<>> THEN otherwise ELSE Last(s)
Labels(s) == {s[i].n : i \in {i \in DOMAIN s : IsLabel(s[i])}}

-----------------------------------------------------------------------------
(* Layout: depth first, the successor that can fall through first. *)
Preferred(t) ==
    CASE t.kind \in {"branch", "const"} -> Reverse(t.to)
      [] t.kind = "switch" -> <<Last(t.to)>> \o Front(t.to)
      [] OTHER -> t.to

RECURSIVE Walk(_, _, _)
Walk(g, stack, order) ==
    IF stack = <<>> THEN order
    ELSE IF Last(stack) \in Range(order) THEN Walk(g, Front(stack), order)
    ELSE Walk(g, Front(stack) \o Reverse(Preferred(g[Last(stack)].term)), Append(order, Last(stack)))

Layout(g) == Walk(g, <<1>>, <<>>)

-----------------------------------------------------------------------------
(* What a block still has to emit when `next` is laid out after it: the    *)
(* tree of its tests, and the block to go to otherwise, if any.            *)
Remaining(kind, tree, else) == [kind |-> kind, tree |-> tree, else |-> else]

GotoUnless(target, next) == Remaining("goto", Tests(<<>>), IF target = next THEN Stay ELSE target)

IfGoto(outcome, target, else) == Remaining("if", Tests(<<[key |-> outcome, arm |-> target]>>), else)

Cases(t) == [i \in DOMAIN t.keys |-> [value |-> t.keys[i], arm |-> t.to[i]]]

Ending == {"return", "value", "trap"}

Plan(t, next) ==
    CASE t.kind \in Ending -> Remaining("end", Tests(<<>>), Stay)
      [] t.kind = "jump"   -> GotoUnless(t.to[1], next)
      [] t.kind = "const"  -> GotoUnless(t.to[IF t.taken THEN 1 ELSE 2], next)
      [] t.kind = "branch" ->
            IF t.to = <<next, next>> THEN GotoUnless(next, next)
            ELSE IF t.to[1] = next THEN IfGoto(0, t.to[2], Stay)
            ELSE IfGoto(1, t.to[1], IF t.to[2] = next THEN Stay ELSE t.to[2])
      [] t.kind = "switch" ->
            Remaining("if", Tree(Cases(t), Last(t.to), "int"), IF Last(t.to) = next THEN Stay ELSE Last(t.to))

RECURSIVE NamedArms(_), Renamed(_, _)
NamedArms(tree) ==
    CASE tree.kind = "tests" -> {c.arm : c \in Range(tree.cases)}
      [] tree.kind = "table" -> {}
      [] tree.kind = "split" -> NamedArms(tree.below) \cup NamedArms(tree.above)

(* The tree with every arm it names renamed; a table names none.           *)
Renamed(tree, name) ==
    CASE tree.kind = "tests" ->
            [tree EXCEPT !.cases = [i \in DOMAIN @ |-> [@[i] EXCEPT !.arm = name[@]]]]
      [] tree.kind = "table" -> tree
      [] tree.kind = "split" -> [tree EXCEPT !.below = Renamed(@, name), !.above = Renamed(@, name)]

-----------------------------------------------------------------------------
(* Mutant of TailStatements: the next block is gone to all the same.       *)
TailAlwaysJumps(b, tail) ==
    IF tail.tree.kind = "tests" /\ tail.tree.cases # <<>> THEN <<IfS(b, tail, tail.else)>>
    ELSE (IF tail.tree.kind = "tests" THEN <<>> ELSE <<IfS(b, tail, Stay)>>) \o <<GotoS(tail.else)>>

(* The statements of a tail whose arms are label numbers. *)
TailStatements(b, tail) ==
    LET otherwise == IF tail.else = Stay THEN <<>> ELSE <<GotoS(tail.else)>>
    IN  CASE tail.tree.kind # "tests"   -> <<IfS(b, tail, Stay)>> \o otherwise
          [] tail.tree.cases = <<>>     -> otherwise
          [] OTHER                      -> <<IfS(b, tail, tail.else)>>

(* The blocks some tail names, in the order of the layout: they are        *)
(* numbered first, then the arms of every jump table, in theirs.           *)
Named(order, tails) ==
    LET jumpedTo == UNION {NamedArms(t.tree) \cup {t.else} : t \in Range(tails)}
    IN  SelectSeq(order, LAMBDA b : b \in jumpedTo)

TableArms(tails) == FlattenSeq([i \in DOMAIN tails |-> TableLabels(tails[i].tree)])

(* The statements for these blocks.  An arm in `returning` gets its labels *)
(* on a return at the top, the others get theirs on their block.           *)
Assembled(g, returning, order, tails, named, arms) ==
    LET number == [b \in Range(named) \cup {Stay} |->
                    IF b = Stay THEN Stay ELSE (CHOOSE i \in DOMAIN named : named[i] = b) - 1]
        aliases(S) == LET at == SelectSeq([k \in DOMAIN arms |-> k], LAMBDA k : arms[k] \in S)
                      IN  [i \in DOMAIN at |-> LabelS(Len(named) + at[i] - 1)]
        resume == Len(named) + Len(arms)
        prologue == IF Range(arms) \cap returning = {} THEN <<>>
                    ELSE <<GotoS(resume)>> \o aliases(returning) \o <<EndS("return"), LabelS(resume)>>
        block(out, i) ==
            LET b == order[i]
                node == g[b]
                above == (IF b \in Range(named) THEN <<LabelS(number[b])>> ELSE <<>>)
                         \o aliases({b} \ returning)
                body == (IF node.calls THEN <<CallS(b)>> ELSE <<>>)
                        \o (IF node.term.kind \in Ending THEN <<EndS(node.term.kind)>> ELSE <<>>)
                so == out \o above \o body
                base == Len(named) + Len(TableArms(SubSeq(tails, 1, i - 1)))
                tail == [kind |-> tails[i].kind, else |-> number[tails[i].else],
                         tree |-> Renamed(tails[i].tree, number), first |-> base]
            IN  IF tail.kind = "end" \/ (tail.kind = "goto" /\ IsReturn(Last0(so, LabelS(0)))) THEN so
                ELSE so \o TailStatements(b, tail)
    IN  FoldLeftDomain(block, prologue, order)

(* Nothing falls off the end of a function. *)
Closed(out, tails) ==
    IF Last(tails).kind = "end" \/ IsReturn(Last(out)) THEN out ELSE Append(out, EndS("trap"))

(* The statements of a layout, and its table arms with their label numbers. *)
Numbering(g, returning, order, tails) ==
    LET named == Named(order, tails)
        arms == TableArms(tails)
    IN  [ out  |-> Closed(Assembled(g, returning, order, tails, named, arms), tails),
          arms |-> [k \in DOMAIN arms |-> [label |-> Len(named) + k - 1, arm |-> arms[k]]] ]

(* render_once up to the repairs. *)
Emitted(g, returning) ==
    LET order == Layout(g)
        next(i) == IF i < Len(order) THEN order[i + 1] ELSE 0
    IN  Numbering(g, returning, order, [i \in DOMAIN order |-> Plan(g[order[i]].term, next(i))])

-----------------------------------------------------------------------------
(* A return right after a return goes. *)
DropReturnsAfterReturn(out) ==
    LET kept == SelectSeq([i \in DOMAIN out |-> i],
                          LAMBDA i : ~(i > 1 /\ IsReturn(out[i]) /\ IsReturn(out[i - 1])))
    IN  [i \in DOMAIN kept |-> out[kept[i]]]

(* Mutant of DeadTailLabels: only a label that ends the list is dead, the  *)
(* closing return a void function loses is not thought of.                 *)
DeadOnlyAtTheEnd(out) ==
    LET last == Max({0} \cup {i \in DOMAIN out : ~IsLabel(out[i])})
    IN  Labels(SubSeq(out, last + 1, Len(out)))

(* The labels no statement follows but a bare return that closes the list. *)
DeadTailLabels(out) ==
    LET live == IF out # <<>> /\ Last(out).op = "return" THEN Len(out) - 1 ELSE Len(out)
        last == Max({0} \cup {i \in 1 .. live : ~IsLabel(out[i])})
    IN  Labels(SubSeq(out, last + 1, live))

(* The list without these labels, and every jump to one a return.          *)
RetargetToReturn(out, dead) ==
    LET jump == [n \in Stay .. Max(dead \cup Labels(out)) |-> IF n \in dead THEN Leave ELSE n]
        kept == SelectSeq(out, LAMBDA s : ~(IsLabel(s) /\ s.n \in dead))
    IN  [i \in DOMAIN kept |->
            LET s == kept[i]
            IN  CASE s.op = "if" -> [s EXCEPT !.tree = Renamed(@, jump), !.else = jump[@]]
                  [] s.op = "goto" /\ s.n \in dead -> EndS("return")
                  [] OTHER -> s]

RECURSIVE Repaired(_)
Repaired(rendering) ==
    LET kept == DropReturnsAfterReturn(rendering.out)
        dead == DeadTailLabels(kept)
        throughTable == {a.arm : a \in {a \in Range(rendering.arms) : a.label \in dead}}
    IN  IF dead = {} \/ throughTable # {} THEN [out |-> kept, arms |-> throughTable]
        ELSE Repaired([rendering EXCEPT !.out = RetargetToReturn(kept, dead)])

-----------------------------------------------------------------------------
(* An `if` whose only jump is a return: `if (c) { return }`.               *)
EarlyExit(s) ==
    /\ s.op = "if" /\ s.else = Stay
    /\ s.tree.kind = "tests" /\ Len(s.tree.cases) = 1 /\ s.tree.cases[1].arm = Leave

Computed(tree) == TableLabels(tree) # <<>>

(* Whether a jump in these statements may go to one of the labels: a       *)
(* computed one may go anywhere.                                           *)
JumpsInto(s, labels) ==
    \E i \in DOMAIN s :
        \/ s[i].op = "goto" /\ s[i].n \in labels
        \/ s[i].op = "if" /\ (Computed(s[i].tree) \/ (NamedArms(s[i].tree) \cup {s[i].else}) \cap labels # {})

(* An early exit with labels below it and a jump across it.                *)
Crossed(out, k) ==
    LET above == SubSeq(out, 1, k)
        below == SubSeq(out, k + 1, Len(out))
    IN  /\ EarlyExit(out[k]) /\ Labels(below) # {}
        /\ \/ JumpsInto(above, Labels(below))
           \/ Labels(above) # {} /\ JumpsInto(below, Labels(above))

(* Mutant of Slot: any place before a label will do.                       *)
SlotFallenInto(out, k) ==
    LET slots == {p \in 2 .. Len(out) : IsLabel(out[p])}
    IN  IF slots = {} THEN 0 ELSE Min(slots)

(* Where nothing falls in: after a jump or a return and before a label,    *)
(* the first below the exit, else the first above it, else 0.              *)
Slot(out, k) ==
    LET slots == {p \in 2 .. Len(out) : Transfers(out[p - 1]) /\ IsLabel(out[p])}
        below == {p \in slots : p > k}
    IN  CASE below # {} -> Min(below)
          [] below = {} /\ slots # {} -> Min(slots)
          [] slots = {} -> 0

FreshLabel(out) == 1 + Max({-1} \cup Labels(out))

(* move_crossed_early_exits: the exit jumps to a fresh label, its return   *)
(* goes behind that label into a slot, or into one made at the top.        *)
RECURSIVE Moved(_)
Moved(out) ==
    LET crossed == {k \in DOMAIN out : Crossed(out, k)}
        k == Min(crossed)
        fresh == FreshLabel(out)
        jumping == [out EXCEPT ![k].tree.cases[1].arm = fresh]
        arm == <<LabelS(fresh), EndS("return")>>
        p == Slot(jumping, k)
    IN  IF crossed = {} THEN out
        ELSE IF p = 0 THEN Moved(<<GotoS(fresh + 1)>> \o arm \o <<LabelS(fresh + 1)>> \o jumping)
        ELSE Moved(SubSeq(jumping, 1, p - 1) \o arm \o SubSeq(jumping, p, Len(out)))

-----------------------------------------------------------------------------
(* render: again while a jump table reaches a dead label; <<>> if refused. *)
RECURSIVE Rendered(_, _)
Rendered(g, returning) ==
    LET repaired == Repaired(Emitted(g, returning))
    IN  CASE repaired.arms = {} -> Moved(repaired.out)
          [] repaired.arms \subseteq returning -> <<>>
          [] OTHER -> Rendered(g, returning \cup repaired.arms)
=============================================================================
