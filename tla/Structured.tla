----------------------------- MODULE Structured -----------------------------
(***************************************************************************)
(* The structured back end (cfg/structured.rs) as a function: a C function *)
(* body becomes a tree of daslang statements, loops and branches as they   *)
(* are, a switch as an `if` chain or as a region of labels in the list     *)
(* that holds it.  Labels that would end up on nothing are resolved, `if`s *)
(* that would trap a jump are spliced, early exits that a jump crosses are *)
(* moved out of line, and the result is checked.                           *)
(*                                                                         *)
(* Functions are those of CStatements.  Counted loops, pointer inductions  *)
(* and single-use temporaries change only data, so they are not here.      *)
(***************************************************************************)
EXTENDS FlatRender

CONSTANTS
    NestingMax,     \* the deepest nesting of statements: 64
    ChainMax        \* the most case values of a chain: 8

ASSUME StructuredAssumption == NestingMax \in Nat /\ ChainMax \in Nat

(* Statements, with those of FlatRender.  A condition holds when the data  *)
(* of the statement `at` is one of the keys, or, negated, when it is not;  *)
(* evaluating it may make a call.  A loop without a condition is `Always`. *)
Condition(at, keys, calls) == [at |-> at, keys |-> keys, calls |-> calls, negated |-> FALSE]
Negate(cond) == [cond EXCEPT !.negated = ~@]
Always == Condition(<<>>, {}, FALSE)

When(cond, then, else) == [op |-> "when", n |-> cond, then |-> then, else |-> else]
While(cond, body)      == [op |-> "while", n |-> cond, then |-> body, else |-> <<>>]
BreakS    == [op |-> "break", n |-> 0]
ContinueS == [op |-> "continue", n |-> 0]

(* A switch; a target is a label, Leave, or a continue:                    *)
Again == -3
Dispatch(at, cases, default) == [op |-> "dispatch", n |-> at, cases |-> cases, default |-> default]

Nested(s) == s.op \in {"when", "while"}

-----------------------------------------------------------------------------
(* fallback_reason: does a function stay on the flat back end? *)
Labelling(s) == s.kind \in {"case", "default"}

(* switch_children *)
ArmsOf(s) == IF s.kids[1].kind = "block" THEN s.kids[1].kids ELSE s.kids

RECURSIVE StaysFlat(_, _, _)
StaysFlat(s, depth, caseOK) ==
    \/ depth > NestingMax
    \/ s.kind = "goto"
    \/ Labelling(s) /\ ~caseOK
    \/ Labelling(s) /\ StaysFlat(s.kids[1], depth, TRUE)
    \/ s.kind \in {"block", "label"} /\ \E i \in DOMAIN s.kids : StaysFlat(s.kids[i], depth, FALSE)
    \/ s.kind \in {"if", "while", "do"} /\ \E i \in DOMAIN s.kids : StaysFlat(s.kids[i], depth + 1, FALSE)
    \/ s.kind = "for" /\ (StaysFlat(s.kids[1], depth, FALSE) \/ StaysFlat(s.kids[3], depth + 1, FALSE))
    \/ /\ s.kind = "switch"
       /\ \/ ArmsOf(s) # <<>> /\ ~Labelling(Head(ArmsOf(s)))
          \/ \E i \in DOMAIN ArmsOf(s) : StaysFlat(ArmsOf(s)[i], depth + 1, TRUE)

-----------------------------------------------------------------------------
(* Whether control never goes on after a statement, and after a list. *)
RECURSIVE BreaksLoop(_), LeavesLoop(_), Terminates(_)
BreaksLoop(list) ==
    \E i \in DOMAIN list :
        \/ list[i].op = "break"
        \/ list[i].op = "when" /\ (BreaksLoop(list[i].then) \/ BreaksLoop(list[i].else))

LeavesLoop(list) ==
    \E i \in DOMAIN list :
        \/ list[i].op \in {"break", "continue"}
        \/ list[i].op = "when" /\ (LeavesLoop(list[i].then) \/ LeavesLoop(list[i].else))

Terminates(s) ==
    \/ Transfers(s) \/ s.op \in {"break", "continue", "dispatch"}
    \/ /\ s.op = "when" /\ s.then # <<>> /\ s.else # <<>>
       /\ Terminates(Last(s.then)) /\ Terminates(Last(s.else))
    \/ s.op = "while" /\ s.n = Always /\ ~BreaksLoop(s.then)

EndsIn(list) == list # <<>> /\ Terminates(Last(list))

(* The labels that jumps name, and those in a list and below it, in order. *)
RECURSIVE JumpTargets(_), LabelOrder(_)
TargetsOf(s) == {t \in {s.cases[i].arm : i \in DOMAIN s.cases} \cup {s.default} : t >= 0}

JumpTargets(list) ==
    UNION {CASE list[i].op = "goto" -> {list[i].n}
             [] list[i].op = "dispatch" -> TargetsOf(list[i])
             [] Nested(list[i]) -> JumpTargets(list[i].then) \cup JumpTargets(list[i].else)
             [] OTHER -> {} : i \in DOMAIN list}

LabelOrder(list) ==
    FlattenSeq([i \in DOMAIN list |->
        CASE IsLabel(list[i]) -> <<list[i].n>>
          [] Nested(list[i]) -> LabelOrder(list[i].then) \o LabelOrder(list[i].else)
          [] OTHER -> <<>>])

-----------------------------------------------------------------------------
(* drop_dead: a jump to a label right after it goes, and what follows a    *)
(* statement that transfers, up to the next label.                         *)
FallsTo(list, i) ==
    /\ list[i].op = "goto"
    /\ \E j \in i + 1 .. Len(list) :
          IsLabel(list[j]) /\ list[j].n = list[i].n /\ \A k \in i + 1 .. j : IsLabel(list[k])

RECURSIVE DropDead(_), DropUnjumped(_, _), Cleanup(_)
DropDead(list) ==
    LET jumps == SelectSeq([i \in DOMAIN list |-> i], LAMBDA i : ~FallsTo(list, i))
        keep(out, i) ==
            LET s == list[i]
            IN  IF EndsIn(out) /\ ~IsLabel(s) THEN out
                ELSE Append(out, IF Nested(s) THEN [s EXCEPT !.then = DropDead(@), !.else = DropDead(@)] ELSE s)
    IN  FoldLeft(keep, <<>>, jumps)

DropUnjumped(list, jumped) ==
    LET kept == SelectSeq(list, LAMBDA s : ~IsLabel(s) \/ s.n \in jumped)
    IN  [i \in DOMAIN kept |->
            IF Nested(kept[i])
            THEN [kept[i] EXCEPT !.then = DropUnjumped(@, jumped), !.else = DropUnjumped(@, jumped)]
            ELSE kept[i]]

Cleanup(list) ==
    LET alive == DropDead(list)
        kept == DropUnjumped(alive, JumpTargets(alive))
    IN  IF kept = alive THEN alive ELSE Cleanup(kept)

-----------------------------------------------------------------------------
(* A switch as a chain of `if`s.  Where it may fail the result is a set:   *)
(* the list, or nothing.                                                   *)
Mentions(list, label) == label \in JumpTargets(list)

(* lift_breaks: the list without the jumps to `end`, which is behind it. *)
RECURSIVE LiftBreaks(_, _)
LiftBreaks(list, end) ==
    LET stops == {i \in DOMAIN list : Mentions(<<list[i]>>, end)}
        i == Min(stops)
        s == list[i]
        rest == SubSeq(list, i + 1, Len(list))
        leaves(arm) == arm # <<>> /\ Last(arm).op = "goto" /\ Last(arm).n = end
        join(arm) == DropDead(arm \o rest)
        folded(then, else) ==
            {Append(SubSeq(list, 1, i - 1),
                    IF t = <<>> /\ e # <<>> THEN When(Negate(s.n), e, <<>>) ELSE When(s.n, t, e)) :
                t \in LiftBreaks(then, end), e \in LiftBreaks(else, end)}
    IN  CASE stops = {} -> {list}
          [] stops # {} /\ s.op = "goto" -> {SubSeq(list, 1, i - 1)}
          [] stops # {} /\ s.op \in {"while", "dispatch"} -> {}
          [] stops # {} /\ s.op = "when" ->
                CASE leaves(s.then) /\ ~leaves(s.else) -> folded(s.then, join(s.else))
                  [] ~leaves(s.then) /\ leaves(s.else) -> folded(join(s.then), s.else)
                  [] ~leaves(s.then) /\ ~leaves(s.else) /\ rest # <<>> -> {}
                  [] OTHER -> folded(s.then, s.else)

(* An arm as it may stand in a chain. *)
ChainArm(list, last, end) ==
    LET body == DropDead(list)
    IN  IF ~last /\ ~EndsIn(body) THEN {}
        ELSE {lifted \in LiftBreaks(body, end) : ~Mentions(lifted, end) /\ LabelOrder(lifted) = <<>>}

(* switch_chain, of arms <<[label, out]>>.                                 *)
SwitchChain(at, cases, default, arms, end) ==
    LET body == [i \in DOMAIN arms |-> ChainArm(arms[i].out, i = Len(arms), end)]
        keys(label) == {cases[i].value : i \in {i \in DOMAIN cases : cases[i].arm = label}}
        else == {i \in DOMAIN arms : arms[i].label = default}
        link(chain, i) ==
            IF i \in else THEN chain
            ELSE <<When(Condition(at, keys(arms[i].label), FALSE), CHOOSE b \in body[i] : TRUE, chain)>>
        last == IF else = {} THEN <<>> ELSE CHOOSE b \in body[Min(else)] : TRUE
    IN  IF Len(cases) > ChainMax \/ \E i \in DOMAIN arms : body[i] = {} THEN {}
        ELSE {FoldLeft(link, last, Reverse([i \in DOMAIN arms |-> i]))}
-----------------------------------------------------------------------------
(* The builder: what a statement became, and the next fresh label. *)
Made(out, next) == [out |-> out, next |-> next]

BreakUnless(cond) == When(Negate(cond), <<BreakS>>, <<>>)

(* convert_condition: what goes before the condition, and the condition. *)
Before(s, at) == IF s.asks = "stmts" THEN <<CallS(at)>> ELSE <<>>
Asks(s, at)   == Condition(at, {1}, s.asks = "value")

(* Where a break goes: out of a loop, or to the end of a switch. *)
OfLoop == -1

(* The do loops whose condition is a constant. *)
Forever(s) == s.kind = "do" /\ s.asks = "true"
Once(s)    == s.kind = "do" /\ s.asks = "false"

StepOf(s, at) == IF s.kids[2].kind = "expr" THEN <<CallS(Append(at, 2))>> ELSE <<>>

(* Mutant of ContinueOf: a `for` loop's step is not repeated.              *)
ContinueWithoutStep(loop) == <<ContinueS>>

(* A continue of the innermost loop [s, at]. *)
ContinueOf(loop) ==
    CASE loop.s.kind = "while" \/ Forever(loop.s) -> <<ContinueS>>
      [] loop.s.kind = "for" -> StepOf(loop.s, loop.at) \o <<ContinueS>>
      [] Once(loop.s) -> <<BreakS>>
      [] OTHER -> Before(loop.s, loop.at) \o <<BreakUnless(Asks(loop.s, loop.at)), ContinueS>>

RECURSIVE Make(_, _, _, _, _), MakeList(_, _, _, _, _), Peeled(_, _, _)

(* Statements in sequence, each [s, at]. *)
MakeList(list, brk, loop, next, out) ==
    IF list = <<>> THEN Made(out, next)
    ELSE LET first == Make(Head(list).s, Head(list).at, brk, loop, next)
         IN  MakeList(Tail(list), brk, loop, first.next, out \o first.out)

Kids(s, at) == [i \in DOMAIN s.kids |-> [s |-> s.kids[i], at |-> Append(at, i)]]

Branch(s, at, then, else) ==
    CASE s.asks = "true" -> then
      [] s.asks = "false" -> else
      [] s.asks \notin {"true", "false"} /\ then = <<>> /\ else = <<>> ->
            IF s.asks = "value" THEN <<CallS(at)>> ELSE <<>>
      [] s.asks \notin {"true", "false"} /\ then = <<>> /\ else # <<>> -> <<When(Negate(Asks(s, at)), else, <<>>)>>
      [] OTHER -> <<When(Asks(s, at), then, else)>>

MakeIf(s, at, brk, loop, next) ==
    LET then == Make(s.kids[1], Append(at, 1), brk, loop, next)
        else == Make(s.kids[2], Append(at, 2), brk, loop, then.next)
    IN  Made(Before(s, at) \o Branch(s, at, then.out, else.out), else.next)

(* A while or for loop around its body, with what runs before each test. *)
Headed(s, at, body) ==
    CASE s.asks \in {"none", "true"} -> <<While(Always, body)>>
      [] s.asks = "false" -> <<>>
      [] s.asks \in {"data", "value"} -> <<While(Asks(s, at), body)>>
      [] s.asks = "stmts" -> <<While(Always, Before(s, at) \o <<BreakUnless(Asks(s, at))>> \o body)>>

Trailed(s, at, body) ==
    CASE Once(s) /\ ~LeavesLoop(body) -> body
      [] Once(s) /\ LeavesLoop(body) -> <<While(Always, Append(body, BreakS))>>
      [] Forever(s) -> <<While(Always, body)>>
      [] OTHER -> <<While(Always, body \o Before(s, at) \o <<BreakUnless(Asks(s, at))>>)>>

MakeLoop(s, at, brk, loop, next) ==
    LET body(from) == Make(Last(s.kids), Append(at, Len(s.kids)), OfLoop, [s |-> s, at |-> at], from)
        init == IF s.kind = "for" THEN Make(s.kids[1], Append(at, 1), brk, loop, next) ELSE Made(<<>>, next)
        made == body(init.next)
    IN  CASE s.kind = "while" -> Made(Headed(s, at, made.out), made.next)
          [] s.kind = "for" -> Made(init.out \o Headed(s, at, made.out \o StepOf(s, at)), made.next)
          [] s.kind = "do" -> Made(Trailed(s, at, made.out), made.next)

(* The labels of one arm, and the statement under them. *)
Peeled(s, at, values) ==
    IF Labelling(s) THEN Peeled(s.kids[1], Append(at, 1), Append(values, s)) ELSE [s |-> s, at |-> at, labels |-> values]

(* The arms so far: their labels and statements, the cases, the default.   *)
AddArm(acc, kid, end, loop) ==
    LET peeled == Peeled(kid.s, kid.at, <<>>)
        label == acc.next
        opens == peeled.labels # <<>>
        cases == SelectSeq(peeled.labels, LAMBDA s : s.kind = "case")
        arms == IF opens THEN Append(acc.arms, [label |-> label, out |-> <<>>]) ELSE acc.arms
        made == Make(peeled.s, peeled.at, end, loop, IF opens THEN label + 1 ELSE label)
    IN  [arms |-> [arms EXCEPT ![Len(arms)].out = @ \o made.out],
         cases |-> acc.cases \o [i \in DOMAIN cases |-> [value |-> cases[i].n, arm |-> label]],
         default |-> IF Len(cases) < Len(peeled.labels) THEN label ELSE acc.default,
         next |-> made.next]

(* The region of a switch: the dispatch, each arm behind its label. *)
Region(at, cases, default, arms, end) ==
    <<Dispatch(at, cases, IF default = OfLoop THEN end ELSE default)>>
        \o FlattenSeq([i \in DOMAIN arms |-> <<LabelS(arms[i].label)>> \o arms[i].out])
        \o <<LabelS(end)>>

MakeSwitch(s, at, loop, next) ==
    LET kids == IF s.kids[1].kind = "block" THEN Kids(s.kids[1], Append(at, 1)) ELSE Kids(s, at)
        none == [arms |-> <<>>, cases |-> <<>>, default |-> OfLoop, next |-> next + 1]
        acc == FoldLeft(LAMBDA a, kid : AddArm(a, kid, next, loop), none, kids)
        chain == SwitchChain(at, acc.cases, acc.default, acc.arms, next)
        out == IF chain # {} THEN CHOOSE c \in chain : TRUE
               ELSE Region(at, acc.cases, acc.default, acc.arms, next)
    IN  Made((IF s.asks \in {"value", "stmts"} THEN <<CallS(at)>> ELSE <<>>) \o out, acc.next)

Make(s, at, brk, loop, next) ==
    CASE s.kind = "block" -> MakeList(Kids(s, at), brk, loop, next, <<>>)
      [] s.kind = "label" -> Make(s.kids[1], Append(at, 1), brk, loop, next)
      [] s.kind = "expr" -> Made(<<CallS(at)>>, next)
      [] s.kind = "return" ->
            Made((IF s.asks \in {"value", "stmts"} THEN <<CallS(at)>> ELSE <<>>)
                 \o <<EndS(IF s.n = 0 THEN "return" ELSE "value")>>, next)
      [] s.kind = "if" -> MakeIf(s, at, brk, loop, next)
      [] s.kind \in {"while", "do", "for"} -> MakeLoop(s, at, brk, loop, next)
      [] s.kind = "switch" -> MakeSwitch(s, at, loop, next)
      [] s.kind = "break" -> Made(IF brk = OfLoop THEN <<BreakS>> ELSE <<GotoS(brk)>>, next)
      [] s.kind = "continue" -> Made(ContinueOf(loop), next)

-----------------------------------------------------------------------------
(* What falling off the end of a list means: "void" and "value" at the top *)
(* of the function, "loop" in a loop's body, "unknown" in an `if` arm with *)
(* statements behind it.  An internal error is a statement of its own.     *)
Broken == [op |-> "broken", n |-> 0]

DanglingLabels(list, ctx) ==
    LET live == IF ctx = "void" /\ list # <<>> /\ Last(list).op = "return" THEN Len(list) - 1 ELSE Len(list)
        last == Max({0} \cup {i \in 1 .. live : ~IsLabel(list[i])})
    IN  Labels(SubSeq(list, last + 1, live))

(* A list with labels of its own and a jump to one outside. *)
JumpsOut(list) == Labels(list) # {} /\ ~(JumpTargets(list) \subseteq Range(LabelOrder(list)))

SpliceIf(s, next) ==
    IF s.else = <<>>
    THEN <<When(Negate(s.n), <<GotoS(next)>>, <<>>)>> \o s.then \o <<LabelS(next)>>
    ELSE <<When(Negate(s.n), <<GotoS(next + 1)>>, <<>>)>>
         \o s.then \o (IF EndsIn(s.then) THEN <<>> ELSE <<GotoS(next)>>)
         \o <<LabelS(next + 1)>> \o s.else \o <<LabelS(next)>>

ExitOf(ctx) == IF ctx = "loop" THEN Again ELSE Leave
ExitS(exit) == IF exit = Again THEN ContinueS ELSE EndS("return")

(* Every jump to one of the labels becomes the exit. *)
RECURSIVE Retarget(_, _, _), Resolve(_, _, _)
Retarget(list, labels, exit) ==
    LET to(t) == IF t \in labels THEN exit ELSE t
    IN  [i \in DOMAIN list |->
            LET s == list[i]
            IN  CASE s.op = "goto" /\ s.n \in labels -> ExitS(exit)
                  [] s.op = "dispatch" ->
                        [s EXCEPT !.default = to(@),
                                  !.cases = [k \in DOMAIN @ |-> [@[k] EXCEPT !.arm = to(@)]]]
                  [] s.op = "when" ->
                        [s EXCEPT !.then = Retarget(@, labels, exit), !.else = Retarget(@, labels, exit)]
                  [] s.op = "while" /\ JumpTargets(s.then) \cap labels # {} -> Broken
                  [] OTHER -> s]

(* Does only what falling off the list means anyway follow the statement?  *)
EndsTheList(list, i, ctx) ==
    LET rest == SubSeq(list, i + 1, Len(list))
    IN  \/ rest = <<>>
        \/ Len(rest) = 1 /\ <<ctx, Head(rest).op>> \in {<<"void", "return">>, <<"loop", "continue">>}

(* One statement of a list that is being resolved: an `if` whose arm is    *)
(* still left with a label that no statement follows is spliced.           *)
ResolveStatement(s, arm, next) ==
    CASE s.op = "when" ->
            LET then == Resolve(s.then, arm, next)
                else == Resolve(s.else, arm, then.next)
                if == When(s.n, then.out, else.out)
            IN  IF then.dangles \/ else.dangles \/ JumpsOut(then.out) \/ JumpsOut(else.out)
                THEN Made(SpliceIf(if, else.next), else.next + (IF else.out = <<>> THEN 1 ELSE 2))
                ELSE Made(<<if>>, else.next)
      [] s.op = "while" ->
            LET body == Resolve(s.then, "loop", next)
            IN  Made(<<IF body.dangles THEN Broken ELSE While(s.n, body.out)>>, body.next)
      [] OTHER -> Made(<<s>>, next)

Resolve(list, ctx, next) ==
    LET step(acc, i) ==
            LET made == ResolveStatement(list[i], IF EndsTheList(list, i, ctx) THEN ctx ELSE "unknown", acc.next)
            IN  Made(acc.out \o made.out, made.next)
        all == FoldLeftDomain(step, Made(<<>>, next), list)
        dangling == DanglingLabels(all.out, ctx)
        kept == SelectSeq(all.out, LAMBDA s : ~(IsLabel(s) /\ s.n \in dangling))
    IN  [ next |-> all.next,
          dangles |-> dangling # {} /\ ctx = "unknown",
          out |-> CASE dangling = {} \/ ctx = "unknown" -> all.out
                    [] dangling # {} /\ ctx = "value" -> Append(all.out, Broken)
                    [] OTHER -> Retarget(kept, dangling, ExitOf(ctx)) ]

(* Resolved and cleaned until no label comes or goes. *)
RECURSIVE Settled(_, _, _, _)
Settled(list, ctx, next, times) ==
    LET resolved == Resolve(list, ctx, next)
        clean == Cleanup(resolved.out)
    IN  CASE resolved.dangles -> Made(<<Broken>>, resolved.next)
          [] ~resolved.dangles /\ (times = 1 \/ Len(LabelOrder(clean)) = Len(LabelOrder(list))) ->
                Made(clean, resolved.next)
          [] OTHER -> Settled(clean, ctx, resolved.next, times - 1)
-----------------------------------------------------------------------------
(* early_exit: an `if` daslang takes for one. *)
ExitsEarly(s) ==
    /\ s.op = "when" /\ s.else = <<>> /\ s.then # <<>>
    /\ \/ Last(s.then).op \in {"break", "continue"} \/ IsReturn(Last(s.then))
       \/ /\ Last(s.then).op = "dispatch"
          /\ \E t \in {c.arm : c \in Range(Last(s.then).cases)} \cup {Last(s.then).default} : t < 0

CrossedExit(list, k) ==
    LET above == SubSeq(list, 1, k)
        below == SubSeq(list, k + 1, Len(list))
    IN  /\ ExitsEarly(list[k])
        /\ \/ JumpTargets(below) \cap Labels(above) # {} /\ Labels(below) # {}
           \/ JumpTargets(above) \cap Labels(below) # {}

(* Mutant of Crossing: exits stay where they are.                          *)
NoneCrossing(list) == {}

Crossing(list) == {k \in DOMAIN list : CrossedExit(list, k)}

(* The place for an arm: before a label and after what transfers. *)
SlotFor(list, k) ==
    LET slots == {p \in 2 .. Len(list) : Terminates(list[p - 1]) /\ IsLabel(list[p])}
        below == {p \in slots : p > k}
        above == {p \in slots : p < k}
    IN  CASE below # {} -> Min(below)
          [] below = {} /\ above # {} -> Min(above)
          [] OTHER -> 0

(* out_of_line: the lists below first, then every crossed exit. *)
RECURSIVE OutOfLine(_, _), MovedOut(_, _)
MovedOut(list, next) ==
    LET k == Min(Crossing(list))
        jumping == [list EXCEPT ![k].then = <<GotoS(next)>>]
        arm == <<LabelS(next)>> \o list[k].then
        p == SlotFor(jumping, k)
    IN  IF Crossing(list) = {} THEN Made(list, next)
        ELSE IF p = 0 THEN MovedOut(<<GotoS(next + 1)>> \o arm \o <<LabelS(next + 1)>> \o jumping, next + 2)
        ELSE MovedOut(SubSeq(jumping, 1, p - 1) \o arm \o SubSeq(jumping, p, Len(list)), next + 1)

OutOfLine(list, next) ==
    LET step(acc, s) ==
            IF ~Nested(s) THEN Made(Append(acc.out, s), acc.next)
            ELSE LET then == OutOfLine(s.then, acc.next)
                     else == OutOfLine(s.else, then.next)
                 IN  Made(Append(acc.out, [s EXCEPT !.then = then.out, !.else = else.out]), else.next)
        below == FoldLeft(step, Made(<<>>, next), list)
    IN  MovedOut(below.out, below.next)

(* check_list: a jump reaches the innermost list around it with labels,    *)
(* but leaves no loop.                                                     *)
RECURSIVE Checked(_, _, _)
Checked(list, inherited, ctx) ==
    LET scope == IF Labels(list) = {} THEN inherited ELSE Labels(list)
    IN  /\ DanglingLabels(list, ctx) = {}
        /\ Crossing(list) = {}
        /\ \A i \in DOMAIN list :
              /\ list[i].op # "broken"
              /\ list[i].op = "goto" => list[i].n \in scope
              /\ list[i].op = "dispatch" => TargetsOf(list[i]) \subseteq scope
              /\ list[i].op = "when" => Checked(list[i].then, scope, "unknown") /\ Checked(list[i].else, scope, "unknown")
              /\ list[i].op = "while" => Checked(list[i].then, {}, "loop")

(* The tree of a function, or <<>> if it is refused. *)
Context(f) == IF f.returns = "void" THEN "void" ELSE "value"

Closing(f) ==
    EndS(CASE f.returns = "void" -> "return" [] f.returns = "main" -> "value" [] f.returns = "value" -> "trap")

Sound(tree, ctx) == IF Checked(tree, {}, ctx) /\ IsInjective(LabelOrder(tree)) THEN tree ELSE <<>>

Untangled(made, ctx) == Sound(OutOfLine(made.out, made.next).out, ctx)

Resolved(f, body) == Settled(Cleanup(Append(body.out, Closing(f))), Context(f), body.next, 16)

Lowered(f) ==
    Untangled(Resolved(f, Make(f.body, <<>>, OfLoop, [s |-> f.body, at |-> <<>>], 0)), Context(f))

-----------------------------------------------------------------------------
(* The renderer: the dispatches in order, their trees, and the numbers of  *)
(* labels: first those that are named, then the arms of every table.       *)
RECURSIVE Dispatches(_), GotoTargets(_), Printed(_, _, _, _)
Dispatches(list) ==
    FlattenSeq([i \in DOMAIN list |->
        CASE list[i].op = "dispatch" -> <<list[i]>>
          [] Nested(list[i]) -> Dispatches(list[i].then) \o Dispatches(list[i].else)
          [] OTHER -> <<>>])

GotoTargets(list) ==
    UNION {CASE list[i].op = "goto" -> {list[i].n}
             [] Nested(list[i]) -> GotoTargets(list[i].then) \cup GotoTargets(list[i].else)
             [] OTHER -> {} : i \in DOMAIN list}

TreeOf(s) == Tree(s.cases, s.default, "int")

(* A jump of a dispatch may be an exit. *)
JumpS(n) == CASE n = Leave -> EndS("return") [] n = Again -> ContinueS [] n >= 0 -> GotoS(n)

(* Mutant of Trampolines: the labels are counted from one.                 *)
TrampolinesFromOne(arms, base) ==
    FlattenSeq([k \in DOMAIN arms |-> IF arms[k] < 0 THEN <<LabelS(base + k), ExitS(arms[k])>> ELSE <<>>])

(* A table's arms that are exits get their labels right behind it. *)
Trampolines(arms, base) ==
    LET of(exit) == SelectSeq([k \in DOMAIN arms |-> k], LAMBDA k : arms[k] = exit)
        exits == SetToSortSeq({arms[k] : k \in DOMAIN arms} \cap {Leave, Again},
                              LAMBDA a, b : Min({k \in DOMAIN arms : arms[k] = a}) < Min({k \in DOMAIN arms : arms[k] = b}))
    IN  FlattenSeq([e \in DOMAIN exits |->
            [i \in DOMAIN of(exits[e]) |-> LabelS(base + of(exits[e])[i] - 1)] \o <<ExitS(exits[e])>>])

(* number: of a named label; arms: every table's; bases: of a dispatch.    *)
Printed(list, number, arms, bases) ==
    FlattenSeq([i \in DOMAIN list |->
        LET s == list[i]
        IN  CASE IsLabel(s) ->
                    (IF s.n \in DOMAIN number THEN <<LabelS(number[s.n])>> ELSE <<>>)
                    \o [k \in DOMAIN SelectSeq(arms, LAMBDA a : a.arm = s.n) |->
                            LabelS(SelectSeq(arms, LAMBDA a : a.arm = s.n)[k].label)]
              [] s.op = "goto" -> <<GotoS(number[s.n])>>
              [] Nested(s) -> <<[s EXCEPT !.then = Printed(@, number, arms, bases),
                                          !.else = Printed(@, number, arms, bases)]>>
              [] s.op = "dispatch" ->
                    LET tail == [tree |-> Renamed(TreeOf(s), number), first |-> bases[s.n], else |-> number[s.default]]
                        tests == TailStatements(s.n, tail)
                    IN  [k \in DOMAIN tests |-> IF tests[k].op = "goto" THEN JumpS(tests[k].n) ELSE tests[k]]
                        \o Trampolines(TableLabels(TreeOf(s)), bases[s.n])
              [] OTHER -> <<s>>])

Numbers(tree, dispatches) ==
    LET jumped == GotoTargets(tree)
                  \cup UNION {NamedArms(TreeOf(d)) \cup {d.default} : d \in Range(dispatches)}
        named == SelectSeq(LabelOrder(tree), LAMBDA n : n \in jumped)
    IN  [n \in Range(named) \cup {Leave, Again} |->
            IF n < 0 THEN n ELSE (CHOOSE i \in DOMAIN named : named[i] = n) - 1]

WithNumbers(tree, dispatches, number) ==
    LET named == Cardinality(DOMAIN number) - 2
        arms == FlattenSeq([k \in DOMAIN dispatches |-> TableLabels(TreeOf(dispatches[k]))])
        before(k) == FlattenSeq([j \in 1 .. k - 1 |-> TableLabels(TreeOf(dispatches[j]))])
        bases == [at \in {d.n : d \in Range(dispatches)} |->
                    named + Len(before(CHOOSE k \in DOMAIN dispatches : dispatches[k].n = at))]
    IN  Printed(tree, number, [k \in DOMAIN arms |-> [label |-> named + k - 1, arm |-> arms[k]]], bases)

(* stmts_return: does daslang see a list return? *)
RECURSIVE Returns(_)
Returns(list) ==
    LET returns(s) == IsReturn(s) \/ (s.op = "while" /\ Returns(s.then))
                      \/ (s.op = "when" /\ s.else # <<>> /\ Returns(s.then) /\ Returns(s.else))
        leaves(s) == s.op \in {"break", "continue", "goto"}
    IN  \/ Labels(list) # {}
        \/ \E i \in DOMAIN list : returns(list[i]) /\ \A j \in 1 .. i - 1 : ~leaves(list[j])

(* A function with a value ends on a return daslang sees. *)
EndedFor(returns, list) ==
    IF returns = "void" \/ Returns(list) THEN list
    ELSE list \o (IF list # <<>> /\ Last(list).op \in {"call", "trap"} THEN <<>>
                  ELSE <<EndS(IF returns = "main" THEN "value" ELSE "trap")>>)
              \o <<EndS("value")>>

(* convert; <<>> if the function is refused. *)
Render(tree, dispatches) == WithNumbers(tree, dispatches, Numbers(tree, dispatches))

Ended(returns, tree) ==
    IF tree = <<>> THEN <<>> ELSE EndedFor(returns, Render(tree, Dispatches(tree)))

Structure(f) == Ended(f.returns, Lowered(f))
=============================================================================
