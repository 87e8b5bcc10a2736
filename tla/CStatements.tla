---------------------------- MODULE CStatements ----------------------------
(***************************************************************************)
(* What C says a function body does: the abstract side of both back ends.  *)
(* A statement is a tree, and a statement in a function is named by its    *)
(* path, the numbers of the kids that lead to it.  Visible are the calls:  *)
(* of expression statements, and of the conditions that have one.  A       *)
(* condition reads a variable, and a call may change them all at will.     *)
(***************************************************************************)
EXTENDS Integers, Sequences, SequencesExt

CONSTANTS
    Names,      \* the variables conditions read
    Outcomes    \* their values

VARIABLES
    function,   \* what it returns, and its body
    did,        \* the last visible thing; turn tells it from the one before
    data        \* the value of each variable

vars == <<function, did, data>>

(* n is a case's key, a label's name, the variable a condition reads, 1    *)
(* for the return of a value; `asks` is what a condition is: "data", a constant "true" or "false", "value"   *)
(* if its value makes the call, "stmts" if statements before it do, "none" *)
(* for a `for` without one.  A return may make a call too.  The kids of a  *)
(* `for` are <<init, step, body>>, of an `if` <<then, else>>; `Empty`      *)
(* stands for none.                                                        *)
Stmt(kind, kids) == [kind |-> kind, kids |-> kids, n |-> 0, asks |-> "none"]
Asking(kind, asks, kids) == [Stmt(kind, kids) EXCEPT !.asks = asks]
Named(kind, n, kids) == [Stmt(kind, kids) EXCEPT !.n = n]
Empty == Stmt("block", <<>>)

Loops == {"while", "do", "for"}
Calling == {"value", "stmts"}

At(f, p) == FoldLeft(LAMBDA s, i : s.kids[i], f.body, p)

RECURSIVE Paths(_, _)
Paths(s, p) == {p} \cup UNION {Paths(s.kids[i], Append(p, i)) : i \in DOMAIN s.kids}

(* The innermost statement of these kinds around a path. *)
Around(f, p, kinds) ==
    LET inside == {k \in 0 .. Len(p) - 1 : At(f, SubSeq(p, 1, k)).kind \in kinds}
    IN  SubSeq(p, 1, CHOOSE k \in inside : \A j \in inside : j <= k)

(* The cases of a switch: not those of a switch inside it. *)
CasesOf(f, p) ==
    {q \in Paths(At(f, p), p) :
        /\ At(f, q).kind \in {"case", "default"}
        /\ Around(f, q, {"switch"}) = p}

(* What the condition at p finds. *)
Finds(f, d, p) ==
    LET s == At(f, p)
        x == d[s.n]
    IN  CASE s.asks \in {"true", "none"} -> 1
          [] s.asks = "false" -> 0
          [] s.asks \in Calling \cup {"data"} -> IF s.kind # "switch" /\ x # 0 THEN 1 ELSE x

Data == [Names -> Outcomes]

-----------------------------------------------------------------------------
(* Where control is: at a statement, at a condition, at the test of a      *)
(* condition that has made its call, or at the end of the function.        *)
Point(part, at) == [part |-> part, at |-> at]

Asked(p) == Point("cond", p)

(* Where control goes when the statement at p is done. *)
RECURSIVE Done(_, _)
Done(f, p) ==
    IF p = <<>> THEN Point("end", p)
    ELSE LET q == Front(p)
             s == At(f, q)
         IN  CASE s.kind = "block" /\ Last(p) < Len(s.kids) -> Point("at", Append(q, Last(p) + 1))
               [] s.kind = "for" /\ Last(p) = 3 -> Point("at", Append(q, 2))
               [] s.kind \in {"while", "do"} \/ (s.kind = "for" /\ Last(p) < 3) -> Asked(q)
               [] OTHER -> Done(f, q)

Continued(f, q) == IF At(f, q).kind = "for" THEN Point("at", Append(q, 2)) ELSE Asked(q)

Labelled(f, n) == CHOOSE p \in Paths(f.body, <<>>) : At(f, p).kind = "label" /\ At(f, p).n = n

(* One silent step of control. *)
FromStatement(f, p) ==
    LET s == At(f, p)
    IN  CASE s.kind = "block" -> IF s.kids = <<>> THEN Done(f, p) ELSE Point("at", Append(p, 1))
          [] s.kind \in {"if", "switch", "while"} -> Asked(p)
          [] s.kind \in {"do", "for", "case", "default", "label"} -> Point("at", Append(p, 1))
          [] s.kind = "break" -> Done(f, Around(f, p, Loops \cup {"switch"}))
          [] s.kind = "continue" -> Continued(f, Around(f, p, Loops))
          [] s.kind = "goto" -> Point("at", Labelled(f, s.n))

Chosen(f, p, x) ==
    LET keyed == {q \in CasesOf(f, p) : At(f, q).kind = "case" /\ At(f, q).n = x}
        default == {q \in CasesOf(f, p) : At(f, q).kind = "default"}
    IN  CASE keyed # {} -> Point("at", CHOOSE q \in keyed : TRUE)
          [] keyed = {} /\ default # {} -> Point("at", CHOOSE q \in default : TRUE)
          [] keyed = {} /\ default = {} -> Done(f, p)

FromTest(f, p, d) ==
    LET s == At(f, p)
        holds == Finds(f, d, p) = 1
    IN  CASE s.kind = "switch" -> Chosen(f, p, Finds(f, d, p))
          [] s.kind = "if" -> Point("at", Append(p, IF holds THEN 1 ELSE 2))
          [] s.kind \in Loops -> IF holds THEN Point("at", Append(p, Len(s.kids))) ELSE Done(f, p)

Silently(f, point, d) ==
    IF point.part = "at" THEN FromStatement(f, point.at) ELSE FromTest(f, point.at, d)

-----------------------------------------------------------------------------
Calls(p)  == [what |-> "call", at |-> p, turn |-> 0]
Ends(how) == [what |-> how, at |-> <<>>, turn |-> 0]
Started   == Ends("started")

Returning == {"return", "value", "trap"}
Ended     == did.what \in Returning

(* How a function ends that ends without a return. *)
FallsOff(f) == CASE f.returns = "void" -> "return"
                 [] f.returns = "main" -> "value"
                 [] f.returns = "value" -> "trap"

HowReturned(s) == IF s.n = 0 THEN "return" ELSE "value"

(* The visible thing at a point, if there is one. *)
Visible(f, point) ==
    LET s == At(f, point.at)
    IN  CASE point.part = "end" -> {Ends(FallsOff(f))}
          [] point.part = "at" /\ s.kind = "expr" -> {Calls(point.at)}
          [] point.part = "at" /\ s.kind = "return" ->
                {IF s.asks \in Calling THEN Calls(point.at) ELSE Ends(HowReturned(s))}
          [] point.part = "test" /\ s.kind = "return" -> {Ends(HowReturned(s))}
          [] point.part = "cond" /\ s.asks \in Calling -> {Calls(point.at)}
          [] OTHER -> {}

(* The next visible thing from a point.  Control that has met every point  *)
(* without one goes round for ever.                                        *)
RECURSIVE Leading(_, _, _, _)
Leading(f, point, d, others) ==
    IF Visible(f, point) # {} THEN Visible(f, point)
    ELSE IF others = 0 THEN {}
    ELSE UNION {Leading(f, next, d, others - 1) : next \in {Silently(f, point, d)}}

Points(f) == 3 * Cardinality(Paths(f.body, <<>>))

Resumed(f, p) == IF At(f, p).kind = "expr" THEN Done(f, p) ELSE Point("test", p)

After(f, last, d) ==
    Leading(f, IF last.what = "started" THEN Point("at", <<>>) ELSE Resumed(f, last.at), d, Points(f))

Do ==
    /\ ~Ended
    /\ \E next \in After(function, did, data) : did' = [next EXCEPT !.turn = 1 - did.turn]
    /\ data' \in IF did'.what = "call" THEN Data ELSE {data}
    /\ UNCHANGED function

(* The function goes on for as long as it has something to do: this is     *)
(* WF_vars(Do), with what ENABLED comes to written out.                    *)
CanDo == ~Ended /\ After(function, did, data) # {}
Goes  == []<>(~CanDo) \/ []<><<Do>>_vars

Spec == did = Started /\ data \in Data /\ [][Do]_vars /\ Goes
=============================================================================
