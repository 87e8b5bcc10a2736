------------------------- MODULE MCFunctionLowering -------------------------
(* Small C functions for FunctionLowering: what a loop, a switch and their *)
(* early exits can look like, each shape with every filling of its places. *)
EXTENDS FunctionLowering

Expr == C!Stmt("expr", <<>>)
Brk  == C!Stmt("break", <<>>)
Cont == C!Stmt("continue", <<>>)
Ret  == C!Stmt("return", <<>>)
Nil  == C!Empty
Block(s) == C!Stmt("block", s)
To(n) == C!Named("goto", n, <<>>)
On(n, s) == C!Named("label", n, <<s>>)
If(then, else) == [C!Asking("if", "data", <<then, else>>) EXCEPT !.n = 1]
Case(n, s) == C!Named("case", n, <<s>>)
Default(s) == C!Stmt("default", <<s>>)
Switch(arms) == C!Asking("switch", "data", <<Block(arms)>>)
Loop(kind, asks, body) == C!Asking(kind, asks, IF kind = "for" THEN <<Expr, Expr, body>> ELSE <<body>>)
Whilst(body) == Loop("while", "data", body)

(* A function that returns a value does so wherever it returns. *)
RECURSIVE Valued(_)
Valued(s) == [s EXCEPT !.n = IF s.kind = "return" THEN 1 ELSE @, !.kids = [i \in DOMAIN @ |-> Valued(@[i])]]

F(returns, list) ==
    [returns |-> returns, body |-> IF returns = "void" THEN Block(list) ELSE Valued(Block(list))]
Void(list) == F("void", list)

Kinds == {"while", "do", "for"}
Leaving == {Brk, Cont, Ret}
Arms == { Brk, If(Ret, Nil), Block(<<If(Brk, Nil), Expr>>), Block(<<If(Ret, Nil), Brk>>),
          Switch(<<Case(0, If(Brk, Nil)), Default(Expr)>>) }

Loops(kind, asks) ==
    {Void(<<Loop(kind, asks, Block(<<If(x, y), z>>)), Expr>>) : x \in Leaving, y \in {Nil, Cont}, z \in {Expr, Brk}}

Switches(returns) ==
    {F(returns, <<Switch(<<Case(0, x), y, Case(1, z), Default(w)>>)>>) :
        x \in Arms, y \in {Expr, Nil}, z \in Arms, w \in {Expr, Ret}}

LoopedSwitches(kind, asks) ==
    {Void(<<Loop(kind, asks, Block(<<Switch(<<Case(0, x), y, Case(4, z), Default(Cont)>>)>>)), Expr>>) :
        x \in Arms \cup {Cont}, y \in {Expr, Nil}, z \in {Brk, If(Cont, Nil)}}

(* Switches with nothing behind them: what they jump to may be an exit. *)
LastCases == {<<Case(0, x), Case(1, y), Default(z)>> : x \in {Expr, If(Brk, Nil)}, y \in {Expr, Nil}, z \in {Brk, Nil}}
    \cup {<<Default(x), Case(4, y)>> : x \in {Expr, If(Brk, Nil)}, y \in {Brk, Expr}}

LastSwitches ==
    {Void(<<s>>) : s \in UNION {{Switch(c), Whilst(Switch(c)), If(Switch(c), Expr)} : c \in LastCases}}

Nests ==
    {F(returns, <<Whilst(Block(<<Whilst(Loop(kind, "data", If(If(x, Expr), y))), z>>))>>) :
        returns \in {"void", "value"}, kind \in {"do", "for"}, x \in Leaving, y \in {Nil, Brk}, z \in {Expr, Cont}}

Jumps(returns) ==
    {F(returns, <<If(To(1), a), On(1, b), If(c, Nil), On(2, d)>>) :
        a \in {To(2), Ret, Nil}, b \in {Expr, Nil}, c \in {To(1), To(2), Ret}, d \in {Expr, Ret, Nil}}

JumpsIntoLoops(returns) ==
    {F(returns, <<If(To(1), Expr), Loop(kind, "stmts", Block(<<Expr, On(1, Nil), If(x, Nil)>>)), y>>) :
        kind \in Kinds, x \in Leaving \cup {To(1)}, y \in {Expr, Ret}}

JumpsOutOfSwitches ==
    {Void(<<On(1, Expr), Switch(<<Case(0, x), Case(1, y), Case(4, Expr), Default(z)>>), On(2, w)>>) :
        x \in {To(1), Brk}, y \in {Expr, To(2)}, z \in {To(1), Ret}, w \in {Expr, Nil}}

LoopsInSwitches ==
    {Void(<<C!Asking("switch", asks, <<Loop("do", "value", Block(<<Case(0, Expr), x, Case(1, y)>>))>>), Expr>>) :
        asks \in {"data", "value", "stmts"}, x \in {Expr, Brk, If(Cont, Nil)}, y \in {Expr, Brk}}

SmallFunctions ==
    {Loops(kind, asks) : kind \in Kinds, asks \in {"data", "value", "stmts", "true", "false"}} \cup {Loops("for", "none")}
        \cup {LoopedSwitches("while", "data"), LoopedSwitches("for", "value"), LoopedSwitches("do", "stmts")}
        \cup {Switches(returns) : returns \in {"void", "value"}}
        \cup {Jumps(returns) : returns \in {"void", "main"}}
        \cup {JumpsIntoLoops(returns) : returns \in {"void", "value"}}
        \cup {LastSwitches, Nests, JumpsOutOfSwitches, LoopsInSwitches}
=============================================================================
