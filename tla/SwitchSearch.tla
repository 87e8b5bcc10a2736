---------------------------- MODULE SwitchSearch ----------------------------
(***************************************************************************)
(* A dispatch as it runs (cfg/labels.rs, dispatch_stmts): a switch the     *)
(* translator accepts, a value of its scrutinee, and the comparisons that  *)
(* lead from the root of its tree to an arm, one step each.                *)
(***************************************************************************)
EXTENDS SwitchDispatch

CONSTANT NextId     \* the number of labels that have a name

ASSUME NextIdAssumption == NextId \in Nat

VARIABLES
    cases,      \* the switch, in source order; the i-th arm is i, default 0
    type,       \* its dispatch type
    x,          \* the value of its scrutinee
    node,       \* what is left of the tree
    first,      \* the first label number of the tables in it
    arm         \* where control went, Searching before

switchVars == <<cases, type, x, node, first, arm>>

Searching == -1
Default   == 0

WithArms(values) == [i \in DOMAIN values |-> [value |-> values[i], arm |-> i]]

Root == Tree(cases, Default, type)

(* What case labels say, before the conversion.  A function's labels have  *)
(* numbers that are ints: it has fewer than 2^31.                          *)
IsSwitch(values, t) ==
    /\ values \in Seq(Int) /\ t \in Types
    /\ Distinct(WithArms(values), t)
    /\ NextId + SpanPerCase * Len(values) <= Highest("int")

Dispatches(values, t) ==
    /\ cases = WithArms(values) /\ type = t
    /\ node = Root /\ first = NextId
    /\ arm = Searching

SwitchInit ==
    \E values \in Seq(Int), t \in Types :
        IsSwitch(values, t) /\ Dispatches(values, t) /\ x \in Lowest(t) .. Highest(t)

Continues(n, f) == arm' = arm /\ node' = n /\ first' = f
Reaches(a)      == arm' = a /\ node' = Tests(<<>>) /\ first' = first

Test ==
    /\ arm = Searching /\ node.kind = "tests" /\ node.cases # <<>>
    /\ IF Head(node.cases).key = x THEN Reaches(Head(node.cases).arm)
       ELSE Continues(Tests(Tail(node.cases)), first)
    /\ UNCHANGED <<cases, type, x>>

NoMatch ==
    /\ arm = Searching /\ node = Tests(<<>>)
    /\ Reaches(Default)
    /\ UNCHANGED <<cases, type, x>>

(* The labels of all tables are numbered from NextId on. *)
ArmAt(number) == TableLabels(Root)[number - NextId + 1]

Jump ==
    /\ arm = Searching /\ node.kind = "table"
    /\ Reaches(IF InTable(node, x, type) THEN ArmAt(TableNumber(node, first, x, type))
               ELSE Default)
    /\ UNCHANGED <<cases, type, x>>

Split ==
    /\ arm = Searching /\ node.kind = "split"
    /\ Continues(Side(node, x), FirstOfSide(node, first, x))
    /\ UNCHANGED <<cases, type, x>>

SwitchNext == Test \/ NoMatch \/ Jump \/ Split

SwitchSpec == SwitchInit /\ [][SwitchNext]_switchVars

-----------------------------------------------------------------------------
(* Control goes to the one case whose constant, converted to the promoted  *)
(* type, is the value, and to the default arm when there is none, in       *)
(* whatever shape the cases are tested.                                    *)
GoesToItsArm ==
    arm # Searching =>
        \/ \E i \in DOMAIN cases : Key(cases[i], type) = x /\ arm = i
        \/ arm = Default /\ \A i \in DOMAIN cases : Key(cases[i], type) # x
=============================================================================
