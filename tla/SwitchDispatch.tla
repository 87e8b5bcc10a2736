--------------------------- MODULE SwitchDispatch ---------------------------
(***************************************************************************)
(* How the flat back end finds the arm of a C switch (cfg/labels.rs,       *)
(* DispatchTree): the case constants, converted to the promoted type of    *)
(* the scrutinee and sorted, become equality tests when they are few, one  *)
(* computed goto when they are dense, and a search tree otherwise.  An arm *)
(* is whatever the caller puts there; a table's arms are reached through   *)
(* consecutive label numbers, and the tables of a tree take theirs one     *)
(* after the other.                                                        *)
(***************************************************************************)
EXTENDS Integers, Sequences, FiniteSets

CONSTANTS
    TestsMax,       \* the longest run of equality tests: 4
    SpanPerCase,    \* a table is at most this many values per case: 2
    IntModulus,     \* how many values an int or uint has: 2^32
    LongModulus     \* how many an int64 or uint64 has: 2^64

ASSUME DispatchAssumption ==
    /\ TestsMax \in Nat \ {0} /\ SpanPerCase \in Nat \ {0}
    /\ IntModulus \in Nat \ {0} /\ LongModulus \in Nat /\ LongModulus > IntModulus

Types == {"int", "uint", "int64", "uint64"}

Modulus(type) == IF type \in {"int", "uint"} THEN IntModulus ELSE LongModulus
Lowest(type)  == IF type \in {"int", "int64"} THEN -(Modulus(type) \div 2) ELSE 0
Highest(type) == Lowest(type) + Modulus(type) - 1

(* A conversion to a type, and arithmetic in it. *)
Wrap(n, type) == Lowest(type) + ((n - Lowest(type)) % Modulus(type))

(* A case as the program writes it: its constant and its arm. *)
Key(case, type) == Wrap(case.value, type)

(* Two cases of one converted value are refused. *)
Distinct(cases, type) ==
    \A i, j \in DOMAIN cases : Key(cases[i], type) = Key(cases[j], type) => i = j

KeyedCase == [key : Int, arm : Int]

(* The sort is stable: a case comes after those with a lower key, and after *)
(* those of the same key that the program writes first.                    *)
Rank(keys, i) ==
    Cardinality({j \in DOMAIN keys : keys[j] < keys[i] \/ (keys[j] = keys[i] /\ j <= i)})

Sorted(cases, type) ==
    LET keys  == [i \in DOMAIN cases |-> Key(cases[i], type)]
        ranks == [i \in DOMAIN cases |-> Rank(keys, i)]
        At(k) == CHOOSE i \in DOMAIN cases : ranks[i] = k
    IN  [k \in DOMAIN cases |-> [key |-> keys[At(k)], arm |-> cases[At(k)].arm]]

-----------------------------------------------------------------------------
(* The nodes of a tree, each with the arms of its tables in order.         *)
Tests(cases) == [kind |-> "tests", cases |-> cases, labels |-> <<>>]

LowKey(cases)  == cases[1].key
HighKey(cases) == cases[Len(cases)].key
Span(cases)    == HighKey(cases) - LowKey(cases) + 1

ArmOf(cases, key, default) ==
    IF \E i \in DOMAIN cases : cases[i].key = key
    THEN cases[CHOOSE i \in DOMAIN cases : cases[i].key = key].arm ELSE default

Table(cases, default) ==
    [kind |-> "table", low |-> LowKey(cases), high |-> HighKey(cases),
     labels |-> [i \in 1 .. Span(cases) |-> ArmOf(cases, LowKey(cases) + i - 1, default)]]

Dense(cases) == Span(cases) <= SpanPerCase * Len(cases)

SplitNode(pivot, below, above) ==
    [kind |-> "split", pivot |-> pivot, below |-> below, above |-> above,
     labels |-> below.labels \o above.labels]

(* Mutant of Build: the pivot goes below itself. *)
BuildPivotBelow(cases, default) ==
    LET build[s \in Seq(KeyedCase)] ==
            IF Len(s) <= TestsMax THEN Tests(s)
            ELSE IF Dense(s) THEN Table(s, default)
            ELSE LET middle == Len(s) \div 2
                 IN  SplitNode(s[middle].key, build[SubSeq(s, 1, middle)],
                               build[SubSeq(s, middle + 1, Len(s))])
    IN  build[cases]

(* DispatchTree::build, of sorted cases. *)
Build(cases, default) ==
    LET build[s \in Seq(KeyedCase)] ==
            IF Len(s) <= TestsMax THEN Tests(s)
            ELSE IF Dense(s) THEN Table(s, default)
            ELSE LET middle == Len(s) \div 2
                 IN  SplitNode(s[middle + 1].key, build[SubSeq(s, 1, middle)],
                               build[SubSeq(s, middle + 1, Len(s))])
    IN  build[cases]

Tree(cases, default, type) == Build(Sorted(cases, type), default)

-----------------------------------------------------------------------------
(* The arms that the label numbers of a tree's tables lead to: `first` and *)
(* what follows it.  The tables below a pivot are numbered first.          *)
TableLabels(tree) == tree.labels

Side(tree, x) == IF x < tree.pivot THEN tree.below ELSE tree.above

FirstOfSide(tree, first, x) ==
    IF x < tree.pivot THEN first ELSE first + Len(TableLabels(tree.below))

(* table_bounds_test: the lower bound is not tested when nothing is below. *)
InTable(table, x, type) ==
    (x >= table.low \/ (type \in {"uint", "uint64"} /\ table.low = 0)) /\ x <= table.high

(* table_label_number: one addition for an int whose constant is an int,   *)
(* else the offset in the dispatch type, converted, plus the base.         *)
TableNumber(table, base, x, type) ==
    LET constant == base - table.low
    IN  IF type = "int" /\ Wrap(constant, "int") = constant
        THEN Wrap(x + constant, "int")
        ELSE Wrap(Wrap(Wrap(x - table.low, type), "int") + base, "int")
=============================================================================
