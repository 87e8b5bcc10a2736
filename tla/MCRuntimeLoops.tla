--------------------------- MODULE MCRuntimeLoops ----------------------------
(* One run of the three machines that are a loop each: a call of a byte       *)
(* function, of the heap's search or scan, or a dispatch.  The bytes: every   *)
(* call on every memory of five bytes of two values, the chunk and the int    *)
(* scaled down so that a count needs up to three chunks and would not fit     *)
(* the int.  The search: every table of at most four records over five        *)
(* addresses, every order of its free list, arguments that hit, miss and fall *)
(* between.  The dispatch: constants of both signs and both ends of the       *)
(* types, some of which the conversion wraps.                                 *)
EXTENDS RuntimeBytes, RuntimeSearch, SwitchSearch, FiniteSetsExt, SequencesExt

CONSTANT MaxCases       \* bound: the cases of a switch

TwoBytes      == {0, 1}
SomeAddresses == {1, 2, 4, 5, 8}
SomeSizes     == {1, 2, 3}
SomeArguments == 0 .. 9
SomeConstants == {-16, -15, -1, 0, 1, 3, 14, 15, 18}

VARIABLE machine        \* bytes, search or switch

MostRecords == 4

TablesOf(n) ==
    {[r \in 1 .. n |-> [addr |-> SetToSortSeq(as, <)[r], size |-> s[r], live |-> l[r]]] :
        as \in kSubset(n, SomeAddresses), s \in [1 .. n -> SomeSizes], l \in [1 .. n -> BOOLEAN]}

CallOfSearch ==
    \E n \in 0 .. MostRecords :
        \E r \in {s \in TablesOf(n) : SortedRecs([recs |-> s])} :
            LET freed == {k \in 1 .. n : ~r[k].live}
            IN  \E f \in SetToSeqs(freed), t \in {"find", "take"}, a \in SomeArguments :
                    IsCall(r, f, t, a) /\ Starts(r, f, t, a)

CallOfSwitch ==
    \E set \in UNION {kSubset(n, SomeConstants) : n \in 0 .. MaxCases}, t \in Types :
        LET values == SetToSortSeq(set, <)
        IN  IsSwitch(values, t) /\ Dispatches(values, t) /\ x \in Lowest(t) .. Highest(t)

NoBytes ==
    /\ call = [fn |-> "memchr", dst |-> 1, src |-> 1, count |-> 0, value |-> 0]
    /\ i = 0 /\ mem = [a \in Addr |-> 0] /\ was = mem /\ ret = Null /\ pc = "ready"
NoSearch == Starts(<<>>, <<>>, "find", 0)
NoSwitch == Dispatches(<<>>, "int") /\ x = 0

LoopsInit ==
    \/ machine = "bytes"  /\ NoSearch /\ NoSwitch /\ Init
    \/ machine = "search" /\ NoBytes /\ NoSwitch /\ CallOfSearch
    \/ machine = "switch" /\ NoBytes /\ NoSearch /\ CallOfSwitch

LoopsNext ==
    /\ machine' = machine
    /\ \/ machine = "bytes"  /\ Next /\ UNCHANGED <<searchVars, switchVars>>
       \/ machine = "search" /\ SearchNext /\ UNCHANGED <<vars, switchVars>>
       \/ machine = "switch" /\ SwitchNext /\ UNCHANGED <<vars, searchVars>>

LoopsSpec == LoopsInit /\ [][LoopsNext]_<<machine, vars, searchVars, switchVars>>
=============================================================================
