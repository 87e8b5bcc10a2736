---------------------------- MODULE RuntimeSearch ----------------------------
(***************************************************************************)
(* The two loops of the raw heap, one iteration a step: the binary search  *)
(* of c2da_rt_find_record and the free-list scan of c2da_rt_take_free.     *)
(* RuntimeArena states what they compute as FindRecord, BestSlot and Reuse;*)
(* this module shows that the loops compute it, on any tables that satisfy *)
(* the invariants RuntimeHeap keeps.  The counters are the code's, from 0, *)
(* so record r of RuntimeArena is r - 1 here and no record is -1.          *)
(***************************************************************************)
EXTENDS RuntimeArena

VARIABLES
    recs,       \* the record columns
    free,       \* c2da_rt_alloc_free
    freeWas,    \* history: the free list when the function was called
    task,       \* find or take
    arg,        \* its argument: an address, or the bytes needed
    lo, hi,             \* the locals of find_record
    slot, best, bestSlot, \* the locals of take_free
    found,      \* what it returned
    at          \* running, done (the break left the loop), returned

searchVars == <<recs, free, freeWas, task, arg, lo, hi, slot, best, bestSlot, found, at>>

Tables == [recs |-> recs, free |-> free]
Called == [recs |-> recs, free |-> freeWas]

(* The tables RuntimeHeap keeps, and what its functions pass. *)
IsCall(r, f, t, a) ==
    /\ r \in Seq(Rec) /\ f \in Seq(DOMAIN r)
    /\ SortedRecs([recs |-> r]) /\ FreeExact([recs |-> r, free |-> f])
    /\ t \in {"find", "take"} /\ a \in Nat
    /\ t = "take" => a > 0

Starts(r, f, t, a) ==
    /\ recs = r /\ free = f /\ freeWas = f
    /\ task = t /\ arg = a
    /\ lo = 0 /\ hi = Len(r)
    /\ slot = Len(f) - 1 /\ best = -1 /\ bestSlot = -1
    /\ found = -1
    /\ at = "running"

SearchInit ==
    \E r \in Seq(Rec), f \in Seq(Nat), t \in {"find", "take"}, a \in Nat :
        IsCall(r, f, t, a) /\ Starts(r, f, t, a)

tables == <<recs, free, freeWas, task, arg>>
finding == <<lo, hi>>
taking == <<slot, best, bestSlot>>

-----------------------------------------------------------------------------
(* find_record *)
Mid == (lo + hi) \div 2

(* Mutant of Probe: an equal record is passed. *)
ProbePassesEqual ==
    /\ at = "running" /\ task = "find" /\ lo < hi
    /\ IF recs[Mid + 1].addr <= arg
       THEN lo' = Mid + 1 /\ hi' = hi
       ELSE hi' = Mid /\ lo' = lo
    /\ UNCHANGED <<tables, taking, found, at>>

Probe ==
    /\ at = "running" /\ task = "find" /\ lo < hi
    /\ IF recs[Mid + 1].addr < arg
       THEN lo' = Mid + 1 /\ hi' = hi
       ELSE hi' = Mid /\ lo' = lo
    /\ UNCHANGED <<tables, taking, found, at>>

(* The bound is tested before the record is read: lo may be one too far. *)
Found ==
    /\ at = "running" /\ task = "find" /\ lo >= hi
    /\ found' = IF lo < Len(recs) /\ recs[lo + 1].addr = arg THEN lo ELSE -1
    /\ at' = "returned"
    /\ UNCHANGED <<tables, finding, taking>>

-----------------------------------------------------------------------------
(* take_free *)
Record   == free[slot + 1] - 1
Capacity == recs[Record + 1].size

Better == best < 0 \/ Capacity < recs[best + 1].size

(* Mutant of Scan: a block as good as the best one takes its place. *)
ScanPrefersOldest ==
    /\ at = "running" /\ task = "take" /\ slot >= 0
    /\ IF Fits(Capacity, arg) /\ (best < 0 \/ Capacity <= recs[best + 1].size)
       THEN best' = Record /\ bestSlot' = slot
       ELSE UNCHANGED <<best, bestSlot>>
    /\ slot' = slot - 1
    /\ UNCHANGED <<tables, finding, found, at>>

(* One slot; an exact fit breaks the loop before the slot is stepped. *)
Scan ==
    /\ at = "running" /\ task = "take" /\ slot >= 0
    /\ LET fits == Fits(Capacity, arg)
       IN  /\ IF fits /\ Better
              THEN best' = Record /\ bestSlot' = slot
              ELSE UNCHANGED <<best, bestSlot>>
           /\ IF fits /\ Capacity = arg
              THEN at' = "done" /\ slot' = slot
              ELSE slot' = slot - 1 /\ at' = at
    /\ UNCHANGED <<tables, finding, found>>

(* The slot's place is taken by the last slot, which is popped. *)
Taken ==
    /\ task = "take"
    /\ at = "done" \/ (at = "running" /\ slot < 0)
    /\ free' = IF best >= 0 THEN WithoutSlot(free, bestSlot + 1) ELSE free
    /\ found' = best
    /\ at' = "returned"
    /\ UNCHANGED <<recs, freeWas, task, arg, finding, taking>>

SearchNext == Probe \/ Found \/ Scan \/ Taken

SearchSpec == SearchInit /\ [][SearchNext]_searchVars

-----------------------------------------------------------------------------
SearchTypeOK ==
    /\ recs \in Seq(Rec) /\ free \in Seq(Nat) /\ freeWas \in Seq(Nat)
    /\ task \in {"find", "take"} /\ arg \in Nat
    /\ lo \in 0 .. Len(recs) /\ hi \in 0 .. Len(recs)
    /\ slot \in -1 .. Len(freeWas) - 1 /\ bestSlot \in -1 .. Len(freeWas) - 1
    /\ best \in -1 .. Len(recs) - 1 /\ found \in -1 .. Len(recs) - 1
    /\ at \in {"running", "done", "returned"}

Answered(t) == at = "returned" /\ task = t

(* find_record returns the record that begins at the address, wherever it is *)
(* in the table, and -1 only if no block begins there: free and realloc      *)
(* cannot miss a live block.  It is the record of RuntimeArena's FindRecord. *)
FindsRecord ==
    Answered("find") =>
        /\ found + 1 = FindRecord(Tables, arg)
        /\ IF found >= 0 THEN recs[found + 1].addr = arg
           ELSE \A r \in DOMAIN recs : recs[r].addr # arg

(* take_free takes the newest of the smallest blocks that fit off the free   *)
(* list, as RuntimeArena's BestSlot and Reuse say, and leaves the list alone *)
(* when none fits.                                                           *)
TakesBestFit ==
    Answered("take") =>
        IF FittingSlots(Called, arg) = {} THEN found = -1 /\ free = freeWas
        ELSE /\ found + 1 = freeWas[BestSlot(Called, arg)]
             /\ free = Reuse(Called, BestSlot(Called, arg)).free

(* "An exact fit ends the scan, so a free/malloc pair of one size is         *)
(* constant time" (runtime.rs:471-472): when the newest freed block fits     *)
(* exactly, no other slot is looked at.                                      *)
PairIsConstantTime ==
    Answered("take") /\ freeWas # <<>> /\ recs[freeWas[Len(freeWas)]].size = arg
        => slot = Len(freeWas) - 1
=============================================================================
