--------------------------- MODULE MCRuntimeHeap ----------------------------
(* Instances of RuntimeHeap for TLC.  The alignment is scaled down from 16  *)
(* to 2 bytes and the arena starts at the odd address 5, so that the first     *)
(* block does not start at offset 0.                                        *)
EXTENDS RuntimeHeap

(* Requests of one, two and three alignment units, up to       *)
(* one the arena can never hold.                                            *)
SomeSizes == {0, 3, 6, Reserve + 1}

(* 1, and a count whose product with 3 wraps to 1 modulo 32. *)
SomeCounts == {1, 11}

(* NULL, every address a block can start at, one inside a block and one     *)
(* behind the arena.                                                        *)
SomePointers ==
    {NULL, Base + 2, Base + Reserve + 1}
        \cup {a \in Base .. Base + Reserve : a % Align = 0}
=============================================================================
