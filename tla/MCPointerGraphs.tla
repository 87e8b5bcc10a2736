--------------------------- MODULE MCPointerGraphs ---------------------------
(* Two activations with two locals each; blocks of two cells, of which two *)
(* fit and two overlap; null is offset to where a failed request lay.      *)
EXTENDS PointerGraphs, TLC

CONSTANTS a1, a2
SomeStarts == {5, 6, 8}
OneSize    == {2}
Within     == {1, 2}
Symmetry  == Permutations({a1, a2})
=============================================================================
