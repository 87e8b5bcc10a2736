---------------------------- MODULE MCLinearHeap ----------------------------
(* A reserve of three blocks of the least capacity, or two larger ones; data  *)
(* that look like addresses of blocks; a request that an int would cut to 1. *)
EXTENDS LinearHeap

OneDatum   == {4}
SomeData   == {0, 4}
SomeSizes  == {0, 3, 65}
SomeCounts == {1, 128}
OneSize    == {1}
NoFrames   == {}
SomeFrames == {2, 4}
=============================================================================
