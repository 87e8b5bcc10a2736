--------------------------- MODULE MCEventRuntime ---------------------------
(* Instances of EventRuntime for TLC: a queue of one or two slots, so that  *)
(* it fills up, two threads of which both may finalize, and a handler.      *)
EXTENDS EventRuntime

CONSTANT Worker

MainOnly    == {Main}
TwoThreads  == {Main, Worker}
NoThread    == {}
AnyThread   == {Main, Worker, Backend}
=============================================================================
