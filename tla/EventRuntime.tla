---------------------------- MODULE EventRuntime ----------------------------
(***************************************************************************)
(* The runtime an instrumented program is linked with (analysis/runtime):  *)
(* the hooks of handlers.rs send events from any thread and any signal     *)
(* handler through a bounded lock-free queue to a backend thread, which    *)
(* writes them to the event log; `initialize' and `finalize' bracket main. *)
(* This is RuntimeKind::BackgroundThread, the default.                     *)
(*                                                                         *)
(* A context is a thread of the program, or the handler of a signal, which *)
(* runs on top of the thread it interrupts.  A step is one access to what  *)
(* contexts share: the two OnceCells, the queue, the FINISHED mutex and    *)
(* its condition variable.                                                 *)
(***************************************************************************)
EXTENDS Integers, Sequences

CONSTANTS
    Threads,        \* the program's threads
    Main,           \* the one that runs main
    Finalizers,     \* the threads that call finalize
    Handler,        \* a signal handler
    Targets,        \* the threads signals are delivered to
    Backend,        \* the thread try_init spawns
    Nobody,         \* no thread
    Done,           \* Event::done()
    Capacity,       \* 1 << 20, the size of the queue
    MaxEvents       \* bound: the events each context sends

Contexts == Threads \cup {Handler}
Event    == (Contexts \X (1 .. MaxEvents)) \cup {Done}

ASSUME ContextAssumption ==
    /\ Main \in Finalizers /\ Finalizers \subseteq Threads
    /\ Targets \subseteq Threads \cup {Backend}
    /\ Handler \notin Threads /\ Backend \notin Contexts
    /\ Nobody \notin Contexts \cup {Backend}
ASSUME DoneAssumption  == Done \notin Contexts \X (1 .. MaxEvents) /\ Nobody \notin Event
ASSUME BoundAssumption == Capacity \in Nat \ {0} /\ MaxEvents \in Nat

VARIABLES
    runtime,    \* RUNTIME.runtime, a OnceCell: unset, spawned (by the closure), set
    finalized,  \* BackgroundThreadRuntime.finalized: unset, running, set
    queue,      \* the ArrayQueue
    pc,         \* what each context is doing
    sent,       \* how many events each context has sent
    backend,    \* what the backend thread is doing
    held,       \* the event it has popped, or Nobody
    lock,       \* who holds the mutex of FINISHED
    finished,   \* the flag it guards
    waiting,    \* the threads that wait on its condition variable
    log,        \* the events written to the BufWriter
    flushed,    \* how many of them are known to be in the file
    handling,   \* the thread the signal handler interrupts, or Nobody
    exited,     \* the process is over
    pushed      \* history: every event the queue accepted

cells  == <<runtime, finalized>>
mutex  == <<lock, finished, waiting>>
output == <<log, flushed>>
sender == <<pc, sent>>
reader == <<backend, held>>
vars   == <<cells, queue, sender, reader, mutex, output, handling, exited, pushed>>

TypeOK ==
    /\ runtime \in {"unset", "spawned", "set"}
    /\ finalized \in {"unset", "running", "set"}
    /\ queue \in Seq(Event) /\ Len(queue) <= Capacity
    /\ pc \in [Contexts -> {"run", "push", "init", "done", "lock", "wait", "join"}]
    /\ sent \in [Contexts -> 0 .. MaxEvents]
    /\ backend \in {"none", "start", "pop", "write", "flush", "notify", "ended"}
    /\ held \in Event \cup {Nobody}
    /\ lock \in Threads \cup {Backend, Nobody}
    /\ finished \in BOOLEAN
    /\ waiting \subseteq Threads
    /\ log \in Seq(Event) /\ pushed \in Seq(Event)
    /\ flushed \in Nat
    /\ handling \in Targets \cup {Nobody}
    /\ exited \in BOOLEAN

Init ==
    /\ runtime = "unset" /\ finalized = "unset"
    /\ queue = <<>>
    /\ pc = [c \in Contexts |-> "run"]
    /\ sent = [c \in Contexts |-> 0]
    /\ backend = "none" /\ held = Nobody
    /\ lock = Nobody /\ finished = FALSE /\ waiting = {}
    /\ log = <<>> /\ flushed = 0
    /\ handling = Nobody
    /\ exited = FALSE
    /\ pushed = <<>>

(* A thread runs while the process does and no handler interrupts it. *)
Runs(t) == ~exited /\ handling # t

(* The handler runs while it handles a signal. *)
Active(c) == IF c = Handler THEN ~exited /\ handling # Nobody ELSE Runs(c)

Goto(c, label) == pc' = [pc EXCEPT ![c] = label]

-----------------------------------------------------------------------------
(* GlobalRuntime::send_event: the event is skipped before main, when the    *)
(* cell is not set, and after it, when the finalizer has ended; between     *)
(* them push_event is called.  Other threads start once main has.           *)
Skips == runtime # "set" \/ finalized = "set"

SendEvent(c) ==
    /\ Active(c) /\ pc[c] = "run"
    /\ c \in Threads \ {Main} => runtime = "set"
    /\ sent[c] < MaxEvents
    /\ sent' = [sent EXCEPT ![c] = @ + 1]
    /\ Goto(c, IF Skips THEN "run" ELSE "push")
    /\ UNCHANGED <<cells, queue, reader, mutex, output, handling, exited, pushed>>

(* Mutants of Accepts: an unbounded queue, and force_push, which makes room *)
(* by dropping the oldest event.                                            *)
AcceptsAlways(event) ==
    /\ queue' = Append(queue, event)
    /\ pushed' = Append(pushed, event)

Overwrites(event) ==
    /\ queue' = Append(IF Len(queue) < Capacity THEN queue ELSE Tail(queue), event)
    /\ pushed' = Append(pushed, event)

(* ArrayQueue::push accepts an event while there is room; push_event calls  *)
(* it until it does, sleeping or spinning in between.                       *)
Accepts(event) ==
    /\ Len(queue) < Capacity
    /\ queue' = Append(queue, event)
    /\ pushed' = Append(pushed, event)

PushEvent(c) ==
    /\ Active(c) /\ pc[c] = "push"
    /\ Accepts(<<c, sent[c]>>)
    /\ Goto(c, "run")
    /\ UNCHANGED <<cells, sent, reader, mutex, output, handling, exited>>

-----------------------------------------------------------------------------
(* initialize: the closure of get_or_try_init detects the backend and       *)
(* spawns its thread, or fails and ends the process; then the cell is set.  *)
Initialize ==
    /\ Runs(Main) /\ pc[Main] = "run" /\ runtime = "unset"
    /\ Goto(Main, "init")
    /\ UNCHANGED <<cells, queue, sent, reader, mutex, output, handling, exited, pushed>>

SpawnBackend ==
    /\ Runs(Main) /\ pc[Main] = "init" /\ runtime = "unset"
    /\ runtime' = "spawned"
    /\ backend' = "start"
    /\ UNCHANGED <<finalized, queue, sender, held, mutex, output, handling, exited, pushed>>

DetectFails ==
    /\ Runs(Main) /\ pc[Main] = "init" /\ runtime = "unset"
    /\ exited' = TRUE
    /\ UNCHANGED <<cells, queue, sender, reader, mutex, output, handling, pushed>>

RuntimeSet ==
    /\ Runs(Main) /\ pc[Main] = "init" /\ runtime = "spawned"
    /\ runtime' = "set"
    /\ Goto(Main, "run")
    /\ UNCHANGED <<finalized, queue, sent, reader, mutex, output, handling, exited, pushed>>

-----------------------------------------------------------------------------
(* BackgroundThreadRuntime::finalize: the first caller runs the closure,    *)
(* any other waits for it to end, or returns at once when it has.           *)
Finalize(t) ==
    /\ Runs(t) /\ pc[t] = "run" /\ runtime = "set"
    /\ finalized # "set"
    /\ finalized' = "running"
    /\ Goto(t, IF finalized = "unset" THEN "done" ELSE "join")
    /\ UNCHANGED <<runtime, queue, sent, reader, mutex, output, handling, exited, pushed>>

JoinFinalizer(t) ==
    /\ Runs(t) /\ pc[t] = "join" /\ finalized = "set"
    /\ Goto(t, "run")
    /\ UNCHANGED <<cells, queue, sent, reader, mutex, output, handling, exited, pushed>>

PushDone(t) ==
    /\ Runs(t) /\ pc[t] = "done"
    /\ Accepts(Done)
    /\ Goto(t, "lock")
    /\ UNCHANGED <<cells, sent, reader, mutex, output, handling, exited>>

(* Mutants of CheckFinished: the first look is left out; the mutex is kept. *)
WaitsFirst(t) ==
    /\ Runs(t) /\ pc[t] = "lock" /\ lock = Nobody
    /\ waiting' = waiting \cup {t}
    /\ Goto(t, "wait")
    /\ UNCHANGED <<cells, queue, sent, reader, lock, finished, output, handling, exited, pushed>>

WaitsLocked(t) ==
    /\ Runs(t) /\ pc[t] = "lock" /\ lock = Nobody
    /\ IF finished
       THEN finalized' = "set" /\ Goto(t, "run") /\ UNCHANGED lock
       ELSE lock' = t /\ UNCHANGED <<pc, finalized>>
    /\ UNCHANGED <<runtime, queue, sent, reader, finished, waiting, output, handling, exited, pushed>>

(* The mutex is taken, the first time or by a wait that ends, and finished  *)
(* is looked at: the closure returns, or waits, which releases the mutex.   *)
CheckFinished(t) ==
    /\ Runs(t) /\ pc[t] = "lock" /\ lock = Nobody
    /\ IF finished
       THEN finalized' = "set" /\ Goto(t, "run") /\ UNCHANGED waiting
       ELSE waiting' = waiting \cup {t} /\ Goto(t, "wait") /\ UNCHANGED finalized
    /\ UNCHANGED <<runtime, queue, sent, reader, lock, finished, output, handling, exited, pushed>>

(* Mutant of WakeUp: `if' in place of `while', finished is not looked at    *)
(* again.                                                                   *)
WakesUnchecked(t) ==
    /\ Runs(t) /\ pc[t] = "wait"
    /\ waiting' = waiting \ {t}
    /\ finalized' = "set"
    /\ Goto(t, "run")
    /\ UNCHANGED <<runtime, queue, sent, reader, lock, finished, output, handling, exited, pushed>>

(* A wait ends when it is notified, and may end when it is not. *)
WakeUp(t) ==
    /\ Runs(t) /\ pc[t] = "wait"
    /\ waiting' = waiting \ {t}
    /\ Goto(t, "lock")
    /\ UNCHANGED <<cells, queue, sent, reader, lock, finished, output, handling, exited, pushed>>

Notified(t)     == t \notin waiting /\ WakeUp(t)
SpuriousWake(t) == t \in waiting /\ WakeUp(t)

-----------------------------------------------------------------------------
(* Backend::run holds the mutex of FINISHED for as long as it writes.       *)
BackendStarts ==
    /\ Runs(Backend) /\ backend = "start" /\ lock = Nobody
    /\ backend' = "pop" /\ lock' = Backend
    /\ UNCHANGED <<cells, queue, sender, held, finished, waiting, output, handling, exited, pushed>>

Pop ==
    /\ Runs(Backend) /\ backend = "pop" /\ queue # <<>>
    /\ backend' = "write" /\ held' = Head(queue) /\ queue' = Tail(queue)
    /\ UNCHANGED <<cells, sender, mutex, output, handling, exited, pushed>>

(* Mutant of Write: the loop ends before Done is written. *)
LeavesDoneOut ==
    /\ Runs(Backend) /\ backend = "write"
    /\ log' = IF held = Done THEN log ELSE Append(log, held)
    /\ held' = Nobody
    /\ backend' = IF held = Done THEN "flush" ELSE "pop"
    /\ UNCHANGED <<cells, queue, sender, mutex, flushed, handling, exited, pushed>>

Write ==
    /\ Runs(Backend) /\ backend = "write"
    /\ log' = Append(log, held)
    /\ held' = Nobody
    /\ backend' = IF held = Done THEN "flush" ELSE "pop"
    /\ UNCHANGED <<cells, queue, sender, mutex, flushed, handling, exited, pushed>>

Flush ==
    /\ Runs(Backend) /\ backend = "flush"
    /\ flushed' = Len(log)
    /\ backend' = "notify"
    /\ UNCHANGED <<cells, queue, sender, held, mutex, log, handling, exited, pushed>>

(* finished is set, one waiting thread is notified, the mutex is released.  *)
NotifyFinished ==
    /\ Runs(Backend) /\ backend = "notify"
    /\ finished' = TRUE
    /\ IF waiting = {} THEN UNCHANGED waiting
       ELSE \E t \in waiting : waiting' = waiting \ {t}
    /\ lock' = Nobody
    /\ backend' = "ended"
    /\ UNCHANGED <<cells, queue, sender, held, output, handling, exited, pushed>>

-----------------------------------------------------------------------------
(* A signal arrives, its handler sends its events and returns.  A handler   *)
(* may interrupt the backend thread too: nothing blocks signals there.      *)
Exists(t) == IF t = Backend THEN backend \notin {"none", "ended"}
             ELSE t = Main \/ runtime = "set"

Signal(t) ==
    /\ ~exited /\ handling = Nobody /\ Exists(t)
    /\ sent[Handler] < MaxEvents
    /\ handling' = t
    /\ UNCHANGED <<cells, queue, sender, reader, mutex, output, exited, pushed>>

HandlerReturns ==
    /\ ~exited /\ handling # Nobody /\ pc[Handler] = "run"
    /\ handling' = Nobody
    /\ UNCHANGED <<cells, queue, sender, reader, mutex, output, exited, pushed>>

(* main returns once it has called finalize, which ends the process; exit,  *)
(* abort or a signal may end it at any time.                                *)
MainReturns ==
    /\ Runs(Main) /\ pc[Main] = "run" /\ finalized = "set"
    /\ exited' = TRUE
    /\ UNCHANGED <<cells, queue, sender, reader, mutex, output, handling, pushed>>

Killed ==
    /\ ~exited
    /\ exited' = TRUE
    /\ UNCHANGED <<cells, queue, sender, reader, mutex, output, handling, pushed>>

BackendNext == BackendStarts \/ Pop \/ Write \/ Flush \/ NotifyFinished

FinalizerNext(t) ==
    PushDone(t) \/ CheckFinished(t) \/ Notified(t) \/ JoinFinalizer(t)

Next ==
    \/ \E c \in Contexts : SendEvent(c) \/ PushEvent(c)
    \/ Initialize \/ SpawnBackend \/ DetectFails \/ RuntimeSet
    \/ \E t \in Finalizers : Finalize(t) \/ FinalizerNext(t) \/ SpuriousWake(t)
    \/ BackendNext
    \/ \E t \in Targets : Signal(t)
    \/ HandlerReturns
    \/ MainReturns
    \/ Killed

Spec == Init /\ [][Next]_vars

(* The scheduler runs every thread that can take a step.  Nothing makes the *)
(* program send, initialize or finalize; once in main it returns.           *)
Fairness ==
    /\ \A c \in Contexts : WF_vars(PushEvent(c))
    /\ \A t \in Finalizers : WF_vars(FinalizerNext(t))
    /\ WF_vars(BackendNext)
    /\ WF_vars(SpawnBackend \/ RuntimeSet)
    /\ WF_vars(HandlerReturns)
    /\ WF_vars(MainReturns)

FairSpec == Spec /\ Fairness

-----------------------------------------------------------------------------
(* The log is what the queue accepted, in that order, without a gap or a    *)
(* repetition, as far as the backend has come: no order of pushes from any  *)
(* threads and handlers, and no full queue, loses or swaps an event.        *)
LogInOrder == Len(log) <= Len(pushed) /\ log = SubSeq(pushed, 1, Len(log))

(* When finalize returns, the file holds every event that was accepted      *)
(* before the finalizer's Done, and ends with Done: main may then return.   *)
CompleteWhenFinalized ==
    finalized = "set" =>
        /\ log # <<>> /\ flushed = Len(log)
        /\ log[Len(log)] = Done
        /\ \A i \in 1 .. Len(log) - 1 : log[i] # Done

(* From then on nothing is written: events still in the queue stay there.   *)
Sealed == finalized = "set" => UNCHANGED output
LogSealed == [][Sealed]_vars

(* Signal handlers return, and at some time the last signal has arrived.    *)
SignalsEnd == <>[](handling = Nobody)

(* No wake-up is lost: a call of finalize returns whichever of the two      *)
(* threads takes the mutex first, unless it is interrupted for ever.        *)
FinalizeReturns ==
    SignalsEnd => ((finalized = "running") ~> (finalized = "set" \/ exited))

(* A hook does not keep its thread spinning for ever on a full queue, as    *)
(* long as there is a backend to empty it.                                  *)
Waits(c) == pc[c] = "push" /\ backend # "ended" /\ ~exited
SendsReturn == SignalsEnd => \A c \in Contexts : Waits(c) ~> ~Waits(c)

(* push_event's comment says that spinning in a signal handler is safe: the *)
(* handler returns.                                                         *)
HandlerSafe == (handling # Nobody) ~> (handling = Nobody \/ exited)
=============================================================================
