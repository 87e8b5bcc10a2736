------------------------ MODULE EventRuntime_proofs -------------------------
(* The event log is in order at all times and complete when finalize        *)
(* returns, for any number of threads, finalizers and signal targets, any   *)
(* size of the queue and any number of events.                              *)
(*                                                                          *)
(* The invariant says where an accepted event is: the log, the event the    *)
(* backend holds and the queue are, end to end, all that was pushed (Fifo); *)
(* and it ties what the backend has done to Done being the last event of    *)
(* the log, to the flush, to the flag and to the cell (Stages).             *)
EXTENDS EventRuntime, TLAPS

InHand == IF backend = "write" THEN 1 ELSE 0

Fifo ==
    /\ (backend = "write") <=> (held # Nobody)
    /\ Len(pushed) = Len(log) + InHand + Len(queue)
    /\ \A i \in 1 .. Len(log) : pushed[i] = log[i]
    /\ backend = "write" => pushed[Len(log) + 1] = held
    /\ \A i \in 1 .. Len(queue) : pushed[Len(log) + InHand + i] = queue[i]

NoDone(n) == \A i \in 1 .. n : log[i] # Done

EndsWithDone == log # <<>> /\ log[Len(log)] = Done /\ NoDone(Len(log) - 1)

Stages ==
    /\ runtime = "unset" => backend = "none"
    /\ backend \in {"none", "start", "pop", "write"} => NoDone(Len(log))
    /\ backend \in {"flush", "notify", "ended"} => EndsWithDone
    /\ backend \in {"notify", "ended"} => flushed = Len(log)
    /\ finished => backend = "ended"
    /\ finalized = "set" => finished

(* An event being pushed has a number. *)
Sending == \A c \in Contexts : pc[c] = "push" => sent[c] > 0

Inv == TypeOK /\ Fifo /\ Stages /\ Sending

-----------------------------------------------------------------------------
(* What Append and Tail do, element by element. *)
LEMMA AppendFacts ==
    ASSUME NEW S, NEW s \in Seq(S), NEW e \in S
    PROVE  /\ Append(s, e) \in Seq(S)
           /\ Len(Append(s, e)) = Len(s) + 1
           /\ \A i \in 1 .. Len(s) : Append(s, e)[i] = s[i]
           /\ Append(s, e)[Len(s) + 1] = e
           /\ Len(s) \in Nat
  OBVIOUS

LEMMA TailFacts ==
    ASSUME NEW S, NEW s \in Seq(S), s # <<>>
    PROVE  /\ Tail(s) \in Seq(S) /\ Head(s) \in S /\ Head(s) = s[1]
           /\ Len(s) \in Nat /\ Len(s) > 0
           /\ Len(Tail(s)) = Len(s) - 1
           /\ \A i \in 1 .. Len(s) - 1 : Tail(s)[i] = s[i + 1]
  OBVIOUS

(* A step that moves no event and makes no cell or flag say more than it     *)
(* may keeps the order and the stages.                                       *)
Quiet ==
    /\ UNCHANGED <<queue, backend, held, log, flushed, finished, pushed>>
    /\ runtime' = "unset" => runtime = "unset"
    /\ finalized' = "set" => finalized = "set" \/ finished

LEMMA QuietKeeps == Fifo /\ Stages /\ Quiet => Fifo' /\ Stages'
  BY DEF Quiet, Fifo, Stages, InHand, NoDone, EndsWithDone

(* Goto keeps the type of pc. *)
LEMMA GotoTyped ==
    ASSUME TypeOK, NEW c \in Contexts,
           NEW l \in {"run", "push", "init", "done", "lock", "wait", "join"}, Goto(c, l)
    PROVE  pc' \in [Contexts -> {"run", "push", "init", "done", "lock", "wait", "join"}]
  BY DEF TypeOK, Goto

(* An accepted event is the last of what was pushed and of the queue. *)
LEMMA AcceptKeeps ==
    ASSUME TypeOK, Fifo, Stages, NEW e \in Event, Accepts(e),
           UNCHANGED <<cells, backend, held, log, flushed, finished>>
    PROVE  /\ queue' \in Seq(Event) /\ Len(queue') <= Capacity
           /\ pushed' \in Seq(Event)
           /\ Fifo' /\ Stages'
<1>1. /\ queue \in Seq(Event) /\ pushed \in Seq(Event) /\ log \in Seq(Event)
      /\ Len(queue) < Capacity /\ Capacity \in Nat
      /\ queue' = Append(queue, e) /\ pushed' = Append(pushed, e)
  BY BoundAssumption DEF TypeOK, Accepts
<1>2. /\ Len(queue') = Len(queue) + 1 /\ queue' \in Seq(Event)
      /\ \A i \in 1 .. Len(queue) : queue'[i] = queue[i]
      /\ queue'[Len(queue) + 1] = e /\ Len(queue) \in Nat
  BY <1>1, AppendFacts
<1>3. /\ Len(pushed') = Len(pushed) + 1 /\ pushed' \in Seq(Event)
      /\ \A i \in 1 .. Len(pushed) : pushed'[i] = pushed[i]
      /\ pushed'[Len(pushed) + 1] = e /\ Len(pushed) \in Nat
  BY <1>1, AppendFacts
<1>4. Len(log) \in Nat /\ InHand \in {0, 1} /\ InHand' = InHand
  BY <1>1 DEF InHand
<1>5. Fifo'
  <2>1. /\ (backend' = "write") <=> (held' # Nobody)
        /\ Len(pushed') = Len(log') + InHand' + Len(queue')
    BY <1>2, <1>3, <1>4 DEF Fifo
  <2>2. \A i \in 1 .. Len(log') : pushed'[i] = log'[i]
    BY <1>2, <1>3, <1>4 DEF Fifo
  <2>3. backend' = "write" => pushed'[Len(log') + 1] = held'
    BY <1>2, <1>3, <1>4 DEF Fifo, InHand
  <2>4. ASSUME NEW i \in 1 .. Len(queue')
        PROVE  pushed'[Len(log') + InHand' + i] = queue'[i]
    <3>1. CASE i \in 1 .. Len(queue)
      <4> DEFINE k == Len(log) + InHand + i
      <4>1. k \in 1 .. Len(pushed) /\ Len(log') + InHand' + i = k
        BY <3>1, <1>2, <1>3, <1>4 DEF Fifo
      <4>2. pushed[k] = queue[i]
        BY <3>1 DEF Fifo
      <4> HIDE DEF k
      <4> QED
        BY <3>1, <4>1, <4>2, <1>2, <1>3
    <3>2. CASE i = Len(queue) + 1
      <4>1. Len(log') + InHand' + i = Len(pushed) + 1
        BY <3>2, <1>2, <1>3, <1>4 DEF Fifo
      <4> QED
        BY <3>2, <4>1, <1>2, <1>3
    <3> QED
      BY <3>1, <3>2, <1>2
  <2> QED
    BY <2>1, <2>2, <2>3, <2>4 DEF Fifo
<1>6. Stages'
  BY DEF Stages, NoDone, EndsWithDone, cells
<1> QED
  BY <1>1, <1>2, <1>3, <1>5, <1>6

(* Popping moves the head of the queue into the backend's hand. *)
LEMMA PopKeeps == ASSUME Inv, Pop PROVE Inv'
<1>1. /\ queue \in Seq(Event) /\ queue # <<>> /\ backend = "pop" /\ backend' = "write"
      /\ held' = Head(queue) /\ queue' = Tail(queue) /\ log \in Seq(Event)
      /\ UNCHANGED <<cells, sender, mutex, output, handling, exited, pushed>>
      /\ Len(queue) <= Capacity /\ Capacity \in Nat
  BY BoundAssumption DEF Pop, Inv, TypeOK
<1>2. /\ queue' \in Seq(Event) /\ held' \in Event /\ held' = queue[1]
      /\ Len(queue) \in Nat /\ Len(queue) > 0 /\ Len(queue') = Len(queue) - 1
      /\ \A i \in 1 .. Len(queue) - 1 : queue'[i] = queue[i + 1]
  BY <1>1, TailFacts
<1>3. Len(log) \in Nat /\ InHand = 0 /\ InHand' = 1
  BY <1>1 DEF InHand
<1>4. held' # Nobody
  BY <1>2, DoneAssumption
<1>5. TypeOK'
  BY <1>1, <1>2 DEF Inv, TypeOK, cells, sender, mutex, output
<1>6. log' = log /\ pushed' = pushed
  BY <1>1 DEF output
<1>7. Fifo'
  <2>1. /\ Len(pushed) = Len(log) + Len(queue)
        /\ \A i \in 1 .. Len(log) : pushed[i] = log[i]
        /\ \A i \in 1 .. Len(queue) : pushed[Len(log) + i] = queue[i]
    BY <1>2, <1>3 DEF Inv, Fifo
  <2>2. /\ (backend' = "write") <=> (held' # Nobody)
    BY <1>1, <1>4
  <2>5. Len(pushed') = Len(log') + InHand' + Len(queue')
    <3>1. Len(pushed') = Len(pushed) /\ Len(log') = Len(log)
      BY <1>6
    <3>2. Len(log) + 1 + (Len(queue) - 1) = Len(log) + Len(queue)
      BY <1>2, <1>3
    <3> QED
      BY <3>1, <3>2, <2>1, <1>2, <1>3
  <2>3. pushed'[Len(log') + 1] = held'
    BY <2>1, <1>2, <1>6
  <2>4. ASSUME NEW i \in 1 .. Len(queue')
        PROVE  pushed'[Len(log') + InHand' + i] = queue'[i]
    <3>1. i + 1 \in 1 .. Len(queue) /\ queue'[i] = queue[i + 1]
      BY <1>2
    <3>2. Len(log') + InHand' + i = Len(log) + (i + 1)
      BY <1>2, <1>3, <1>6
    <3> QED
      BY <3>1, <3>2, <2>1, <1>6
  <2> QED
    BY <2>1, <2>2, <2>3, <2>4, <2>5, <1>6 DEF Fifo
<1>8. Stages'
  BY <1>1, <1>6 DEF Inv, Stages, NoDone, EndsWithDone, cells, mutex, output
<1>9. Sending'
  BY <1>1 DEF Inv, Sending, sender
<1> QED
  BY <1>5, <1>7, <1>8, <1>9 DEF Inv

(* Writing moves the event in hand to the end of the log. *)
LEMMA WriteKeeps == ASSUME Inv, Write PROVE Inv'
<1>1. /\ backend = "write" /\ log' = Append(log, held) /\ held' = Nobody
      /\ backend' = IF held = Done THEN "flush" ELSE "pop"
      /\ UNCHANGED <<cells, queue, sender, mutex, flushed, handling, exited, pushed>>
      /\ log \in Seq(Event) /\ held # Nobody /\ held \in Event
  BY DEF Write, Inv, TypeOK, Fifo
<1>2. /\ Len(log') = Len(log) + 1 /\ log' \in Seq(Event)
      /\ \A i \in 1 .. Len(log) : log'[i] = log[i]
      /\ log'[Len(log) + 1] = held /\ Len(log) \in Nat
  BY <1>1, AppendFacts
<1>3. InHand = 1 /\ InHand' = 0 /\ Len(queue) \in Nat
  BY <1>1 DEF InHand, Inv, TypeOK
<1>4. TypeOK'
  BY <1>1, <1>2 DEF Inv, TypeOK, cells, sender, mutex
<1>5. Fifo'
  <2>1. /\ (backend' = "write") <=> (held' # Nobody)
        /\ Len(pushed') = Len(log') + InHand' + Len(queue')
        /\ backend' # "write"
    BY <1>1, <1>2, <1>3 DEF Inv, Fifo
  <2>2. \A i \in 1 .. Len(log') : pushed'[i] = log'[i]
    BY <1>1, <1>2 DEF Inv, Fifo
  <2>3. \A i \in 1 .. Len(queue') : pushed'[Len(log') + InHand' + i] = queue'[i]
    BY <1>1, <1>2, <1>3 DEF Inv, Fifo
  <2> QED
    BY <2>1, <2>2, <2>3 DEF Fifo
<1>6. NoDone(Len(log))
  BY <1>1 DEF Inv, Stages
<1>7. log' # <<>>
  BY <1>2
<1>8. Stages'
  <2>1. CASE held = Done
    BY <2>1, <1>1, <1>2, <1>6, <1>7 DEF Inv, Stages, NoDone, EndsWithDone, cells, mutex
  <2>2. CASE held # Done
    BY <2>2, <1>1, <1>2, <1>6, <1>7 DEF Inv, Stages, NoDone, EndsWithDone, cells, mutex
  <2> QED
    BY <2>1, <2>2
<1>9. Sending'
  BY <1>1 DEF Inv, Sending, sender
<1> QED
  BY <1>4, <1>5, <1>8, <1>9 DEF Inv

(* Every other step of the backend leaves the queue and the log alone. *)
LEMMA BackendKeeps == ASSUME Inv, BackendStarts \/ Flush \/ NotifyFinished PROVE Inv'
<1>4. Sending'
  BY DEF BackendStarts, Flush, NotifyFinished, Inv, Sending, sender
<1>1. CASE BackendStarts
  <2>1. TypeOK'
    BY <1>1 DEF BackendStarts, Inv, TypeOK, cells, sender, output
  <2>2. Fifo' /\ Stages'
    BY <1>1 DEF BackendStarts, Inv, TypeOK, Fifo, Stages, InHand, NoDone, EndsWithDone,
                cells, output
  <2> QED
    BY <2>1, <2>2, <1>4 DEF Inv
<1>2. CASE Flush
  <2>1. TypeOK'
    BY <1>2 DEF Flush, Inv, TypeOK, cells, sender, mutex
  <2>2. Fifo' /\ Stages'
    BY <1>2 DEF Flush, Inv, TypeOK, Fifo, Stages, InHand, NoDone, EndsWithDone,
                cells, mutex
  <2> QED
    BY <2>1, <2>2, <1>4 DEF Inv
<1>3. CASE NotifyFinished
  <2>1. waiting' \subseteq waiting
    BY <1>3 DEF NotifyFinished
  <2>2. TypeOK'
    BY <1>3, <2>1 DEF NotifyFinished, Inv, TypeOK, cells, sender, output
  <2>3. Fifo' /\ Stages'
    BY <1>3 DEF NotifyFinished, Inv, TypeOK, Fifo, Stages, InHand, NoDone, EndsWithDone,
                cells, output
  <2> QED
    BY <2>2, <2>3, <1>4 DEF Inv
<1> QED
  BY <1>1, <1>2, <1>3

(* The steps of the program's contexts. *)
LEMMA SenderKeeps ==
    ASSUME Inv, NEW c \in Contexts, SendEvent(c) \/ PushEvent(c)
    PROVE  Inv'
<1>0. /\ sent \in [Contexts -> 0 .. MaxEvents] /\ MaxEvents \in Nat
      /\ pc \in [Contexts -> {"run", "push", "init", "done", "lock", "wait", "join"}]
  BY BoundAssumption DEF Inv, TypeOK
<1>1. CASE SendEvent(c)
  <2>1. pc' \in [Contexts -> {"run", "push", "init", "done", "lock", "wait", "join"}]
    BY <1>1, GotoTyped DEF SendEvent, Inv
  <2>2. sent' \in [Contexts -> 0 .. MaxEvents]
    BY <1>0, <1>1 DEF SendEvent
  <2>3. TypeOK'
    BY <1>1, <2>1, <2>2 DEF SendEvent, Inv, TypeOK, cells, reader, mutex, output
  <2>4. Quiet
    BY <1>1 DEF SendEvent, Quiet, cells, reader, mutex, output
  <2>5. Sending'
    BY <1>0, <1>1 DEF SendEvent, Goto, Inv, Sending
  <2> QED
    BY <2>3, <2>4, <2>5, QuietKeeps DEF Inv
<1>2. CASE PushEvent(c)
  <2>1. sent[c] \in 1 .. MaxEvents
    BY <1>0, <1>2 DEF PushEvent, Inv, Sending
  <2>2. <<c, sent[c]>> \in Event
    BY <2>1 DEF Event
  <2>3. /\ queue' \in Seq(Event) /\ Len(queue') <= Capacity /\ pushed' \in Seq(Event)
        /\ Fifo' /\ Stages'
    BY <1>2, <2>2, AcceptKeeps DEF PushEvent, Inv, reader, mutex, output
  <2>4. pc' \in [Contexts -> {"run", "push", "init", "done", "lock", "wait", "join"}]
    BY <1>2, GotoTyped DEF PushEvent, Inv
  <2>5. TypeOK'
    BY <1>2, <2>3, <2>4 DEF PushEvent, Inv, TypeOK, cells, reader, mutex, output
  <2>6. Sending'
    BY <1>0, <1>2 DEF PushEvent, Goto, Inv, Sending
  <2> QED
    BY <2>3, <2>5, <2>6 DEF Inv
<1> QED
  BY <1>1, <1>2

(* Steps that move no event and only a program counter that is not pushing. *)
LEMMA ControlKeeps ==
    ASSUME Inv, Quiet, TypeOK',
           \A c \in Contexts : pc'[c] = "push" => pc[c] = "push" /\ sent'[c] = sent[c]
    PROVE  Inv'
  BY QuietKeeps DEF Inv, Sending

LEMMA InitializeKeeps ==
    ASSUME Inv, Initialize \/ SpawnBackend \/ DetectFails \/ RuntimeSet
    PROVE  Inv'
<1>0. /\ Main \in Contexts
      /\ pc \in [Contexts -> {"run", "push", "init", "done", "lock", "wait", "join"}]
  BY ContextAssumption DEF Contexts, Inv, TypeOK
<1>1. CASE Initialize
  <2>1. pc' \in [Contexts -> {"run", "push", "init", "done", "lock", "wait", "join"}]
    BY <1>0, <1>1, GotoTyped DEF Initialize, Inv
  <2>2. TypeOK'
    BY <1>1, <2>1 DEF Initialize, Inv, TypeOK, cells, reader, mutex, output
  <2>3. Quiet
    BY <1>1 DEF Initialize, Quiet, cells, reader, mutex, output
  <2> QED
    BY <1>0, <1>1, <2>2, <2>3, ControlKeeps DEF Initialize, Goto
<1>2. CASE SpawnBackend
  <2>1. TypeOK'
    BY <1>2 DEF SpawnBackend, Inv, TypeOK, sender, mutex, output
  <2>2. backend = "none" /\ held' = held
    BY <1>2 DEF SpawnBackend, Inv, Stages
  <2>3. Fifo' /\ Stages'
    BY <1>2, <2>2 DEF SpawnBackend, Inv, Fifo, Stages, InHand, NoDone, EndsWithDone,
                      mutex, output
  <2>4. Sending'
    BY <1>2 DEF SpawnBackend, Inv, Sending, sender
  <2> QED
    BY <2>1, <2>3, <2>4 DEF Inv
<1>3. CASE DetectFails
  <2>1. TypeOK' /\ Quiet
    BY <1>3 DEF DetectFails, Quiet, Inv, TypeOK, cells, sender, reader, mutex, output
  <2> QED
    BY <1>3, <2>1, ControlKeeps DEF DetectFails, sender
<1>4. CASE RuntimeSet
  <2>1. pc' \in [Contexts -> {"run", "push", "init", "done", "lock", "wait", "join"}]
    BY <1>0, <1>4, GotoTyped DEF RuntimeSet, Inv
  <2>2. TypeOK'
    BY <1>4, <2>1 DEF RuntimeSet, Inv, TypeOK, reader, mutex, output
  <2>3. Quiet
    BY <1>4 DEF RuntimeSet, Quiet, reader, mutex, output
  <2> QED
    BY <1>0, <1>4, <2>2, <2>3, ControlKeeps DEF RuntimeSet, Goto
<1> QED
  BY <1>1, <1>2, <1>3, <1>4

(* The steps of finalize, PushDone among them. *)
LEMMA FinalizerKeeps ==
    ASSUME Inv, NEW t \in Finalizers,
           Finalize(t) \/ FinalizerNext(t) \/ SpuriousWake(t)
    PROVE  Inv'
<1>0. /\ t \in Contexts /\ t \in Threads
      /\ pc \in [Contexts -> {"run", "push", "init", "done", "lock", "wait", "join"}]
  BY ContextAssumption DEF Contexts, Inv, TypeOK
<1>1. CASE Finalize(t)
  <2>1. pc' \in [Contexts -> {"run", "push", "init", "done", "lock", "wait", "join"}]
    <3>1. CASE finalized = "unset"
      BY <1>0, <1>1, <3>1, GotoTyped DEF Finalize, Inv
    <3>2. CASE finalized # "unset"
      BY <1>0, <1>1, <3>2, GotoTyped DEF Finalize, Inv
    <3> QED
      BY <3>1, <3>2
  <2>2. TypeOK'
    BY <1>1, <2>1 DEF Finalize, Inv, TypeOK, reader, mutex, output
  <2>3. Quiet
    BY <1>1 DEF Finalize, Quiet, reader, mutex, output
  <2> QED
    BY <1>0, <1>1, <2>2, <2>3, ControlKeeps DEF Finalize, Goto
<1>2. CASE PushDone(t)
  <2>1. Done \in Event
    BY DEF Event
  <2>2. /\ queue' \in Seq(Event) /\ Len(queue') <= Capacity /\ pushed' \in Seq(Event)
        /\ Fifo' /\ Stages'
    BY <1>2, <2>1, AcceptKeeps DEF PushDone, Inv, reader, mutex, output
  <2>3. pc' \in [Contexts -> {"run", "push", "init", "done", "lock", "wait", "join"}]
    BY <1>0, <1>2, GotoTyped DEF PushDone, Inv
  <2>4. TypeOK'
    BY <1>2, <2>2, <2>3 DEF PushDone, Inv, TypeOK, cells, reader, mutex, output
  <2>5. Sending'
    BY <1>0, <1>2 DEF PushDone, Goto, Inv, Sending
  <2> QED
    BY <2>2, <2>4, <2>5 DEF Inv
<1>3. CASE CheckFinished(t)
  <2>1. CASE finished
    <3>1. pc' \in [Contexts -> {"run", "push", "init", "done", "lock", "wait", "join"}]
      BY <1>0, <1>3, <2>1, GotoTyped DEF CheckFinished, Inv
    <3>2. TypeOK'
      BY <1>3, <2>1, <3>1 DEF CheckFinished, Inv, TypeOK, reader, output
    <3>3. Quiet
      BY <1>3, <2>1 DEF CheckFinished, Quiet, reader, output
    <3> QED
      BY <1>0, <1>3, <2>1, <3>2, <3>3, ControlKeeps DEF CheckFinished, Goto
  <2>2. CASE ~finished
    <3>1. pc' \in [Contexts -> {"run", "push", "init", "done", "lock", "wait", "join"}]
      BY <1>0, <1>3, <2>2, GotoTyped DEF CheckFinished, Inv
    <3>2. TypeOK'
      BY <1>0, <1>3, <2>2, <3>1 DEF CheckFinished, Inv, TypeOK, reader, output
    <3>3. Quiet
      BY <1>3, <2>2 DEF CheckFinished, Quiet, reader, output
    <3> QED
      BY <1>0, <1>3, <2>2, <3>2, <3>3, ControlKeeps DEF CheckFinished, Goto
  <2> QED
    BY <2>1, <2>2
<1>4. CASE WakeUp(t)
  <2>1. pc' \in [Contexts -> {"run", "push", "init", "done", "lock", "wait", "join"}]
    BY <1>0, <1>4, GotoTyped DEF WakeUp, Inv
  <2>2. TypeOK'
    BY <1>4, <2>1 DEF WakeUp, Inv, TypeOK, cells, reader, output
  <2>3. Quiet
    BY <1>4 DEF WakeUp, Quiet, cells, reader, output
  <2> QED
    BY <1>0, <1>4, <2>2, <2>3, ControlKeeps DEF WakeUp, Goto
<1>5. CASE JoinFinalizer(t)
  <2>1. pc' \in [Contexts -> {"run", "push", "init", "done", "lock", "wait", "join"}]
    BY <1>0, <1>5, GotoTyped DEF JoinFinalizer, Inv
  <2>2. TypeOK'
    BY <1>5, <2>1 DEF JoinFinalizer, Inv, TypeOK, cells, reader, mutex, output
  <2>3. Quiet
    BY <1>5 DEF JoinFinalizer, Quiet, cells, reader, mutex, output
  <2> QED
    BY <1>0, <1>5, <2>2, <2>3, ControlKeeps DEF JoinFinalizer, Goto
<1> QED
  BY <1>1, <1>2, <1>3, <1>4, <1>5 DEF FinalizerNext, Notified, SpuriousWake

(* Signals and the end of the process move nothing the log depends on. *)
LEMMA SignalKeeps ==
    ASSUME Inv, (\E t \in Targets : Signal(t)) \/ HandlerReturns \/ MainReturns \/ Killed
    PROVE  Inv'
<1>1. /\ UNCHANGED <<cells, queue, sender, reader, mutex, output, pushed>>
      /\ handling' \in Targets \cup {Nobody} /\ exited' \in BOOLEAN
  BY DEF Signal, HandlerReturns, MainReturns, Killed, Inv, TypeOK
<1>2. TypeOK' /\ Quiet
  BY <1>1 DEF Quiet, Inv, TypeOK, cells, sender, reader, mutex, output
<1> QED
  BY <1>1, <1>2, ControlKeeps DEF sender

LEMMA InvInductive == Inv /\ [Next]_vars => Inv'
<1> SUFFICES ASSUME Inv, [Next]_vars
             PROVE  Inv'
  OBVIOUS
<1>1. CASE UNCHANGED vars
  <2>1. TypeOK' /\ Quiet
    BY <1>1 DEF vars, Quiet, Inv, TypeOK, cells, sender, reader, mutex, output
  <2> QED
    BY <1>1, <2>1, ControlKeeps DEF vars, sender
<1> QED
  BY <1>1, SenderKeeps, InitializeKeeps, FinalizerKeeps, SignalKeeps, BackendKeeps,
     PopKeeps, WriteKeeps DEF Next, BackendNext

LEMMA InvInitially == Init => Inv
<1> SUFFICES ASSUME Init
             PROVE  Inv
  OBVIOUS
<1>1. <<>> \in Seq(Event) /\ Len(<<>>) = 0
  OBVIOUS
<1>2. TypeOK
  <2>1. /\ pc \in [Contexts -> {"run", "push", "init", "done", "lock", "wait", "join"}]
        /\ sent \in [Contexts -> 0 .. MaxEvents]
    BY BoundAssumption DEF Init
  <2>2. queue \in Seq(Event) /\ Len(queue) <= Capacity
    BY <1>1, BoundAssumption DEF Init
  <2> QED
    BY <1>1, <2>1, <2>2 DEF Init, TypeOK
<1>3. Fifo /\ Stages
  BY <1>1 DEF Init, Fifo, Stages, InHand, NoDone
<1>4. Sending
  BY DEF Init, Sending
<1> QED
  BY <1>2, <1>3, <1>4 DEF Inv

(* The shared state of the runtime keeps its types, the queue its bound. *)
THEOREM TypeCorrect == Spec => []TypeOK
<1>1. Inv => TypeOK
  BY DEF Inv
<1> QED
  BY <1>1, InvInitially, InvInductive, PTL DEF Spec

(* No interleaving of senders, handlers, a full queue and the backend loses, *)
(* repeats or swaps an event: the log is a prefix of what was accepted.      *)
THEOREM LogOrdered == Spec => []LogInOrder
<1>1. Inv => LogInOrder
  <2> SUFFICES ASSUME Inv
               PROVE  LogInOrder
    OBVIOUS
  <2>1. /\ log \in Seq(Event) /\ pushed \in Seq(Event) /\ Len(queue) \in Nat
        /\ Len(log) \in Nat /\ Len(pushed) \in Nat
    BY DEF Inv, TypeOK
  <2>2. Len(log) <= Len(pushed) /\ \A i \in 1 .. Len(log) : pushed[i] = log[i]
    BY <2>1 DEF Inv, Fifo, InHand
  <2>3. log = SubSeq(pushed, 1, Len(log))
    BY <2>1, <2>2
  <2> QED
    BY <2>2, <2>3 DEF LogInOrder
<1> QED
  BY <1>1, InvInitially, InvInductive, PTL DEF Spec

(* When finalize has returned the file holds everything that was accepted   *)
(* before Done.                                                             *)
THEOREM FinalizedComplete == Spec => []CompleteWhenFinalized
<1>1. Inv => CompleteWhenFinalized
  BY DEF Inv, Stages, EndsWithDone, NoDone, CompleteWhenFinalized
<1> QED
  BY <1>1, InvInitially, InvInductive, PTL DEF Spec

(* And from then on nothing is written. *)
THEOREM FinalizedSealed == Spec => LogSealed
<1>1. Inv /\ [Next]_vars => [Sealed]_vars
  <2> SUFFICES ASSUME Inv, Next, finalized = "set"
               PROVE  UNCHANGED output
    BY DEF Sealed
  <2>1. backend = "ended"
    BY DEF Inv, Stages
  <2>2. ~BackendNext
    BY <2>1 DEF BackendNext, BackendStarts, Pop, Write, Flush, NotifyFinished
  <2> QED
    BY <2>2 DEF Next, SendEvent, PushEvent, Initialize, SpawnBackend, DetectFails,
                RuntimeSet, Finalize, FinalizerNext, PushDone, CheckFinished, Notified,
                WakeUp, JoinFinalizer, SpuriousWake, Signal, HandlerReturns,
                MainReturns, Killed
<1> QED
  BY <1>1, InvInitially, InvInductive, PTL DEF Spec, LogSealed
=============================================================================
