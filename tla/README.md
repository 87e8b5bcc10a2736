# Verification of c2das

c2das translates C to daslang (`src/c2dascript-*`); the repository also holds,
inherited from c2rust, an analysis that instruments Rust programs and builds
pointer derivation graphs from the event log they write (`src/analysis`,
`src/pdg`, `src/dynamic_instrumentation`). This directory holds TLA+ models of
the parts of both whose correctness is about states and steps, TLC
configurations that check them on small instances, and proofs, checked by
TLAPS, for every instance.

    tlc -config MCRuntimeHeap.cfg MCRuntimeHeap      a run
    tlapm RuntimeHeap_proofs.tla                     a module's proofs

All paths below are relative to `src/`; `T/` is
`c2dascript-transpile/src/translator/`, `CFG/` is `c2dascript-transpile/src/cfg/`
and `RT/` is `analysis/runtime/src/`.

## The system

### From C to daslang

The exporter (`c2dascript-ast-exporter`, C++ around Clang) writes a C file's
typed tree; `c_ast` reads it; the module layout (`c2dascript-transpile/src/lib.rs`)
decides which daslang module owns each symbol of a link unit; the translator
turns each function and variable into a tree of `das_ast`, which the printer
writes as text. The structured back end (`CFG/structured.rs`) keeps a
function's loops and branches; a body with a `goto`, with a case inside a
loop, or nested too deep becomes a control-flow graph instead (`CFG/mod.rs`, `CfgBuilder`),
which the flat back end (`CFG/labels.rs`) renders as labels and gotos. The
objects of a module are then put into an order daslang can initialize
(`T/global_order.rs`). The
translated program computes on addresses, so it carries a runtime with it:

* the **raw heap** (`T/runtime.rs` prints it as a daslang module): `malloc`,
  `calloc`, `realloc`, `free`, `memset`, `memcpy`, `memmove`, `memcmp`,
  `memchr`, storage for globals, and frames for addressable locals; or
* with `--memory-model linear`, the **linear memory** (`T/linear.rs`): one
  array that holds the static block, the C stack and the heap.

### From a program to its pointer derivation graph

`dynamic_instrumentation` rewrites a Rust program's MIR: every pointer
operation is followed by a call of a hook (`RT/handlers.rs`), `main` is
bracketed by `initialize` and `finalize`. The hooks send events from every
thread, and from signal handlers, through a bounded lock-free queue to a
backend thread, which writes the event log. `pdg` reads the log, as far as it
goes, and builds the graphs.

### Components

| component | state it keeps | operations | what is hard | what makes it correct |
|---|---|---|---|---|
| raw heap (`T/runtime.rs`) | byte array, bump pointer, three columns of records, free list of record numbers, registered locals | the C allocation and byte functions, `static`, `frame_enter`, `local`, `frame_leave`, `reset` | wild and second frees, reuse, growing the last block, wrapping products, chunked copies that overlap | it is C's heap; the tables describe disjoint blocks; searches find what is there |
| linear memory (`T/linear.rs`) | one array, the break, the free list threaded through it, the stack pointer | the allocator, function entry and return | links and headers lie among the program's own data; 64-bit requests cut to `int`; nested functions that all restore the stack pointer | it is C's heap, links and headers survive, frames and the static block are never overwritten |
| graph builder (`CFG/mod.rs`) | the blocks of the graph, loop and switch targets | one method for each C statement, pruning, edge validation | `goto` into loops, `switch` fall-through | the graph does what the statements do |
| flat back end (`CFG/labels.rs`) | the list of rendered statements, label numbers | layout, dispatch trees, emission, repair of dead labels, trampoline, moving of early exits | each repair can make another necessary; daslang drops dead code and nests the code after an early exit, and then labels cannot be reached | no graph is refused, no jump fails, the statements do what the graph does |
| structured back end (`CFG/structured.rs`) | a tree, with label regions in its lists | lowering, switch chains and regions, lifting of breaks, resolving of labels, splicing, numbering | `break` and `continue` through switches; a label on nothing, a jump out of an arm, an exit a jump crosses | the same calls in the same order as the C statements |
| event runtime (`RT/runtime/`) | two `OnceCell`s, the queue, the mutex and condition variable of `FINISHED`, the log's buffer | `initialize`, `send_event`, `push_event`, `finalize`, the backend's loop | threads, signal handlers, a full queue, late senders, a lost wake-up | no event lost, repeated or swapped; complete when `finalize` returns; nobody waits for ever |
| event handlers (`RT/handlers.rs`) | – | one or two events for each hook | an event is sent after the call it reports, so other threads come between | the log's order is the calls' order |
| PDG builder (`pdg/src/builder.rs`) | graphs, provenance by address | one step for each event | addresses are reused after `free`; locals of several functions, and of several calls of one, have one number; null is an address like any other | one graph for each object, ended by its free; a node's source is the derivation it came from |
| instrumenter | rustc's MIR | – | insertion points shift | hooks see the values of the statement |
| module layout and link pre-pass (`lib.rs`) | owners of symbols, clusters, what the fragments of one read | link, translate a cluster, order its fragments, translate again, write | units that refer to each other in circles share one module and one name space | requires are acyclic; every use finds what C binds it to |
| global initialisation order (`T/global_order.rs`) | a walk's path, a work list | depth-first order, spreading of cycles | initializers that reach each other, through functions and other fragments | daslang can initialize every object in declaration order |
| renamer | scopes, names taken | enter, leave, fresh, reserve | shadowing, reserved words | two C names in one scope have two names |
| inlining, variadic arguments | call sites; a cursor over an argument block | expand; `va_arg`, `va_copy` | order of side effects; two cursors | as in C |

The remaining parts (C ABI tables, expression and operator translation, builtins,
library helpers, tree import, printer, command line, the inherited C to Rust
tools, cross-checks) keep no state that changes in interesting ways;
`PROJECT.json` lists each with the reason it is left out.

Components meet in three ways: by calls that are one step for the caller (the
translated program and its heap), by shared memory (hooks, `finalize` and the
backend share the queue, two cells and a mutex; heap, stack and program share
linear memory's array; fragments share a module), and by data handed on once (C
statements to graph, graph to rendering, rendering to daslang, the first pass over
a cluster to the second, log to PDG builder).

## The modules

| module | models | how |
|---|---|---|
| `RuntimeArena` | the functions of `T/runtime.rs` on the heap's globals | one operator for each function, from the arena's state to its state and result; the operations of its data: binary search, best fit, carving |
| `RuntimeHeap` | a program that calls them, in any order | `arena`, and the frames `locals`, `marks`, `leaving`; one action for each call; `frame_leave`'s loop is one step for each object |
| `CHeap` | what C promises of both heaps | abstract: blocks with contents, frames, nothing of the arena |
| `RuntimeSearch` | the loops of `find_record` and `take_free` | one step for each iteration; related to `RuntimeArena`'s one-step operators |
| `RuntimeBytes` | `memset`, `memcpy`, `memmove`, `memcmp`, `memchr` | the loops by chunk or byte, on a memory of `Size` bytes |
| `LinearHeap` | the allocator and the stack of `T/linear.rs` in one array | `malloc`'s loop is one step for each freed block; `calloc` and `realloc` call it and continue; implements `CHeap` too |
| `EventRuntime` | `RT/runtime/`: background runtime and backend | a step is one access to what threads share |
| `SwitchDispatch`, `SwitchSearch` | the dispatch tree of a `switch`, and the run of the comparisons it becomes | construction as operators, the search as steps |
| `ControlGraph` | a control-flow graph and what it does | abstract: which blocks call, in which order, and how the function ends |
| `FlatRender` | `CFG/labels.rs` from graph to statements | operators, one for each function |
| `FlatLowering` | the rendering, as daslang loads and runs it | `Init` holds what daslang loads, its dead code folded away, `Step` is one statement; implements `ControlGraph` |
| `CStatements` | what C says a function body does | abstract: a statement is a tree, a step is one visible call or the end |
| `GraphBuild` | `CfgBuilder`, from C statements to the pruned graph | operators, one for each kind of statement |
| `Structured` | the structured back end, from C statements to daslang's | operators: when it declines, lowering, lifting, resolving, numbering |
| `FunctionLowering` | a C function through whichever back end takes it, loaded and run by daslang | as `FlatLowering`, on trees; implements `CStatements` |
| `PdgBuilder` | `pdg/src/builder.rs` on one event | operators from builder to builder |
| `PointerGraphs` | activations of an instrumented program's functions, its allocator, its hooks, and the builder | one action for each pointer operation, the real call and its events in separate steps |
| `GlobalOrder` | `order_value_declarations` | one action for each branch of its loops |
| `UnitComponents` | `strongly_connected_components` | Tarjan's algorithm, a step for each call, return and reference looked at |
| `ModuleLayout` | `--module-layout source`: pre-pass, both passes, the files | extends `UnitComponents`, which the pre-pass runs, and `GlobalOrder`, which each translation runs |
| `RuntimeArena_proofs`, `RuntimeHeap_proofs`, `RuntimeLoops_proofs`, `LinearHeap_proofs`, `EventRuntime_proofs`, `PointerGraphs_proofs`, `GraphWalks_proofs`, `ModuleLayout_proofs` | | theorems; `RuntimeLoops_proofs` is about the machines that `MCRuntimeLoops` runs, `GraphWalks_proofs` about `GlobalOrder` and `UnitComponents` |
| `MC...` | | instances for TLC; `MCRuntimeLoops` holds the byte functions, the search and the dispatch in one instance |

Two compositions span several components: `FunctionLowering` is `CStatements`
→ `Structured`, or `CStatements` → `GraphBuild` → `FlatRender`, → daslang; and
`ModuleLayout` is pre-pass → `UnitComponents` → `GlobalOrder` for each fragment →
include order → `GlobalOrder` again → daslang's initialization.

### How state and actions correspond to the code

**Raw heap.** `arena.len`, `.next`, `.byte` are the length and contents of
`c2da_rt_heap` and `c2da_rt_next`; `arena.recs` zips the columns
`c2da_rt_alloc_addrs`, `_sizes`, `_live`, which the code always resizes
together; `arena.free` is `c2da_rt_alloc_free`. Records are numbered from 1
(the code's −1 is `NoRecord`). A byte is only *cleared or not*, which is all
that `calloc` and `realloc` promises tell apart. `locals` is
`c2da_rt_locals`; `marks` is what each open C function keeps of its
`frame_enter`. No step of the program lies inside a call, because daslang runs it
on one thread: a call is one step, except `frame_leave`, whose loop is
taken apart because it reads the registrations while it frees. The frame
functions are printed in every runtime but not called by the translator yet
(`c2dascript-transpile/src/translator/ARCHITECTURE.md`): what is checked is
that they can be.
`reset` is for a harness that runs several programs one after the other, and
does not clear the registered locals (`T/runtime.rs:418`), so `ResetCall`
needs that no frame is open. The program does not free or resize an address
it registered as a local; any other address it may free, twice or never
allocated, and the heap must ignore it.

**Search and byte functions.** `RuntimeArena` says what a search returns;
`RuntimeSearch` runs the code's loops on every small table the heap's
invariants allow and compares. `lo + hi` cannot overflow an `int`: 1 GiB of
16-byte blocks is 2^26 records. `RuntimeBytes` scales daslang's `int` count
(2^31) down to `IntHalf` and the chunk below it, so that a 64-bit count needs
several calls of the intrinsic and would wrap in one.

**Linear memory.** A cell of `mem` is a 32-bit word. `brk` is
`c2da_lin_brk`, `freeList`, `sp` likewise; `cap`, `prev`, `cur` are
`malloc`'s locals. `live` and `chain` are history: the blocks the program
holds, and the freed ones in order, which the links in `mem` must follow. This
allocator trusts its callers, as C allows: the program of the model frees and
resizes what it holds, and stores anywhere in its blocks and frames, any value,
values that look like links included. A translated function with a frame is a
wrapper, which saves `sp` and restores it, around a body that lowers it:
`Enter` and `Leave`. A trap or `exit` in a body leaves `sp` where it is and the
program stops (`docs/eden-flags.md`), so `panicked` ends the model.

**Event runtime.** `runtime` and `finalized` are the two `OnceCell`s, with the
moment the closure runs as a value of its own; `lock`, `finished`, `waiting` are
the mutex, flag and condition variable; `queue` the `ArrayQueue`, whose `push`
and `pop` are atomic; `log` what was written to the `BufWriter`, `flushed` how
much of it is surely in the file. `send_event` looks at the cell in one step and
pushes in another. A signal handler is a context that runs on top of a thread:
while it does, that thread does not. `pushed` is history: what the queue
accepted, in order. The
instrumenter inserts `initialize` and `finalize` into `main` only
(`dynamic_instrumentation/src/instrument.rs` 870–897); they are public, and
`finalize` is written for several callers, so the model lets any thread of
`Finalizers` call it.

**Dispatch.** A case constant is converted to the dispatch type
(`Key`); `IntModulus` and `LongModulus` are the numbers of values of C's types. The label
number of a jump table is computed as the code does, in one `int` addition or, where
that constant would not fit, by a difference in the dispatch type. A node carries the arms of
its tables in the order their labels are numbered (`labels`), and the search knows the first
number below the node it is at (`first`), which the code keeps in the table as its `base`.
A function has fewer than 2^31 labels: more would not fit daslang's `int`, and a function of
that length is no source text (`IsSwitch`).

**Flat back end.** A graph's block does at most one visible thing, a call, and
ends in a jump, branch, constant branch, switch, return, return of a value or
trap. Conditions have no effect of their own (`add_condition_branch` puts their
statements in a block before), and depend on `data`, which a call may change at
will. `Rendered` is the whole of `render`: layout (`Layout`), plans
(`Plan`), emission (`Emitted`), the loop that drops double returns and repairs
dead tail labels (`Repaired`), the second rendering with a trampoline when a
jump table reaches a dead label, and the loop that moves early exits crossed by
a jump (`Moved`). It is one deterministic call, so it is evaluated in `Init`.
What daslang then does is not in the repository; it is modelled from what
`CFG/labels.rs` says of it: 1100–1104 (two foldings of dead code) and 1166–1197
(what follows an early exit is nested, labels are looked up in the innermost
block that has any).

**C functions.** A statement is a tree and is named by its path. Visible are the
calls of expression statements and of conditions; a condition reads a
variable, which every call may change. `CStatements` says which call comes next;
`FunctionLowering` translates in `Init` and runs one daslang statement a step,
with the same calls and conditions, so `ImplementsC` compares them one by
one: also how often a condition is asked, and that the translation
goes on for as long as the function does. `StaysFlat` is `fallback_reason`,
`Structure` the rest of `CFG/structured.rs`, `Graph` is `CfgBuilder` and
`prune_unreachable`. Daslang's rules for labels in nested lists are modelled
from the module documentation of `CFG/structured.rs`.

**Pointer graphs.** What runs are activations, each with locals of its own under
the same numbers: of one function or of two, in threads of their own, or in one as
caller and callee or by recursion. The builder's lookup of a source reads a local's number
and no function (`pdg/src/builder.rs` 284–303), so which of these they are makes no
difference to it, and nodes carry no function: they carry `activation`, as history.
Any activation may take the next step, which threads need; calls in one thread
do less. `locals`, `cell` and `live` are the program; `pending` is
what an activation's hook has still to send, one event a step, after the call has
happened; `builder` has read everything sent. A pointer is cells of an object, so offsets
within objects are by one cell, and forward: an event of a longer or a negative one
differs in nothing but its addresses. The hook of `offset` logs a copy of the number if
the base is null (`RT/handlers.rs` 89–95): `OffsetNull`, where the number is the
address of a pointer the activation has (`a += b` for `a = b`), null itself, or one below every
object (`NullOffsets`). `builder.mixed` is that `add_node`'s assertion (line 335) has failed; the
program under analysis would stop, the model goes on, which only adds states. `failed`
and `strayed` are history of the log: the size of the last failed request, and
whether an event's pointer lay within it. `object` in an event, `unlogged`,
`written` and `misled` are history too: which object a pointer came from, freed
objects whose event is under way, who wrote a local, and whether the log has
ceased to tell what happened: when a realloc failed (the hook logs the free of
an object that lives, `RT/handlers.rs:49`), or when memory was given out
again before the event of its free was sent.

**Modules.** A program is its units' stems, the unit with `main`, and its
functions and objects with what they refer to; `todo` is the translations
left, `out` each unit's last one, `read` what the first pass told (`foreign_refs`,
`reads`). The pre-pass is `Link`, `UnitComponents`' steps, and `Cluster`; a
translation is `Translate`, `GlobalOrder`'s steps, and `Emit`. `index`, `low`,
`held` and `component` are the search's `State`, its recursion is `calls`; an index
of 0 stands for `None`, units are numbered from 1. How
daslang finds names (`Visible`) and which initializers it refuses (`Loads`) is
external, taken from the comments of `lib.rs`, `T/global_order.rs` and
`T/mod.rs`. Where daslang has a choice of candidates the model is
lenient: a module's own declaration wins over one of a module it requires.

## The runs

| run | instance | what it shows |
|---|---|---|
| `heap` | 4 blocks of 2 bytes, base 5, 2^5 in place of 2^64, two levels of frames | for all sequences of calls: the blocks tile the arena in order, the free list holds exactly what is free, a local is held until the `frame_leave` of its frame, and the runtime implements `CHeap` |
| `loops` | 5 bytes, chunk 2; ≤ 4 records over 5 addresses, every free list; ≤ 6 cases of 9 constants, 4 types | the five byte functions do what C's do, under every overlap; the search and the scan compute what `RuntimeArena` says; a dispatch goes to the right arm |
| `linear_heap` | 16 words: 3 blocks | links and headers intact, every call returns, `CHeap` implemented |
| `linear_stack` | static block, two frames, heap | frames and static block are never overwritten by anybody else |
| `events` | two threads that both finalize, signals anywhere, queue of 2 | order, completeness when `finalize` returns, sealed afterwards; if signals do not go on for ever, `finalize` returns and no hook waits for ever while the backend runs |
| `flat` | ≤ 4 blocks with 2 conditions; ≤ 3 blocks with constant conditions and any of the ends; ≤ 3 blocks (2 if it returns a value) with a switch of ≤ 2 cases | no graph refused, no jump fails, the graph is implemented, jump tables and trampoline included |
| `function` | some 620 C functions: 14 families of loops, switches and jumps | every function is translated, no jump fails, and the translation does what C says |
| `pdg` | 2 activations of 2 locals, 3 places for blocks of 2 cells, 5 events | one graph for each object and nothing behind its free, until the log is misled; null among other pointers only after it was offset to within the size of a failed request; sources are inputs, unless another activation wrote its local of that number |
| `modules` | some 16,000 programs of 3 units | modules and requires are linked as C binds names; every object's initializer reads what is there |
| `events_handler` | queue of 1, signals on the backend | **violated**: finding 1 |
| `flat_dead` | one function of 12 blocks | **violated**: finding 2 |
| `capture` | the link family of `modules` | **violated**: finding 3 |

Every property of the passing runs has a mutant in `PROJECT.json`: a plausible
bug in one definition that makes the property fail on the same instance.

### Bounds, and why they are enough

* **Heap.** `Align = 2`, `Reserve = 8`: four blocks, so a free list with a
  first, a middle and a last slot beside a live block, a two-unit block that is
  a tight and a loose fit, and a last block that grows. Sizes are 0, one that is
  rounded up, three units, and one the arena never holds; 11 × 3 wraps to 1 modulo
  `Word`. `Base = 5` is odd: the first block does not begin at offset 0. Pointers
  are every possible start, NULL, one inside a block, one behind the arena.
  Two levels of frames: with one, passing the outermost mark could not be told
  from passing the innermost.
* **Loops.** Four records give every branch of the bisection twice. Five bytes
  and chunks of two: zero to three chunks, the last one full and not, overlaps by
  less and by more than a chunk. `TestsMax = 2`, `SpanPerCase = 2` in place of
  the code's constants: with six cases every shape of dispatch tree occurs,
  split above table above tests; types of 32 and 64 values, so that constants wrap.
  The theorems cover any number of bytes, records and cases, and any type.
* **Linear memory.** Three blocks: a freed one before, between and after; a
  request of `2 * IntHalf + 1`, which an `int` would cut to 1.
* **Events.** `Capacity` 2: empty, half full, full. Two events for each of two
  threads and the handler: enough to send before, during and after `finalize`, and
  for more senders than slots. `SendsReturn` speaks of hooks only while the backend
  runs. Once it has ended, nothing empties the queue: a hook that looked at
  `finalized` just before may find it full and spin. When `main` finalizes, as the
  instrumenter has it, that hook's thread spins until `main` returns a moment
  later; with a thread of its own that finalizes, `main` itself could spin for
  ever. The code's queue has 2^20 slots, so that many threads must be on their way
  at once.
* **Flat back end.** All graphs, named breadth-first (renaming blocks changes
  nothing but numbers), of the given size: a superset of what `CfgBuilder`
  emits, pruned and with valid edges as it leaves them. Four blocks with two
  conditions include the smallest irreducible graph and two interleaved
  loops. The passing runs leave out graphs of which a constant condition cuts
  off a block: for those the property is false, which is finding 2.
* **Functions.** `NestingMax = 4`, `ChainMax = 2` in place of 64 and 8, so that
  both limits are met and passed; `TestsMax = 1` makes tables of two cases. Each
  family is one shape with every filling of its places: every kind of loop with
  every kind of condition and every way to leave; switches with empty, exiting and
  nested arms, alone, in loops, last in the function, and with loops inside them;
  loops nested to the limit; jumps forward, back, into loops and out of
  switches. What a statement meets in the translation is its list, the
  loop and switch around it, and what follows; the families have each pair of
  those.
* **Pointer graphs.** Two activations are what a reordered log takes, and what a
  local of the same number takes; `Starts`
  5, 6, 8 with blocks of two cells: equal, overlapping and separate places. Five
  events: allocate, derive, free, allocate again in the same place, use; or a
  realloc (two events) between two others. Only the first local is set by calls
  (`Results`), the second by copies and offsets.
* **Modules.** Three units have every graph of circles and requires
  that decides anything: a cluster beside a unit it requires or that requires it,
  a cluster of three, chains. Stems clash with each other, with a cluster's name
  and with the shared module's; stems name modules only, so they vary where the object
  does not. Three objects, two of which name up to two others,
  spread over a cluster in four ways, also through a function; four objects of four
  storage forms. The theorems cover programs of any size.

### Fairness, and why the code justifies it

* `EventRuntime`: weak fairness of each context's push (not of its sending more), each finalizer's steps, the
  backend's, `initialize`'s and the return of a handler and of `main`: a thread
  that can run is run by the operating system's scheduler. Pushes retry in a
  loop, so a push that stays possible happens. Nothing forces a program to send,
  to initialise, to call `finalize` or a signal to arrive. Nothing stops signals
  either: a thread interrupted again and again gets nowhere, so liveness is
  stated under `SignalsEnd`.
* `LinearHeap`: weak fairness of the call's own
  steps: a sequential loop goes on.
* `FunctionLowering` and `CStatements`: weak fairness of the statement and of the next
  call, as in `FlatLowering`. It is written out, `[]<>~CanDo \/ []<><<Do>>_vars`,
  with what `ENABLED` comes to, because TLC evaluates that form faster.
* `FlatLowering`: weak fairness of the statement steps, and `ControlGraph` of its
  own: a program goes on for as long as it has something to do. So the
  refinement also says that the rendering does not loop where the graph ends.

`CHECK_DEADLOCK FALSE` stands where the program may really stop: after a panic,
at the end of the process, when a call returned, a function ended, a log is full, or
a program is refused or written. `PointerGraphs`, `ModuleLayout` and the loops
have safety properties only.

## What is proved

For **every** value of the constants, under their named assumptions:

* `RuntimeHeap_proofs`: `TypeCorrect`, `BlocksOrdered` (`BlocksInOrder`),
  `FreeListCorrect` (`FreeListExact`), `LocalsKept` (`LocalsHeld`) and the refinement
  `RuntimeHeapIsCHeap` (`ImplementsCHeap`).
  Assumed: the alignment, reserve and base are positive, an address rounded up
  does not wrap (`AlignAssumption`, `ReserveAssumption`, `BaseAssumption`,
  `WordAssumption`), and inputs are natural numbers (`InputAssumption`). The
  argument: `WellFormed` (`SortedRecs`, `InReserve`, `TailAtNext`, `FreeListExact`
  and the types) is kept by
  every function of `RuntimeArena`, a lemma for each (`MallocWellFormed`,
  `FreeWellFormed`, `ReallocWellFormed`, ...), and every step of the program is one
  of them. No part is inductive alone: that `free` adds no record twice
  needs `live` exact, that a grown last block overlaps nothing needs
  `TailAtNext`, that carving does needs `InReserve`.
  The frames need `MarksNest` besides (the marks rise, and none is above what is registered or, while
  `frame_leave` runs, above what it has left), so that leaving an inner frame frees no local of an
  outer one. For the refinement each function says which blocks it adds, ends or
  resizes and which bytes it keeps (`Gains`, `Loses`, `Resizes`), also when the product of
  `calloc` wraps; a `free` that missed a live block would refute it, so the binary
  search has to be complete (`LowerBoundIs`).
* `RuntimeLoops_proofs`, of the search and the scan: `SearchTypeCorrect`, `SearchExact` (`FindsRecord`), `ScanExact` (`TakesBestFit`),
  `ExactFitIsConstantTime`: the two loops find what is there in a table and free list of any
  length that satisfies what `BlocksOrdered` and `FreeListCorrect` establish, and return what
  `RuntimeArena`'s `FindRecord`, `BestSlot` and `Reuse` compute in one step. The invariant of the
  search: every record below `lo` has a smaller address, every one from `hi` on
  does not; of the scan: the best so far is the best of the slots looked at,
  the newest among equals.
* `RuntimeLoops_proofs`, of the byte functions: `TypeCorrect`, `SetCorrect`, `CopyCorrect`,
  `SearchCorrect` (`StopsAtFirst`) for any memory, chunk and `int` (`SizeAssumption`,
  `ChunkAssumption`). The invariant says which bytes are done, and that those of
  the source still to be read are as they were at the call: that is what the
  direction of `memmove` is for.
* `RuntimeLoops_proofs`, of the dispatch: `DispatchCorrect` (`GoesToItsArm`), for every
  accepted switch, type and value, and any size of the types, of a run of tests and of a
  table (`DispatchAssumption`, `NextIdAssumption`). Three arguments. The sort: a rank is
  the number of cases that come before, so ranks are all different and, being as many as
  there are places, fill them (`RankOnto`); where keys are `Distinct` they rise. The
  tree: `Build` is recursive, so a solution of its equation has to be shown to exist;
  one for slices up to each length does, two of them agree where both are defined, and
  together they are one for all (`BuildIs`). By the least counterexample a tree has at
  most `SpanPerCase` labels for a case, so that every number fits an `int`
  (`LabelCount`). The search: the cases under the node that is left are cases of the
  switch, and all that have the value (`Covers`); the labels of its tables are those
  from `first` on in the numbering of the whole tree (`Numbers`). Without `Covers` the
  default could be reached past an arm, without `Numbers` a jump table's label could be
  another table's.
* `LinearHeap_proofs`: `TypeCorrect`, `BlocksNeverOverlap` (`BlocksApart`), `FreeListCorrect`
  (`ChainLinked`), `LocalsKept` (`FramesKept`), `StaticNeverStored` (`StaticKept`) and the
  refinement `LinearHeapIsCHeap` (`ImplementsCHeap`), for any array, stack, requests and
  data. Assumed: the unit divides the limits of the parts, which lie in this order and below the
  range of `int`, as the translator lays them out (`UnitAssumption`, `LayoutAssumption`), and
  inputs are integers (`ProgramAssumption`). Links and headers are in the memory the program
  writes, so no part of the invariant stands alone: a header is intact because the blocks
  are apart (`BlocksApart`), a block that malloc takes is apart from the others because it is
  one of the chain (`ChainLinked`), it is one because `prev` and `cur` are neighbours in it
  (`SearchInv`), and what `calloc` clears and `realloc` copies fits the block because
  the call under way remembers what it asked for (`CallInv`, `GotInv`). `FramesNest` says that each frame
  begins where the one inside it ends; the break stays a multiple of the unit (`BrkAligned`).
  For the refinement: a call is one step of the C heap, at its end, and all its
  steps before are invisible, though they unlink blocks and write headers.
* `EventRuntime_proofs`: `TypeCorrect`, `LogOrdered`, `FinalizedComplete`,
  `FinalizedSealed` for any threads, finalizers, signal targets, capacity and number of events
  (`ContextAssumption`, `DoneAssumption`, `BoundAssumption`). The invariant: types,
  `Fifo` (what was accepted is the log, then the event held, then the queue) and
  `Stages` (how `finished`, `finalized`, the mutex and the backend's place
  go together, and that `Done` was written exactly when the backend is past its
  loop).

* `GraphWalks_proofs`, of the sorting: `InitializersOrdered` (`DependenciesFirst`) and
  `OrderTypeCorrect`, for any number of objects with any dependencies and storage. The
  argument: `PathInv` (the path holds exactly the objects on it, once), `LookedInv`
  (what an object on the path has looked at is done, or is the next on the path, or
  closed a cycle, which made the object cyclic), `LeftInv` (a done object is in the
  order, and behind all it reaches unless cyclic) and `SpreadInv` (while cycles spread,
  the users of every cyclic object off the work list are cyclic). None is inductive
  alone: an object may be printed because all it looked at is done, and is all looked at
  only because what it went down to is on the path right above it. So at the end an
  inline initializer reaches no cyclic object, and everything it reaches is declared
  before it. `TracedInv` adds that an object is cyclic only if it stands in a circle of
  objects, which the modules need.
* `GraphWalks_proofs`, of the search: `ComponentsCorrect` (`ComponentsTypeOK`,
  `ComponentsExact`): for every graph two units get one component if and only if each
  reaches the other. `Reaches(u, v)` says that v is in every set that holds u and is
  closed under references: no recursion, and a proof that something is *not* reached is
  a set that is closed. The invariant: indices number the visited units and both stacks
  are in their order (`NumberInv`); what a visit has looked at is visited, and what is
  closed refers to closed units only (`VisitedInv`); every unit held since a visit began
  is reached from it, and every held unit reaches the unit of a visit that has not
  returned (`HeldInv`); `low` is the index of a held unit that is reached, and no held
  unit that the visit's finished part refers to has a lower one (`LowInv`); closed
  components are exact (`ClosedInv`). So when a visit returns with its own index as
  `low`, nothing above it on the stack refers to a held unit below it: that part and the
  closed units are a closed set, which is why the component is not too small, and
  `HeldInv` why it is not too large.
* `ModuleLayout_proofs`: `LayoutTypeCorrect` (`TypeOK`), `ProgramLinks` (`Linked`),
  `ProgramLoads` (`Loads`) and `FragmentsOrdered` (`DependenciesFirst`), for every
  program of any number of units and declarations (`ProgramsAssumption`: what is
  referred to exists and is the unit's own or external, and no unit defines a symbol
  twice; `RuntimeAssumption`). `LayoutInv` joins the invariants of the two walks to what
  passes keep for each other: the search's graph is what units refer to (`SearchInv`),
  the objects being sorted are those of the unit whose turn it is (`SortInv`), names of
  finished units (`NamesInv`), their objects' order and initializers in terms of what
  the second pass knows (`ObjectsInv`), and what the first pass learned (`ReadInv`).
  Four arguments. *Requires*: what leaves a component does not come back, so the modules
  required stand in no circle. *Names*: a static avoids what its mates export and
  earlier ones declared, and what its own unit uses; so a second candidate for a use is
  a static of another fragment, which `Linked` names. *Order*: an initializer that
  daslang follows through functions of its module stays within the module (`Within`), so
  what it reads is what the second pass followed, in its own fragment, or what
  `include_order` read, in others. The first pass prints an initializer's names only if
  it is in its declaration (`ReadBy`); one that it left to `[init]` is not known to the
  mates, but stays there in the second pass too, because its circle is in its own
  fragment and is still one when more is known (`Known`, `TracedInv`). *Circles*: the
  objects of one fragment that stand in a smallest circle of initializers reach each
  other in the second pass, which follows the initializers of the other fragments too;
  and the sorting leaves no such objects in place. The model's `Reach`, `Called` and
  `Included` are recursive functions; that each has a solution, and that what holds for
  all smaller arguments holds, is shown from sets alone (`Course`, `AllNumbers`).

* `PointerGraphs_proofs`: `TypeCorrect`, `NullsStayApart` (`NullsApart`), `SourcesCorrect`
  (`SourceIsInput`), `GraphsPerObject` (`GraphPerObject`), `FreesAreLast` (`FreeIsTheEnd`), and
  `ObjectsAreKnown`, which no run checks: the address of an allocated object whose event was sent leads
  to its graph. For any number of activations and locals, any places and sizes, and logs of any
  length. Assumed: blocks lie above the static object, which is not at null, no request
  is as long as the lowest address, and null is offset only to below that one or to where the
  activation has a pointer (`AddressAssumption`, `OffsetNull`). Two inductive invariants. `BaseInv`
  holds also for a misled log: pointers are inside their objects (`LiveOK`, `LocalsOK`), hooks
  log what was called (`PendingOK`), what is known of an address is a node of a graph that is null's
  exactly for address 0 (`BuilderOK`), null is known with no size or with that of the last
  failed request, and graphs are mixed only once something strayed into it (`NullOK`), and `written` names the last node of its activation that wrote a local
  (`WrittenOK`, `SourcesOK`): the source is *the* input because nothing of the same activation
  wrote that local in between. `TruthInv` holds until the log is misled. Between a call and its event
  graphs and memory disagree, so it compares them through two sets: `There` (objects whose
  end is not logged) and `Tracked` (those of them whose beginning is). `Truth`: the builder
  knows exactly the addresses of the tracked objects, of null and of the static object, and
  their graphs are apart and have no end. `Hooks`: what is pending happened, two hooks are never about
  one object, no other activation has a pointer to an object whose allocation is not
  logged (`Unseen`), and objects of `There` overlap only within one `realloc`
  (`Swap`), whose hook logs the old one's end first. Without `Unseen` an event of another activation could
  come before the allocation's; without `Swap` `realloc` in place would break the
  separation that lookups by address need.

### What is only model-checked, and why

* Liveness (`FinalizeReturns`, `SendsReturn`, `CallsReturn`, the second
  halves of `ImplementsGraph` and `ImplementsC`): outside the prover's reach.
* What recursion computes, in general: an induction principle over data cannot be used. Five
  recursive functions are the exceptions, `RuntimeArena`'s `LowerBound` (`LowerBoundIs`),
  `SwitchDispatch`'s `Build` (`BuildIs`), and `ModuleLayout`'s three: their values are found by the
  least counterexample, in the naturals or in the lengths of slices.
* `FlatRender`, `FlatLowering`, `GraphBuild`, `Structured` and
  `FunctionLowering` (`TypeOK`, `Total`, `ImplementsGraph`, `ImplementsC`): built from
  `RECURSIVE` operators, for TLC only.

## Findings

1. `RT/runtime/scoped_runtime.rs:128` says that a push from a signal handler is
   safe, for it spins instead of sleeping. Signals are not blocked on the backend thread: a
   handler there that finds the queue full waits for the thread it interrupts
   (`events_handler`).
2. `CFG/labels.rs:11` says that every graph has a rendering. In

       void f(int a) { if (0) { d(); return; }
                       again: if (a == 0) goto out; work(); a--; goto again; out: ; }

   the block behind `if (0)` keeps its edge, so it is laid out last, and the label
   `out` is before it: `label 1: return; d(); return`. `dead_tail_labels` finds `d()`
   between the label and the end and keeps it; daslang folds the dead `d(); return`
   away first, then the void function's final return, and `label 1` is behind
   everything (`flat_dead`).
3. `docs/translator-overview.md:71-73` says that a use of another module's symbol
   resolves there, by its C name. In a cluster it may not: `reserved_values`
   (`lib.rs:1346`) holds what a unit's mates define, and later what earlier mates
   declared, but not what mates *use* from elsewhere. A `static` with such a name
   keeps it, and in the shared module the mate's use finds the static (`capture`).
   `T/ARCHITECTURE.md` 539–542 lists what is reserved and has the same gap. In the programs of
   the run `modules`, and by the theorem `ProgramLinks`, no use goes astray in another way
   (`Linked`). That is as good as `Visible`, by which a module's own name wins
   over one it requires: `c2dascript-transpile/src/renamer.rs` 310–318 says that daslang may refuse such a
   reference as ambiguous, and no program of the run refers to its own static where
   a required module exports the name.

Seen on the way, and excepted by name in the properties:

* `include_order` says (`lib.rs:985-989`) that a fragment is included after
  those its initializers reach, and that fragments on a circle keep the database's
  order. When none is ready the first fragment not placed is taken, also one that is on no
  circle: of 1 → 2, 2 → 3, 3 → 2 it takes 1 first (`lib.rs:1043-1046`). daslang then
  reports an object of fragment 1 that could have been initialized (`Unordered` in `Loads`).
* A fragment's array without an initializer, whose address another fragment's
  initializer takes, stays bare (`T/mod.rs:4912-4922`, `BareArray`).
* Two units that both define `main` are not refused: the last one is the entry
  (`lib.rs:1173-1177`). The model's programs have one.
* A failing `realloc`, and a `malloc` that gets an address before the event of its
  `free`, make the log say that a live object ended (`misled`).
* The builder would put null into a heap object's graph if a failed request were
  longer than the heap's lowest address; `AddressAssumption` says it is not.
* `add_node`'s assertion that null and other pointers are not mixed
  (`pdg/src/builder.rs:335`) can fail: after a failed `malloc(n)`, which is logged as an object of
  n bytes at null, `offset` of null by 1 to n is logged as a copy of that
  number (`RT/handlers.rs:89`), found in that object, and put into null's graph.
  `NullsApart` says that the assertion fails in no other way.
* The source of a node may be a node of another activation: the lookup compares the
  local's number and not whose local it is (`SourceIsInput`).

## What is not modelled

`PROJECT.json` lists every component with its reason. In the components that are
modelled: the text the runtime and the renderings are printed as; in linear
memory the layout of the static block, string literals and the string
functions; in both back ends declarations and temporaries (hoisting, coalescing,
counted loops as ranges, pointer inductions), which are about data, and the guard that the
structured one makes of `if (setjmp(buf)) return` (`CFG/structured.rs` 538–567, a `try` and
`recover` around the rest of the body: `longjmp` is not among the statements of `CStatements`); in the event runtime the
foreground variant, which takes one mutex around the same write, and is marked
unsafe in signal handlers by its own comment; in the graphs the events about
locals (`AddrOfLocal`, `BeginFuncBody`), whose graphs need a stack of functions, null
offset to an object that the activation has no pointer to, and the merging of equal graphs; in the layout C types and their reserved names, the shared
module's contents, linear memory's offsets across units, and the reads of objects'
types. A program that ends without
`finalize` loses what was not written: the log is then a prefix
(`LogInOrder`), which `pdg/src/builder.rs` 14–19 accepts.

Most of the repository's lines are not about states: `T/libc.rs` is the text of
library functions, `T/mod.rs` and its siblings and `c_ast` translate expressions, types and
declarations one by one, and the c2rust tools are another program. Their correctness is a
statement about the values of two languages, which the repository tests by running both.

The hazards no property covers are those of `PROJECT.json` with a note and no property.

## The plan

Done: the runtimes (raw heap, linear memory, events), C functions through both
back ends, pointer graphs, modules and their initialization order. What is left, most
useful first:

1. Theorems about the back ends: `FlatRender`, `GraphBuild` and `Structured` would have to be written
   without `RECURSIVE` operators first; every other module with a run has its theorems.
2. Locals in `PointerGraphs`: a stack of functions, `AddrOfLocal` and `BeginFuncBody`,
   for the hazard at `pdg/src/builder.rs:106`.
3. `LinearStatic` (layout of static objects, strings reused, typed records, offsets
   across units), `VarArgs` (the cursor and `va_copy`), the scopes of the renamer, the
   expansion of inline calls.
