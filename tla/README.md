# A TLA+ model of the lattice surgery slicer

`liblsqecc` compiles quantum circuits to lattice surgery: it turns gates into lattice
surgery instructions and packs these into *slices*, the states of a two dimensional
lattice of patches at successive time steps. These modules model the part of it whose
correctness is hardest to see from the code and hardest to test: the streams that make the instructions out
of gates, the engines that decide which instruction is applied in which slice, the search for
routes, and what the instructions do to the lattice. TLC checks the models on small instances;
TLAPS proves the theorems in the `_proofs` modules for all of them.

Paths below are relative to the repository; `dpc` is
`src/patches/dense_patch_computation.cpp`.

## The system

The program is sequential: one thread pulls slices from a `DenseSliceStream` until it
returns null. What makes it hard is not concurrency but a mutable lattice on which several
instructions are under way at once, work that is put off from one call to the next,
recursion that changes the structures it walks, and retries. The components, their state,
and what would make them wrong:

| Component | State | Operations | What makes it correct |
|---|---|---|---|
| Gate parsing, approximation, decomposition (`src/gates`) | none | text to gates | pure functions |
| Instruction streams (`src/ls_instructions`) | what is read ahead, id generator, queue | `get_next_instruction` | the instructions do what the gates say; every patch is created before it is used and given up once |
| Injection streams | a queue each, exposed operators of each patch | `get_next_instruction` | the recorded operators are the real ones; a borrowed Y state comes back as it was |
| Stream pipeline (`dpc`, `StreamedSliceStream`) | queue of follow-ups, deferred error, two flags, counters | `next` | program order, retries within budget, one advance per slice, nothing lost |
| Wave scheduler (`src/scheduler/wave_scheduler.cpp`) | records with dependents, dependency counts, two waves of lists | construction, `schedule_wave` | exact counts, no instruction lost or repeated, program order on every patch |
| Wave slice stream (`dpc`, `WaveSliceStream`) | scheduler, guard, counters | `next` | the guard is told the truth, the stream ends |
| No-progress guard | a count and its budget | `note_progress`, `note_no_progress` | gives up exactly when the budget is spent |
| Timeout decorator | start time | `next` | passes on or throws |
| Dag pipeline (`dpc`, `include/lsqecc/dag`) | graph, proximate heads and dependencies | `next`, `expand`, `pop_head` | the graph stays a faithful order while it is walked |
| Application of instructions (`dpc`) | the slice | one case per instruction | an instruction in error leaves the slice alone; an occupied patch is not touched |
| Dense slice (`src/patches/dense_slice.cpp`) | cells, cache of ids, magic states, timers, EDPC marks | place, clear, rename, rotate, traverse | cache and cells agree, an id names one patch |
| Advancing the slice (`dpc`, `advance_slice`) | timers, activities | once per slice | timers and prepared states agree with the lattice |
| Bell pairs and Bell based CNOTs (`dpc`) | route, local instructions, phase and counter of each operation | visits in a wave, compilation to layers of local instructions | every layer can be applied in one slice; nothing stays behind; a run that does nothing is given up |
| EDPC crossings (`dpc`, `dense_slice.cpp`) | labels on the sides of routed cells, crossing cells | `mark_routing_region`, `mark_boundaries_for_crossing_cell`, flips | routes that cross have different labels where they meet |
| Routers and graph search (`src/layout`) | cached routes, epoch-stamped arrays | `find_routing_ancilla` | a route is free, connected, shortest, and found if there is one |
| Layouts | none after construction | lookups | consistent regions |
| Slicer, JSON, statistics, Minetest, bindings | streams | output | formatting |

The three pipelines share `try_apply_instruction_direct_followup`, which applies one
instruction to the slice or answers with an error, and may answer with instructions that
have to follow. They differ in which instruction they try when. The wave and the Dag
pipelines read the whole program first; the stream pipeline reads as it goes. `advance_slice`
is called between two slices by all three.

## The modules

Abstract specifications, which know nothing of the code's structures:

* `PatchOrder` - what every pipeline promises: instructions that share no patch may run in any
  order; two that share one run in program order, the later one beginning after the earlier
  one has ended. An instruction *begins* with the first change it makes to the lattice and
  *ends* when neither it nor a follow-up is left.
* `PatchIndex` - a slice as an index: the home of an id is the cell that was given it last, for
  as long as that cell bears it. It has no cache.
* `PatchPlacement` - what instructions do to patches: a patch comes to life at a cell that is
  nobody else's, stays there, and goes only when the program gives it up.
* `Stabilizers` - what a program does to its logical qubits: stabilizer states without signs,
  with preparation, measurement and the Clifford gates as functions on them.

From gates to instructions:

* `Programs` - the chain of instruction streams that `slicer.cpp` puts together, each with its
  queue. `Translate` and `HandOn` are the two sources (gates, an instruction file) with what
  they read ahead, `make_cnot_instructions`, `make_t_gate_instructions` and `GateInstructions`
  the translation of gates; `RotateFor` is the boundary rotation stage with its record
  `exposed_operators`, `Inject` the stages that replace S gates (`teleported_s_gate`,
  `catalytic_s_gate`) and Hadamard gates. `Assemble` is the point in the slicer where the
  layout is known and the defaults are overridden, after the sources have read their first
  gate. `Emit` hands an instruction to the lattice, which for this module is the state of the
  qubits and which patches live and are turned.

The pipelines:

* `LSInstructions` - what the pipelines see of an instruction: its kind, its patches, its
  remaining retries and, for the long range operations, how far they have come; `Answers`
  gives the results its application can have.
* `NoProgressGuard` - class `NoProgressGuard`.
* `WaveScheduler` - class `WaveScheduler`. `LoadInstruction` is a turn of the constructor's
  loop; `StartWave`, `NextRound` and `EndWave` are `schedule_wave`; `Take` picks the next
  instruction of a list; the `Apply...` actions are the branches that an answer leads to in
  `schedule_instructions` and `try_schedule_immediately`; `Release` is one turn of a loop
  over dependents. The recursion of the code is the stack `callers`, one frame per loop
  under way.
* `WaveSlices` - extends it with `WaveSliceStream`, the guard, the timeout and the consumer.
* `StreamedSlices` - class `StreamedSliceStream` with the guard, the timeout and the consumer.
* `DependencyDag` - the graph of the dag pipeline as functions of its state: nodes, edges and
  back edges, the removal of a node and its replacement by a chain, proximate heads and
  dependencies.
* `DagSlices` - extends it with the construction of the graph from the program (`Build`) and
  the two loops of `DagSliceStream::next` (`Call`, `StartApplicable`, `Return`; one `Apply...`
  action per branch), which walk over copies of the heads (`labels`).

The lattice:

* `DenseSlice` - `struct DenseSlice`. A slice is a record of its cells and its cache; the
  methods are operators from slices to slices, so that the case of an instruction which calls
  several of them is their composition. The actions let a caller make any call at any time.
  A call on an empty cell that needs an occupied one throws before it changes anything; here
  it is not enabled. `CoreHome` is what the constructor makes of the layout and the ids: the
  pairs of a core qubit and its cell, `FactoryTiles` the cells of its distillation regions or
  its reserved tiles.
* `SliceGeometry` - cells beside each other, sides that carry an operator, and what
  `advance_slice` makes of one patch; shared by the next two.
* `Lattice` - extends it with the cases of `try_apply_instruction_direct_followup` that need no
  local instructions (single patch measurements, single qubit gates, multi patch measurements,
  `PatchInit`, rotations and their busy regions, magic state and Y state requests) and with
  `advance_slice`. Each action is one case applied with success. `merge_patches`,
  `mark_routing_region` and `stitch_boundaries` are operators on slices;
  `find_routing_ancilla` is the set of routes that the search may return. `busy` holds the
  `BusyRegion` follow-ups. `AdvanceSlice` is the traversal of `advance_slice`; `turn` then goes
  through the loop over factories (`Distil`) or reserved tiles (`Respawn`), one action for each
  turn, and instructions wait until it is 0.
* `LongRangeBell` - `compile_long_range_Bell` and the functions that make a CNOT, or a segment
  of one between two crossings, out of its results: pure functions from a route to two layers
  of local instructions.
* `CrossingRoutes` - the routes that the EDPC search may return, `mark_routing_region` and the
  labels of crossing cells with their flips.
* `BellOperations` - `BellPairInit` and `BellBasedCNOT` from route to last local instruction.
  Its rounds (`StartHeads`, `StartCompiling`, `StartBeginning`, `EndWave`) are those of the wave
  scheduler; a visit is one of `RouteCNOT`, `CompileCNOT`, `BeginCNOT`, `BeginPair`, `Waits`
  (no route) or `Continue`; `Progress` applies the local instructions of a phase until one
  fails (`ApplyFrom`), as `try_apply_local_instruction` does.
* `RouteSearch` - the search behind the routers, one step per vertex taken from the priority
  queue (`Pop`), with the arrays that are kept from one search to the next and told apart by an
  epoch (`begin_epoch`, `is_set`, `is_closed`), for Dijkstra's algorithm, which is the slicer's
  default, and for A*, and `CachedRouter` in front of it. Queries come one after another, each on
  a lattice of its own. Of the queue it has the contract only (`Top`): it gives a vertex with the
  least key as long as no key was `lowered` in it, and any vertex after that.
* `RouteAnswers` - what the answers of the search are worth, against the set of all routes.
* `HeapSearch` - the same search with the queue as it is: `std::priority_queue` over a vector, a
  binary heap (`push_heap`, `adjust_heap`) whose keys the search lowers in place
  (`custom_graph_search.cpp:357`) without putting it in order again. Nothing is left to choice.
  It is shown to keep to the contract (`KeepsContract`: it implements `RouteSearch`).

Proofs are in `StreamedSlices_proofs`, in `WaveScheduler_proofs` and `WaveOrder_proofs`, which
builds on it, in `WaveSlices_proofs`, `DagSlices_proofs` and `RouteSearch_proofs`, in
`DenseSlice_proofs`, and in `Lattice_proofs`, which builds on the latter. The
`MC` modules give the constants their values. A definition that a comment calls faulty is a
neighbouring one with a plausible bug in it. No action uses it: put in its place, it makes a
property fail, which shows that the property would notice.

How they fit together: `Programs` gives the pipelines their instructions and shows what `Lattice`
takes for granted of them (ids, rotations, what is given back). The pipelines abstract the lattice
to its answers, the lattice modules abstract the pipelines to the orders that `PatchOrder` allows.
`Lattice` and `CrossingRoutes` take any shortest route for the answer of a search; for Dijkstra's
search that is `AnswersShortest`, and proved. `BellOperations` composes routes, crossings, local
instructions, slice, wave and guard in one module, because what goes wrong there goes wrong between
them.

### Abstractions

* **The lattice is the set of answers it may give.** For the pipelines the slice has no
  state: applying an instruction yields any result that its case in
  `try_apply_instruction_direct_followup` can return, whatever happened before. That is a
  superset of the real behaviours, so the safety properties carry over; `Terminates` holds
  although the lattice may refuse as often as it likes, but says nothing of a run in which an
  operation reschedules itself for ever.
* **Kinds.** `Plain` stands for all instructions that succeed or fail in one call, `H` is kept apart
  because it is not immediate, `S` for its follow-up, `Rotate` for the chain of busy regions it
  starts, `CNOT` for `BellBasedCNOT` and `Pair` for `BellPairInit`, which reschedule themselves; in
  EDPC mode a pair is begun at once and only CNOTs are deferred. A rescheduled operation may have
  come a step further or be what it was: when a local instruction fails the code answers with the
  operation itself and no error (`dpc:916`, `1159`, `1245`). `MaxSteps` bounds the steps that are
  told apart. In the wave model an operation may reschedule itself without end; in the stream and
  dag models every rescheduling adds a step, up to `LastStage`, since it adds a slice to the history
  or a node to the graph that is counted there. A busy region never fails: its own cells have just
  been cleared. In the two deferred rounds of EDPC mode the answer "active" is excluded, because the
  patches of the CNOT belong to it until the wave ends, and a decomposed CNOT always has a second
  phase.
* **Exceptions** that an application itself throws (options that do not fit together) end the
  run and are left out of the pipelines, which model their own; those of Bell operations are
  in `BellOperations` (`threw`).
* **Sequences.** The lists of the current wave are consumed, since a list that was gone
  through is only asked for its size again, for a statistic nobody reads. A dependent is a
  pair of an instruction and a patch, so that an instruction that is linked twice to the
  same predecessor is listed twice, as in the code.
* **Freed memory.** `GrowthMoves` says whether `std::vector` moves the records when it
  grows. A record holds a `std::deque` (under `tsl::ordered_set`), whose move constructor may
  throw in libstdc++; such builds copy, and the lists that outer loops are reading are freed:
  what they read from then on is any instruction. libc++ moves. The runs have
  `GrowthMoves = TRUE`; `MCWaveGrowth.cfg` has the other value, see below.
* **The dag.** `remove_node` erases from the very set it iterates over
  (`directed_graph.cpp:42-46`), which the standard leaves undefined; the model does what an
  ordered set on libstdc++'s deque does when its front is erased. This pipeline ignores
  `wait_at_most_for` and retries a fixed number of times (`MAX_RETRIES`). An instruction that
  reschedules itself may be applied a second time in the same slice, once among the proximate
  and once among the applicable ones, although the comments of `dependency_dag.hpp` ask for
  subsequent slices; the model has it so.
* **The pipelines are any order.** In `Lattice` it is the other way round: any instruction may
  come next and as many in a slice as succeed, except that a patch under rotation is left
  alone and an id is used while it is alive. Both are what `PatchOrder` grants. A case that
  answers with an error leaves the slice alone and is not an action.
* **What programs do to the lattice.** New ids are not those of core qubits (`Fresh`).
  Rotations are injected for core qubits and for borrowed Y states, not for magic states or
  ancillas (`MayRotate`, lifted by `RotateAnything`). A borrowed Y state is measured when
  twists are allowed and given back by a second request when they are not (`MayMeasure`,
  `MayGiveBack`). `Programs` has the streams this is read from.
* **Signs and outcomes.** `Programs` compares states up to Pauli operators, as usual for
  programs that keep Pauli corrections in a frame; daggers and outcomes are left out. The magic
  state is stood in for by the state that makes an S gate of the same gadget. `PatchReset`
  does nothing to a slice and resets the qubit. Other angles of `RZ` are decomposed upstream;
  annotated placements of ancillas are left out. Instruction files are sensible: they use
  patches between creation and measurement and rotate nothing themselves, since the boundary
  rotation stage keeps no record of explicit rotations. A patch that exposes both operators is
  recorded as exposing none after a rotation, which injects rotations that are not needed,
  never wrong ones. `ImplementsGates` holds in custom layouts too, where the stages inject nothing.
* **Routes** in `Lattice` and `CrossingRoutes` are the shortest open paths between matching
  sides, any of them, as Dijkstra's search answers. In `RouteSearch` ties are broken in every way;
  in `HeapSearch` as libstdc++ breaks them. Keys are compared exactly, not as floats.
* **Bell operations** share the lattice with the data qubits and each other; magic states, Y
  states and other instructions are left out of `BellOperations`. The ring of cells around the
  qubits that holds them has only dead ends between its patches and is cut off. The gate
  translation makes no Bell pairs, but an instruction file may have them in every mode, EDPC
  included (`ls_instructions_parse.cpp:110`); the slicer checks the layout, its lanes and local
  instructions only (`slicer.cpp:545-550`, `588`).
* **Distillation times** may be 0 (`--disttime 0`, `slicer.cpp:102-103`). Timers are counted down
  before they are looked at (`dpc:128`, `152`) and are as unsigned as in the code: `decremented`
  wraps to `TimestepValues - 1`, where `TimestepValues` stands for 2^32.

### History variables

`program`, `begun` and `ended` record the run for `PatchOrder`; `released`, `work_before`,
`refused`, `advances`, `failures` and `allowed` record what properties compare with the
program's own counters, `asked` what a router was asked, `idle_waves`, `changed` and `slices`
what Bell operations did, `ideal` what the gates of a file say. No guard reads them, except
that the length of the program, or of the list of queries, is bounded. In `Lattice`, `alive`
and `borrowed` are the program's knowledge of its ids, which its own instructions are chosen by;
in `Programs`, the sensible files are chosen by `alive`.

## The runs

| Run | Instance | Shows |
|---|---|---|
| `wave` | 2 patches, 6 instructions of every kind, programs up to 4, 1 step told apart of one that reschedules itself, a budget of 1 | types, `CountsExact`, `Custody`, `DoneIsDone`, `SlowOnesWait`, and that the wave scheduler implements `PatchOrder` (`RunsInPatchOrder`) |
| `edpc` | the same in EDPC mode with CNOTs and a Bell pair, programs up to 3, 2 steps told apart, with timeouts | the same for the deferred rounds; the guard hears of no progress only when nothing began, ended or was rescheduled (`GuardIsTold`); the stream ends unless an operation reschedules itself for ever (`Terminates`) |
| `stream` | programs up to 3, retries below, at and above a budget of 2, up to 2 reschedulings, with timeouts | completeness, the retry budget, one advance per slice, `PatchOrder`, termination |
| `dag` | programs up to 4, 1 retry, 1 rescheduling | the graph is the order of what is left of the program at every step (`GraphIsOrder`), what a loop has yet to visit is never stale (`WalksAreSafe`), `PatchOrder`, termination |
| `dense_slice` | 3 cells, 2 ids, one core qubit, one Y state, qubits and routing patches placed; any calls in any order | the cache never disagrees with the cells (`CacheSound`), and a slice with its cache implements `PatchIndex` (`KeepsIndex`) |
| `lattice` | 2 x 4 cells: a core qubit, an ancilla location, a Y state, a factory, a dead cell, room for routes; one more id | Y states are accounted for (`YStatesCounted`), rotations and routes are not cut into (`RotationsIntact`, `RoutesStayWhole`), no patch is lost or displaced (`KeepsPatches`: the lattice implements `PatchPlacement`) |
| `lattice_reserved` | 2 x 3 cells: a core qubit, an ancilla location, two tiles that respawn magic states, one of them with a distillation time of 0; Y states prepared by twists | the book of magic states agrees with the cells (`MagicStatesKnown`), and `KeepsPatches` for respawning |
| `search` | the heap, on 3 x 6 cells; a query on a free lattice, one on a lattice where every cell is taken, then any of 52; epochs of 3 values; four routers | an answer is a route, and there is none if there is no route; it is a shortest one unless a key was lowered (`AnswersShortest`); a cached route is a route as long as it is clear (`CachedIsRouteIfClear`; both are `RightAnswers`); A* answers with a shortest route also when keys were lowered and it pops a vertex that is not the least, which happens here (`HeapShortest`); the heap keeps to its contract (`KeepsContract`) |
| `bell` | the layout for 6 qubits; all choices of three CNOTs on six different qubits, CNOTs that share a qubit, a Bell pair beside CNOTs, with and without EDPC; a CNOT and a pair after it with EDPC | labels agree on every route that no pair was prepared on (`CrossingsAgree`); exceptions end the run in two situations and no other (`NoOtherThrow`); operations take the slices their layers need (`FinishesOnTime`), leave nothing behind (`NothingLeft`) and the data where it was (`DataStay`); a pair lies beside its patches (`PairReaches`) |
| `bell_pairs` | two Bell pairs on the layout for 6 qubits, without EDPC | *finding*: a run that does nothing is not given up (`GivesUp`) |
| `programs` | two qubits of three; files up to 3 gates of 10 kinds, or 3 instructions; compact, EDPC and custom layouts with every combination of options | the instructions do what the gates say (`ImplementsGates`), catalysts come back intact (`CatalystIntact`), merges find their operators exposed (`OperatorsExposed`), patches are made before and not used after their lives (`KnownPatches`) |
| `programs_cnot` | one gate | *finding*: a CNOT through an ancilla is no CNOT (`ImplementsCnots`) |

**Bounds.** Two patches are enough for every way two instructions can be related (disjoint,
one shared patch, two shared patches); four instructions for a release within a release and
for a follow-up between them; programs are all sequences of the listed instructions.
`DEFAULT_MAX_WAIT` is 9, larger than any retries a
run can use (the dag pipeline ignores it); as in the code nothing counts it down to zero.
An entry 0 of `dependency_counts` wraps to 255 when decreased, like the `uint8_t` it models.
In a slice, two ids and three
cells leave room for a move (source and target), for a patch that is overwritten, for an id
that two cells bear at once, and for a bystander. On the lattice, the Y state, the location
of the factory's states, the routes and both rotations compete for the same free cells; two
ids are what a merge needs, and the second one plays every part an id can play (ancilla, magic
state, Y state). Times of 2 let a timer run, expire and be reset. `TimestepValues` of 4 stands for
2^32 and lets a timer that wrapped run out. `EpochValues` of 3 stands for
2^32: three searches see an epoch begin, follow another, and wrap; the second stamps hardly any
cell, so that stale stamps of the first are there when the epoch comes back. On 3 x 6 cells A*
lowers keys, pops what is not the least, and with a worse heuristic answers with a detour. Three CNOTs on six qubits are
the fewest with two crossings on one route; the flips of labels run through such chains. Two
qubits and three gates let every gate meet a patch that is turned, a lent Y state and its
successor. There is no bound on the number of slices: the state spaces are finite and explored
to the end. The runs need between 20 seconds and three minutes each with two workers.

**Fairness.** Weak fairness of the whole next-state relation of the three pipelines: there is
one thread, the consumer's loop calls `next` until it gets null, and every loop in `next` goes
on as long as it can. The lattice may answer as it likes, also with an operation that reschedules
itself for ever, which `Terminates` names as the one way not to end: nothing in the code stops
it. The other modules state no liveness; that a run which does nothing is given up is the safety
property `GivesUp`, and the code does not keep to it. Deadlock checking
is off where the run may end (exhausted, exception, out of time, last query answered, end of
the file).

**Configurations beside the runs.** Eight more configurations show what becomes of a property
outside the instances of the runs. TLC finds each of them violated:

* `MCWaveGrowth.cfg` - with `GrowthMoves = FALSE`, `AssertedCounts`, the assertion at
  `wave_scheduler.cpp:195`, fails: `schedule_dependent_instructions` walks
  `records_[...].dependents` while the instructions it tries may append to `records_`. The
  shortest program is one instruction on both patches, a rotation of one, and two gates on the
  other.
* `MCLatticeRespawn.cfg` - a reserved tile keeps its timer at 0 once its first state was
  spawned. The next state is spawned when the tile holds neither a prepared state nor a qubit,
  which is also so while the patch on it is being rotated. The streams of the compiler never
  rotate a magic state; a program in the instruction language can (`RotateAnything`).
* `MCLatticeTwists.cfg` - when twists are allowed a Y state is measured where it lies, and the end of
  the slice clears its cell. If the cell is one that the layout lists for predistilled Y states,
  `YStatesCounted` fails: the next request dereferences the patch of a free cell (`dpc:1342`). The slicer
  makes layouts with such cells for `--notwists` only, and injects no requests on custom ones;
  an instruction file on a custom layout can make them.
* `MCBellCrowded.cfg` - the comments at `dense_slice.cpp:562` and `566` say that crossings next to a
  crossing lie across from each other. Three CNOTs on ten qubits bring three routes together so
  that they do not, and line 570 throws: `NeverThrows` fails. The slicer does so too for the CNOTs
  3-9, 7-0, 6-4 in the one lane EDPC layout.
* `MCBellPairAfterCNOT.cfg` - in an EDPC wave a CNOT has marked its route and will be compiled at
  the end of the wave; a Bell pair after it is prepared at once, and may take cells of that route
  (`dpc:367`, `371`, `428`, `484`). Compiling the CNOT then throws "Invalid BoundaryType in EDPC
  compilation." (`dpc:1104`): `NeverThrows` fails. In both situations `NoOtherThrow` of the `bell`
  run says that there is no third.
* `MCLatticeZeroTime.cfg` - a factory with a distillation time of 0: its timer wraps at the first
  slice, and its state comes after 2^32 slices instead of at once. `WithinDistillationTime` fails.
* `MCProgramsFirst.cfg` and `MCProgramsIds.cfg` - a source reads its first gate before the
  slicer overrides the default placement of ancillas (`slicer.cpp:583`), so a file that begins
  with a CNOT asks for a dedicated cell in a layout without one (`AncillaPlaceable`); and the id
  generator of an instruction file begins behind the core qubits, where a file may have an id of
  its own (`KnownPatches`).

`LatticeTypeOK`, `BellTypeOK`, `SliceTypeOK`, and `TypeOK` of `StreamedSlices` are in no
configuration; a line under `INVARIANTS` checks them.

## What the runs and proofs say of the code

* The wave scheduler's counts are exact at every point of its recursion, and no instruction
  is lost or tried twice, in wave mode and in EDPC mode - provided the records are not
  copied while a loop reads them.
* All three pipelines implement one order. The dag pipeline keeps it although it takes nodes out of
  its graph and puts chains in while it walks over the heads.
* On the lattice, whatever the order of instructions, no patch of a program is lost, shares a
  cell or is displaced, while routes, rotations, new patches and distilled states compete for
  cells, and the books of magic states and Y states agree with the cells.
* The search answers as if its arrays were fresh. The wrap of the epoch matters: without the
  reset a stale entry is taken for a new one. A* pops vertices that are not the least once it has
  lowered a key in the heap; on the lattices of the run its routes are shortest all the same, as
  the comment at `custom_graph_search.cpp:329-330` expects.
* In the smaller layouts crossing routes of EDPC waves are labelled consistently however many
  labels have to be flipped, unless a Bell pair is prepared on them, and every CNOT takes three
  slices at most after its first.
* **`bell_pairs`** (comment and code disagree): the guard "detects when a pipeline stops making
  forward progress and aborts with an actionable diagnostic instead of looping forever. Shared by
  the stream and wave pipelines" (`dense_patch_computation.hpp:66-67`). The halves of a Bell pair
  that has ended stay on the route of another. Its visits apply nothing, answer with the
  operation itself and without an error (`dpc:916`), and count as progress: the guard never
  throws. Of the stream pipeline the same holds, as its `ApplyReschedules` resets the guard.
* **`programs_cnot`** (code bug): the ancilla of a CNOT is prepared in |+>, joined to the control
  by Z and to the target by X, and then measured in X (`ls_instructions_from_gates.cpp:124`).
  The last two measure X of the target. With the control first the ancilla has to be measured
  in Z; with the target first it has to start in |0>. Bell based CNOTs, and everything else,
  do what the gates say.
* Two counters are reported differently from what their names say; no property is about
  them. `slice_count_` starts at 1 and the wave pipeline adds 1 per slice, the last one
  included, though it is "final once the stream is exhausted"
  (`dense_patch_computation.hpp:117`); the stream pipeline starts at 1 too, but does not count
  slices that end with an instruction in error (`SlicesAreAccountedFor` proves the exact
  relation). And `ls_instructions_count`, printed as "LS Instructions read" (`slicer.cpp:880`),
  is increased by the wave pipeline for every application.

## What is proved

The theorems state, for every value of the constants, what the runs check on small instances. Each
component has an inductive invariant, with one lemma per action that it is preserved; TLC checked it
on the instances of the runs first.

| Theorems of | In | State the properties |
|---|---|---|
| stream pipeline | `StreamedSlices_proofs` | `TypeOK`, `InProgramOrder`, `ExhaustedIsComplete`, `RetriesAreSlices`, `RetryBudget`, `OneAdvancePerSlice`, `SlicesAccountedFor`, `RunsInPatchOrder` |
| wave scheduler | `WaveScheduler_proofs`, `WaveOrder_proofs` | `TypeOK`, `CountsExact`, `AssertedCounts`, `Custody`, `SlowOnesWait`, `DoneIsDone`, `RunsInPatchOrder` |
| wave slice stream | `WaveSlices_proofs` | `Custody`, `RunsInPatchOrder`, `GuardIsTold` |
| dag pipeline | `DagSlices_proofs` | `GraphIsOrder`, `WalksAreSafe`, `RunsInPatchOrder` |
| slice | `DenseSlice_proofs` | `SliceTypeOK`, `CacheSound`, `KeepsIndex` |
| lattice | `Lattice_proofs` | `LatticeTypeOK`, `MagicStatesKnown`, `YStatesCounted`, `RotationsIntact`, `RoutesStayWhole`, `KeepsPatches` |
| routers and search | `RouteSearch_proofs` | `AnswersShortest`, `CachedIsRouteIfClear`, and `RightAnswers`, which is both |

### The stream pipeline

From `BoundsAssumption` and `InstructionsAssumption` (what an instruction looks like; the default
wait is positive), `BudgetAssumption`, and `StreamAssumption` (only the wave pipeline puts a
router in EDPC mode). The argument has two layers. `OrderInv` says that at most one instruction is
in hand - in the queue, being applied or in error (`OneInHand`) - that it is the last one read and
has not ended (`LastIsInHand`), and that the guard's count is within its budget until it throws.
Program order alone is not inductive: that a popped instruction is the last one read follows only
from the queue never holding two. The second layer is inductive relative to it: `RetryInv` adds
that the remaining wait of the instruction in hand and the guard's count sum to what it was allowed
(`InHandWaits`), which is what makes the two budgets run out at the same attempt; `AdvanceInv` ties
the deferred work (`needs_advance`, `pending_error`, the final slice) to the number of slices and
advances; `CountInv` does so for the counters. The refinement follows from `LastIsReady`:
everything before the last instruction has ended.

### The wave pipeline

Both modes, from the assumptions on instructions, `PatchesAssumption` (finitely many patches) and,
beyond types, the hypothesis `GrowthMoves`: without it loops read freed memory, and
`MCWaveGrowth.cfg` shows that the counts then go wrong. `AssertionsHold` is the counterpart of that
configuration: under `GrowthMoves` the assertion at `wave_scheduler.cpp:195` cannot fail. The
inductive invariant is `SchedulerInv`:

* `Typed` - ids index the records, and a record past the program continues an instruction that has
  begun. That an instruction is tried with a record needs `RoundsOfMode`: the deferred rounds exist
  in EDPC mode only.
* `LinkedInv` - what the links say. An instruction is linked to the last one before it on each of
  its patches (`LinksInv`), `last_instruction` is that last one (`LastInv`), and the instructions of
  one root share its links (`OwnersInv`). Only a chain of links leads to the others before it, so
  that the order of a patch rests on induction along the program.
* `CountedInv` - `CountsExact`, with what makes it inductive: the loops over dependents that are half
  way, at any depth of the recursion, have links of instructions that have ended, no link in two of
  them (`FramesInv`, `ScopeInv`). A count that is decreased therefore still counts that link.
* `CustodyInv` - an instruction that has not ended and waits for nothing is in exactly one of the
  eight lists or in hand; `RoundsInv` and `DeferredInv` say which lists a round has emptied and what
  the deferred ones hold, without which an EDPC round could drop a CNOT.
* `PredecessorsFirst` and `SlowOnesWait`.

`DoneIsTold` is the absence of a cycle of waits: the earliest instruction that has not ended would
have to wait for an earlier one. The refinement of `PatchOrder` is `PredecessorsFirst` at each step.
`StreamDrivesScheduler` says that the pipeline, with guard, timeout and consumer, only ever uses the
scheduler as `Spec` has it, and so carries these theorems over. `GuardIsToldTheTruth` needs
`ProgressInv` besides: as long as a wave has `applied` nothing it has released nothing, and what it
has changed are CNOTs that are in its own lists of deferred work. It says what the guard is told,
not that the pipeline makes progress: an operation that reschedules itself is taken for progress.
Counts are bytes in the code: a decrement of 0 wraps to 255 in the model (`Decremented`), and is
proved never to happen; sums have no bound in the model, since an instruction has at most one link
for each of its patches and the code asserts that these are at most `UINT8_MAX`
(`wave_scheduler.cpp:33`).

### The dag pipeline

From `DagAssumption`. `DagInv` is `WellFormed` (both maps of the graph hold the same edges between
the same nodes, proximate heads are heads), `OrderKept` (`GraphIsOrder` as a relation of graph,
program and what is done), `HistoryInv` (what begins has its predecessors done), `BegunInv` (the
proximate heads are what has begun and not ended), `WalkInv` (what a loop has yet to visit is in the
graph and waits for nothing), `PhaseInv` and `RetryInv`. Each function of `DependencyDag` that changes the
graph is shown to be a relation of its own - `Popped`, `Replaced`, `Pushed` - that keeps `WellFormed`
and `OrderKept`. The case that needs all of it is a chain of follow-ups that takes a node's place while
the loop goes on: the chain's first node inherits the edges, so no later label of the walk is freed
or blocked by it.

### Slice and lattice

`DenseSlice_proofs` covers every grid, layout and set of ids, and any calls, from `LayoutAssumption`
(core qubits have cells of their own), `CallersAssumption` (what callers place is a routing patch or
has opposite sides of one type) and `OptionalsAssumption` (`nullopt` is no value). The inductive
invariant is `Good`: the slice is well typed, its patches well shaped, its cache sound. In a sound
slice the eviction, which drops the entry of the patch at a cell if it points there, drops every
entry that points there (`EvictionIsExact`), and a look-up is the cache itself; placing, clearing and
renaming are then one operation, `Rewritten`, which is a `Give` or a `Strip` of the index.

`Lattice_proofs` builds on it, with `InstancesAssumption`: a layout is read from a grid with one
character per cell, so that Y states, factories and dead cells are apart. Distillation times may
be any, 0 included. `LatticeInv` is `Good` and

* `RegionsInv` - a rotation holds two cells, marked as a rotation's, that no other rotation has; its
  patch is off the lattice, its id not in the cache;
* `IdsInv` - every id that is alive is in the cache or in a rotation, never both, and not on a patch
  that the end of the slice clears;
* `MagicInv` - the books of magic states agree with the cells, and no state is due to be cleared;
* `YStatesInv` - a cell of a Y state holds an idle one, a borrowed one, or the rotation of a borrowed one;
* `TilesInv` and `TimersInv` - reserved tiles are free only while `advance_slice` is before them; a
  timer whose time is positive never exceeds it and is at zero only on a reserved tile where
  nothing distils, so that it does not wrap around. Of a timer whose time is 0 there is no more to
  say than that it stays within its numbers.

None of the properties is inductive without the others: that a rotation is not cut into needs that
no id in the cache points to its cells, which needs the books of Y states. Actions are
shown to be one of four relations of two slices - `Works` (patches are worked on, routes are
drawn), `Becomes` (one cell changes hands), `Settles` (an id comes to life), `Spawns` (a state is
put on the lattice) - and the invariant to survive these. The theorems have two hypotheses, and a
configuration below the runs for what happens without each: `RespawnIsSafe` (reserved tiles and a
program that rotates magic states do not come together, `MCLatticeRespawn.cfg`) and `YStatesStay`
(nor twists and Y state cells, `MCLatticeTwists.cfg`). Both are what the streams of the compiler are
like.

`RoutesStayWhole` rests on `LatticeInv` and on `RoutesInv`, which says more than the property:
there are cells of routes only while instructions are applied (`turn = 0`); each is a routing patch
without an id, has two joined sides, and beyond each of them is a cell whose patch has the side in
between joined too (`Holds`), or had been lifted from there by a rotation that is not due in this
slice, so that no other patch takes its place before the routes are cleared. It survives since a
patch with a joined side is not turned by a gate, is kept by what works on it (`Embraces`), and is
neither replaced nor cleared within the slice (`RoutesSurvive`). That a new route is whole to begin
with is `MergedRoute`. Routes of n cells are a recursive function of n; `PathsAre` gives its closed
form `PathsOf`, by induction over the set of lengths for which they agree, and `Drawn` follows the
loop that draws a route cell by cell. A route of one
cell would have but one joined side if it led from a patch back to it: the sides that an S gate joins
are of different types, and no cell faces both (`FacingTwice`).

### Routers and graph search

From `SearchAssumption`: cells are a finite grid, the simulated vertex of a search for a cycle is
none of them, and that there is no answer is told apart from a route of no cells. The proof is for
every grid, every sequence of queries on lattices that change in between, both heuristics, and
every number of epochs from which they start anew (2 at least).

What is proved is about every queue that keeps to the contract `Top`, the code's heap among them as
far as `KeepsContract` shows it on an instance: answers are routes in any case, and shortest as long
as no key was lowered in the search, which in Dijkstra's search none is. For A* after a lowered key
nothing is proved about length; `HeapShortest` is checked.

The heuristic is a Euclidean distance, so that keys are sums with square roots. The model compares
them (`AtMost`) without roots, and `KeysOneFurther` is all the search needs of it: the heuristic
falls by at most 1 from a cell to one beside it (it is consistent), hence a key never falls along
a step. For Dijkstra's algorithm it is 0. `Searching` then says of a search under way

* what is stamped in this epoch is a tree: every vertex that is set was reached from one that is
  closed (`Expanded`) and has a lower distance, back to the source, whose distance is 0 (`Tree`);
  what an earlier search left has another stamp, `EpochBegins` with the reset when the epoch
  wraps around;
* the neighbours of a closed vertex are set, so that a target which can be reached is;
* until a key is lowered, they are at most one further than it, and no entry that waits in the
  queue has a key below that of a closed one (`Ordered`);
* without a heuristic the distances that wait differ by one at most (`Level`), and no key is lowered.

That the target has its least distance when it is popped is the usual argument: a shorter walk would
leave the closed vertices at one that waits, whose key is lower. It is an induction
along a walk; walks are a recursive function of the number of steps, for which `WalksAre` gives a
closed form, and the induction is over the set of those numbers for which the claim holds
(`SetInduction`). `Traced` carries the tree to the loop that follows the predecessors, which ends at
the source, since distances fall on the way (`BackIs`); for a target that was not reached it
does not leave the target (`TraceIsLost`).
The last part, `CachedWereRoutes`, says that every answer in the cache was a route of the lattice it
was asked for; `CachedRoutesStayRoutes` carries it to the lattice it is asked for again.

### Model-checked only

* Liveness (`Terminates`) is beyond the prover.
* `BellOperations` and `Programs`: finite instances only. Several of their properties are about the
  layouts that the slicer makes, and there is no theorem for every value of the constants.
  `Programs` computes with recursive operators over stabilizers, which the prover cannot take up.
* `ExhaustedIsComplete` and `RetryBudget` are proved for the stream pipeline; their counterparts for
  the other two are `DoneIsTold` and `RetryInv`.

## Not modelled

* `TwoPatchMeasure`, the merge under `local_instructions` (`dpc:458-473`, `826-853`): one step on
  two adjacent patches. Its checks of mismatching sides construct an exception without throwing it.
* Two free lanes between qubits in EDPC, which the slicer does not permit (`slicer.cpp:545`).
* Parsing and printing of instructions, QASM, gate approximation and the decomposition of `RZ`:
  pure functions between texts and tables, without state.
* Layouts: static data, whose results the instances have. The Boost search: a library algorithm.
* JSON, statistics, Minetest output, sparse slices: read-only views. The PostgreSQL stream and the
  bindings: input, output and packaging.

## What is left

`BellOperations`: `DataStay` and `NothingLeft` for every program, from what each operation may touch.
