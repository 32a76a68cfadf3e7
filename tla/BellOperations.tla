--------------------------- MODULE BellOperations ---------------------------
(***************************************************************************)
(* BellBasedCNOT and BellPairInit (dense_patch_computation.cpp): long      *)
(* range operations that are compiled to local instructions along a route  *)
(* and applied over several slices, in the waves of WaveScheduler and      *)
(* under the guard of WaveSlices.                                          *)
(*                                                                         *)
(* Without EDPC an operation is routed, compiled and begun at once.  With  *)
(* EDPC a CNOT is visited three times in its first wave: it marks a route, *)
(* then, when all CNOTs of the wave have one, it is compiled, then it      *)
(* begins.  A Bell pair begins at once with EDPC, too, and where the CNOTs *)
(* before it have marked their routes.                                     *)
(***************************************************************************)
EXTENDS CrossingRoutes, NoProgressGuard

CONSTANTS
  Cases                 \* values of get_EDPC(), each with a program

INSTANCE LongRangeBell WITH NoSide <- NoId
Operation == [kind : {"BellBasedCNOT", "BellPairInit"},
              source : PatchIds, source_op : {"X", "Z"},
              target : PatchIds, target_op : {"X", "Z"},
              side1 : PatchIds, side2 : PatchIds]

ASSUME CasesAssumption == Cases \subseteq BOOLEAN \X Seq(Operation)

VARIABLES
  EDPC,                 \* router.get_EDPC()
  program,
  operations,           \* for each of them, what its instruction holds
  EDPC_crossing_vertices,
  marked_boundaries,    \* marked_rough_ and marked_smooth_boundaries_EDPC
  round,                \* which list of the wave is being visited
  todo,                 \* what is left of that list
  heads,                \* of this wave until they are visited, then of the next
  deferred_to_end,
  proximate_heads,      \* of the next wave
  applied,              \* applied_wave_size > 0
  changed,              \* a local instruction was applied in this wave
  idle_waves,           \* in how many waves in a row none was
  threw

marks == <<EDPC_crossing_vertices, marked_boundaries>>
wave == <<round, todo, heads, deferred_to_end, proximate_heads, applied, changed>>
told == <<guardVars, idle_waves>>
bellVars == <<slice, EDPC, program, operations, marks, wave, told, threw>>

-----------------------------------------------------------------------------
(* Local instructions: a slice, and whether the instruction could be       *)
(* applied to it.                                                          *)

Failed(s) == [slice |-> s, applied |-> FALSE]
Succeeded(s) == [slice |-> s, applied |-> TRUE]

(* Faulty: a cell that was reserved for the next slices is taken for occupied. *)
MayPlaceNow(s, c) == is_cell_free_or_activity(s, c, IF EDPC THEN {"EDPC"} ELSE {})

MayPlace(s, c) == is_cell_free_or_activity(s, c, IF EDPC THEN {"EDPC", "Reserved"} ELSE {})

Idle(s, c) == ~IsFree(s, c) /\ ~is_active(s.cells[c])

Put(s, c, i) == place_dense_patch_at(clear_patch_at(s, c), c, basic_square_patch(i))

ActivateBoth(s, c, n) == Activate(Activate(s, c, n), n, c)

Measure(s, c) == set_patch_activity(s, c, "Measurement")

Moved(s, from, to) ==
  assign_patch_id(Measure(ActivateBoth(Put(s, to, s.cells[from].id), from, to), from),
                  from, NoId)

(***************************************************************************)
(* A patch that is prepared or extended goes to a cell that is free or     *)
(* marked by a route; a patch that is measured or extended is not active,  *)
(* so that two layers need two slices.                                     *)
(***************************************************************************)
try_apply_local_instruction(s, ins) ==
  LET a == ins.cells[1]
      b == ins.cells[2]
  IN CASE ins.kind = "BellPrepare" ->
            IF MayPlace(s, a) /\ MayPlace(s, b)
            THEN Succeeded(ActivateBoth(Put(Put(s, a, ins.ids[1]), b, ins.ids[2]), a, b))
            ELSE Failed(s)
       [] ins.kind = "BellMeasure" ->
            IF Idle(s, a) /\ Idle(s, b)
            THEN Succeeded(Measure(Measure(ActivateBoth(s, a, b), a), b))
            ELSE Failed(s)
       [] ins.kind = "Move" ->
            IF Idle(s, a) /\ MayPlace(s, b) THEN Succeeded(Moved(s, a, b)) ELSE Failed(s)
       [] ins.kind = "ExtendSplit" ->
            IF Idle(s, a) /\ MayPlace(s, b)
            THEN Succeeded(ActivateBoth(Put(s, b, NoId), a, b))
            ELSE Failed(s)
       [] ins.kind = "MergeContract" ->
            IF Idle(s, a) /\ Idle(s, b)
            THEN Succeeded(Measure(ActivateBoth(s, a, b), b))
            ELSE Failed(s)

(***************************************************************************)
(* The instructions of a list from a position on, until one fails.         *)
(***************************************************************************)
ApplyFrom(s, list, counter) ==
  LET run[k \in counter .. Len(list)] ==
        IF k = counter THEN [slice |-> s, counter |-> counter]
        ELSE LET last == run[k - 1]
                 r == try_apply_local_instruction(last.slice, list[k])
             IN IF last.counter = k - 1 /\ r.applied
                THEN [slice |-> r.slice, counter |-> k] ELSE last
  IN run[Len(list)]

-----------------------------------------------------------------------------
(***************************************************************************)
(* An instruction is a head when all earlier ones with a patch in common   *)
(* have ended.                                                             *)
(***************************************************************************)
Ends(k) == {program[k].source, program[k].target}

Released(waiting, ended) ==
  SelectSeq([k \in DOMAIN program |-> k],
            LAMBDA k : /\ k \in waiting
                       /\ \A j \in 1 .. (k - 1) : Ends(j) \cap Ends(k) # {} => j \in ended)

With(status) == {k \in DOMAIN operations : operations[k].status = status}

(***************************************************************************)
(* The instructions that depend on k and, when it has ended, on nothing    *)
(* else.                                                                   *)
(***************************************************************************)
Dependents(k) ==
  Released({j \in With("waiting") : j > k /\ Ends(j) \cap Ends(k) # {}}, With("ended") \cup {k})

BellInit ==
  /\ SliceInit
  /\ \E case \in Cases : EDPC = case[1] /\ program = case[2]
  /\ operations = [k \in DOMAIN program |->
       [status |-> "waiting", route |-> <<>>, local_instruction_sets |-> <<>>,
        phase |-> 1, counter |-> 0, slices |-> 0]]
  /\ EDPC_crossing_vertices = {}
  /\ marked_boundaries = {}
  /\ round = "proximate"
  /\ todo = <<>>
  /\ heads = Released(DOMAIN program, {})
  /\ deferred_to_end = <<>>
  /\ proximate_heads = <<>>
  /\ applied = FALSE /\ changed = FALSE
  /\ GuardInit /\ idle_waves = 0
  /\ threw = FALSE

Visited == Head(todo)

Visiting(rounds, kind, status) ==
  /\ ~threw
  /\ round \in rounds /\ todo # <<>>
  /\ program[Visited].kind = kind
  /\ operations[Visited].status = status

(***************************************************************************)
(* The phase that an operation is in is applied as far as it can be.  The  *)
(* operation has ended if that was its last, and comes back in the next    *)
(* slice otherwise: also if one of its local instructions failed, which is *)
(* not an error.  What was waiting for it is tried in this wave: from the  *)
(* heads round on at once.                                                 *)
(***************************************************************************)
IsLastPhase(op) ==
  LET sets == op.local_instruction_sets
  IN op.phase = Len(sets) \/ (op.phase = 2 /\ sets[3] = <<>>)

Progress(s, op) ==
  LET r == ApplyFrom(s, op.local_instruction_sets[op.phase], op.counter)
      over == r.counter = Len(op.local_instruction_sets[op.phase])
      status == IF over /\ IsLastPhase(op) THEN "ended" ELSE "compiled"
      next == [op EXCEPT !.status = status]
  IN /\ slice' = r.slice
     /\ operations' = [operations EXCEPT ![Visited] =
          IF over /\ ~IsLastPhase(op) THEN [next EXCEPT !.phase = @ + 1, !.counter = 0]
          ELSE [next EXCEPT !.counter = r.counter]]
     /\ proximate_heads' = IF status = "ended" THEN proximate_heads
                           ELSE Append(proximate_heads, Visited)
     /\ LET released == IF status = "ended" THEN Dependents(Visited) ELSE <<>>
        IN IF round = "proximate"
           THEN heads' = heads \o released /\ todo' = Tail(todo)
           ELSE todo' = released \o Tail(todo) /\ UNCHANGED heads
     /\ applied' = TRUE
     /\ changed' = (changed \/ r.counter # op.counter)

(***************************************************************************)
(* An operation is back, in a later slice or at the end of its first wave. *)
(* An error of an instruction that is back ends the program.               *)
(***************************************************************************)
EndsOnLattice(k) == \A i \in Ends(k) : get_cell_by_id(slice, i) # Nowhere

EndsIdle(k) == \A i \in Ends(k) : Idle(slice, get_cell_by_id(slice, i))

Continue(kind) ==
  /\ Visiting({"proximate", "begin"}, kind, "compiled")
  /\ IF ~EndsOnLattice(Visited) \/ (kind = "BellBasedCNOT" /\ ~EndsIdle(Visited))
     THEN /\ threw' = TRUE
          /\ UNCHANGED <<slice, operations, todo, heads, proximate_heads, applied, changed>>
     ELSE Progress(slice, operations[Visited]) /\ UNCHANGED threw
  /\ UNCHANGED <<EDPC, program, marks, round, deferred_to_end, told>>

ContinueCNOT == Continue("BellBasedCNOT")

ContinuePair == Continue("BellPairInit")

-----------------------------------------------------------------------------
(* First visits. *)

(***************************************************************************)
(* A CNOT goes from the Z sides of its control to the X sides of its       *)
(* target.                                                                 *)
(***************************************************************************)
find_routing_ancilla(k) ==
  ShortestRoutes(slice, get_cell_by_id(slice, program[k].source), program[k].source_op,
                 get_cell_by_id(slice, program[k].target), program[k].target_op, EDPC)

MayRoute(k) ==
  /\ EndsOnLattice(k)
  /\ program[k].kind = "BellBasedCNOT" => EndsIdle(k)
  /\ find_routing_ancilla(k) # {}

(***************************************************************************)
(* Routes here include the cells of source and target.                     *)
(***************************************************************************)
TooShort(route) == Len(route) < 4

(***************************************************************************)
(* An error: the instruction waits for the next wave.                      *)
(***************************************************************************)
Waits ==
  /\ todo' = Tail(todo)
  /\ heads' = Append(heads, Visited)
  /\ UNCHANGED <<slice, EDPC, program, operations, marks, round, deferred_to_end,
                 proximate_heads, applied, changed, told, threw>>

Throws ==
  /\ threw' = TRUE
  /\ UNCHANGED <<slice, EDPC, program, operations, marks, wave, told>>

WaitForRoute ==
  /\ \E kind \in {"BellBasedCNOT", "BellPairInit"} : Visiting({"heads"}, kind, "waiting")
  /\ ~MayRoute(Visited)
  /\ Waits

WaitTooShort ==
  /\ Visiting({"heads"}, "BellPairInit", "waiting")
  /\ MayRoute(Visited)
  /\ \E route \in find_routing_ancilla(Visited) : TooShort(route)
  /\ Waits

Begin(route, layers) ==
  /\ Progress(slice, [operations[Visited] EXCEPT
       !.route = route, !.local_instruction_sets = <<layers[1] \o layers[2]>>])
  /\ UNCHANGED <<EDPC, program, marks, round, deferred_to_end, told, threw>>

(***************************************************************************)
(* A pair is prepared on the cells between its two ends.                   *)
(***************************************************************************)
BeginPair ==
  /\ Visiting({"heads"}, "BellPairInit", "waiting")
  /\ MayRoute(Visited)
  /\ \E route \in find_routing_ancilla(Visited) :
       LET between == SubSeq(route, 2, Len(route) - 1)
       IN /\ ~TooShort(route)
          /\ Begin(route, compile_long_range_Bell("Prep", between, 0, Len(between) - 1, FALSE,
                            program[Visited].side1, program[Visited].side2))

BeginCNOT ==
  /\ ~EDPC
  /\ Visiting({"heads"}, "BellBasedCNOT", "waiting")
  /\ MayRoute(Visited)
  /\ \E route \in find_routing_ancilla(Visited) :
       IF TooShort(route) THEN Throws
       ELSE Begin(route, WholeCNOT(route, program[Visited].side1, program[Visited].side2))

(***************************************************************************)
(* The marked sides of the patches themselves are remembered.              *)
(***************************************************************************)
Marks(route) ==
  LET m == mark_routing_region(slice, EDPC_crossing_vertices, route)
      n == Len(route)
  IN /\ slice' = m.slice
     /\ EDPC_crossing_vertices' = m.crossing
     /\ threw' = m.threw
     /\ operations' = [operations EXCEPT ![Visited].status = "routed",
                                         ![Visited].route = route]
     /\ marked_boundaries' = marked_boundaries \cup
          {<<route[1], Between(route[1], route[2]), "Rough">>,
           <<route[n], Between(route[n], route[n - 1]), "Smooth">>}
     /\ deferred_to_end' = Append(deferred_to_end, Visited)
     /\ todo' = Tail(todo)
     /\ UNCHANGED <<EDPC, program, round, heads, proximate_heads, applied, changed, told>>

RouteCNOT ==
  /\ EDPC
  /\ Visiting({"heads"}, "BellBasedCNOT", "waiting")
  /\ MayRoute(Visited)
  /\ \E route \in find_routing_ancilla(Visited) :
       IF TooShort(route) THEN Throws ELSE Marks(route)

(***************************************************************************)
(* The two phases of a CNOT of which every segment is compiled for the     *)
(* phase that its label stands for.                                        *)
(***************************************************************************)
Compiled(route, segments, side1, side2) ==
  LET last == Len(segments)
      layers(k) == Segment(route, segments[k], k, last, side1, side2)
      phases[k \in 0 .. last] ==
        IF k = 0 THEN <<<<>>, <<>>, <<>>, <<>>>>
        ELSE IF segments[k].label = "Reserved_Label1"
          THEN [phases[k - 1] EXCEPT ![1] = @ \o layers(k)[1], ![2] = @ \o layers(k)[2]]
          ELSE [phases[k - 1] EXCEPT ![3] = @ \o layers(k)[1], ![4] = @ \o layers(k)[2]]
  IN phases[last]

CompileCNOT ==
  /\ Visiting({"compile"}, "BellBasedCNOT", "routed")
  /\ EndsIdle(Visited)
  /\ LET op == operations[Visited]
         segments == route_endpoints(slice, op.route)
     IN IF \A k \in DOMAIN segments : segments[k].label \in Labels
        THEN /\ operations' = [operations EXCEPT ![Visited] =
                  [op EXCEPT !.status = "compiled", !.local_instruction_sets =
                     Compiled(op.route, segments, program[Visited].side1,
                              program[Visited].side2)]]
             /\ UNCHANGED threw
        ELSE threw' = TRUE /\ UNCHANGED operations
  /\ todo' = Tail(todo)
  /\ UNCHANGED <<slice, EDPC, program, marks, round, heads, deferred_to_end,
                 proximate_heads, applied, changed, told>>

-----------------------------------------------------------------------------
(* The rounds of a wave. *)

RoundOver(this, next) ==
  /\ ~threw /\ ~deadlock_reported
  /\ todo = <<>>
  /\ round = this /\ round' = next

StartHeads ==
  /\ RoundOver("proximate", "heads")
  /\ todo' = heads /\ heads' = <<>>
  /\ UNCHANGED <<slice, EDPC, program, operations, marks, deferred_to_end,
                 proximate_heads, applied, changed, told, threw>>

StartCompiling ==
  /\ EDPC
  /\ RoundOver("heads", "compile")
  /\ todo' = deferred_to_end
  /\ UNCHANGED <<slice, EDPC, program, operations, marks, heads, deferred_to_end,
                 proximate_heads, applied, changed, told, threw>>

(* Faulty: the sides keep their labels. *)
NoReset(s) == s

(***************************************************************************)
(* The boundaries of data qubits are reset before any CNOT begins.         *)
(***************************************************************************)
Reset(s) ==
  LET at(c, d) == {mark \in marked_boundaries : mark[1] = c /\ mark[2] = d}
  IN [s EXCEPT !.cells =
        [c \in Cells |->
           IF IsFree(s, c) THEN Free
           ELSE [s.cells[c] EXCEPT !.boundaries =
                   [d \in Directions |->
                      IF at(c, d) = {} THEN @[d]
                      ELSE [@[d] EXCEPT !.boundary_type = (CHOOSE m \in at(c, d) : TRUE)[3]]]]]]

StartBeginning ==
  /\ RoundOver("compile", "begin")
  /\ todo' = deferred_to_end
  /\ slice' = Reset(slice)
  /\ marked_boundaries' = {}
  /\ UNCHANGED <<EDPC, program, operations, EDPC_crossing_vertices, heads, deferred_to_end,
                 proximate_heads, applied, changed, told, threw>>

(***************************************************************************)
(* The wave is over, and the guard is told whether anything was applied.   *)
(***************************************************************************)
EndWave ==
  /\ RoundOver(IF EDPC THEN "begin" ELSE "heads", "over")
  /\ IF applied THEN note_progress ELSE note_no_progress
  /\ idle_waves' = IF changed THEN 0 ELSE idle_waves + 1
  /\ todo' = proximate_heads
  /\ proximate_heads' = <<>>
  /\ deferred_to_end' = <<>>
  /\ applied' = FALSE /\ changed' = FALSE
  /\ UNCHANGED <<slice, EDPC, program, operations, marks, heads, threw>>

(***************************************************************************)
(* The next slice is asked for.                                            *)
(***************************************************************************)
AdvanceSlice ==
  /\ ~deadlock_reported
  /\ round = "over"
  /\ round' = IF todo = <<>> /\ heads = <<>> THEN "done" ELSE "proximate"
  /\ slice' = traverse_cells_mut(
                slice,
                [c \in Cells |-> IF IsFree(slice, c) THEN Free ELSE Settled(slice.cells[c])],
                {c \in Cells : ~IsFree(slice, c) /\ Done(slice.cells[c])})
  /\ EDPC_crossing_vertices' = {}
  /\ operations' = [k \in DOMAIN operations |->
       IF operations[k].status = "compiled" THEN [operations[k] EXCEPT !.slices = @ + 1]
       ELSE operations[k]]
  /\ UNCHANGED <<EDPC, program, marked_boundaries, todo, heads, deferred_to_end,
                 proximate_heads, applied, changed, told, threw>>

BellNext ==
  \/ ContinueCNOT \/ ContinuePair
  \/ WaitForRoute \/ WaitTooShort
  \/ BeginPair \/ BeginCNOT \/ RouteCNOT \/ CompileCNOT
  \/ StartHeads \/ StartCompiling \/ StartBeginning \/ EndWave \/ AdvanceSlice

BellSpec == BellInit /\ [][BellNext]_bellVars
-----------------------------------------------------------------------------
(* Properties. *)

Route(k) == operations[k].route

OnRoute(k, c) == \E j \in DOMAIN Route(k) : Route(k)[j] = c

Marking(k) ==
  /\ ~threw /\ round \in {"heads", "compile"}
  /\ k \in Elements(deferred_to_end)

(***************************************************************************)
(* The type invariant.                                                     *)
(***************************************************************************)
BellTypeOK ==
  /\ slice.cache \in [PatchIds -> Cells \cup {Nowhere}]
  /\ \A c \in Cells : slice.cells[c] \in Patch \cup {Free}
  /\ \A k \in DOMAIN operations :
       /\ operations[k].status \in {"waiting", "routed", "compiled", "ended"}
       /\ \A j \in DOMAIN Route(k) : Route(k)[j] \in Cells
       /\ operations[k].status = "compiled" =>
            /\ operations[k].phase \in DOMAIN operations[k].local_instruction_sets
            /\ operations[k].counter <= Len(operations[k].local_instruction_sets[operations[k].phase])
  /\ EDPC_crossing_vertices \subseteq Cells
  /\ round \in {"proximate", "heads", "compile", "begin", "over", "done"}
  /\ {Elements(todo), Elements(heads), Elements(proximate_heads), Elements(deferred_to_end)}
       \subseteq SUBSET DOMAIN program
  /\ threw \in BOOLEAN

(***************************************************************************)
(* A Bell pair was prepared on cells of the route.                         *)
(***************************************************************************)
TakenByPair(k) ==
  \E l \in DOMAIN program :
    /\ program[l].kind = "BellPairInit"
    /\ \E j \in 2 .. (Len(Route(l)) - 1) : OnRoute(k, Route(l)[j])

(***************************************************************************)
(* While the routes of a wave are being marked and compiled, however often *)
(* labels are flipped: every edge of a route that no pair has taken from   *)
(* it has a label that both of its cells agree on, and where two of these  *)
(* routes meet they have different labels.                                 *)
(***************************************************************************)
EdgeLabel(k, j) == Label(slice, Route(k)[j], Between(Route(k)[j], Route(k)[j + 1]))

LabelsAt(k, c) ==
  {EdgeLabel(k, j) : j \in {i \in 1 .. (Len(Route(k)) - 1) : c \in {Route(k)[i], Route(k)[i + 1]}}}

CrossingsAgree ==
  \A k \in DOMAIN program : Marking(k) /\ ~TakenByPair(k) =>
    LET route == Route(k)
    IN /\ \A j \in 1 .. (Len(route) - 1) :
            /\ EdgeLabel(k, j) \in Labels
            /\ Side(slice, route[j + 1], route[j]).boundary_type = EdgeLabel(k, j)
       /\ \A l \in DOMAIN program \ {k} : \A c \in Cells :
            Marking(l) /\ ~TakenByPair(l) /\ OnRoute(k, c) /\ OnRoute(l, c) =>
              LabelsAt(k, c) \cap LabelsAt(l, c) = {}

(***************************************************************************)
(* No operation that has begun is refused, no two routes meet in a way     *)
(* that the marking of crossings throws at, and every segment of a route   *)
(* has a label when it is compiled ("Invalid BoundaryType in EDPC          *)
(* compilation.").  The code does not keep to it (MCBellCrowded.cfg and    *)
(* MCBellPairAfterCNOT.cfg).                                               *)
(***************************************************************************)
NeverThrows == ~threw

(***************************************************************************)
(* It throws in two situations and in no other: where a cell has crossings *)
(* on two sides that are not across from each other, and when a Bell pair  *)
(* was prepared on the route that a CNOT of the same wave has marked.      *)
(***************************************************************************)
CrossingsAroundACorner ==
  \E c \in EDPC_crossing_vertices : \E d \in {"top", "bottom"}, e \in {"left", "right"} :
    {Beyond(c, d), Beyond(c, e)} \subseteq EDPC_crossing_vertices

NoOtherThrow ==
  threw => CrossingsAroundACorner \/ \E k \in Elements(deferred_to_end) : TakenByPair(k)

(***************************************************************************)
(* With EDPC an operation takes at most as many slices as a CNOT has       *)
(* layers in both phases, whichever others it crosses; without, it takes   *)
(* two as long as no other one has a cell of its route.                    *)
(***************************************************************************)
Undisturbed(k) ==
  \A l \in DOMAIN program \ {k} : \A j \in 2 .. (Len(Route(k)) - 1) : ~OnRoute(l, Route(k)[j])

FinishesOnTime ==
  \A k \in DOMAIN program :
    IF EDPC THEN operations[k].slices <= 3
    ELSE Undisturbed(k) => operations[k].slices <= 1

(***************************************************************************)
(* The guard "aborts with an actionable diagnostic instead of looping      *)
(* forever": it has thrown when in more consecutive waves than its budget  *)
(* no local instruction was applied.                                       *)
(***************************************************************************)
GivesUp == idle_waves > max_no_progress_slices => deadlock_reported

(***************************************************************************)
(* The data qubits stay where they are, each id is on one cell, where the  *)
(* cache finds it, and between waves the sides are what they were.         *)
(***************************************************************************)
DataStay ==
  /\ \A c \in Cells : Bears(slice, c) # NoId => slice.cache[Bears(slice, c)] = c
  /\ \A i \in DOMAIN CoreHome :
       /\ Bears(slice, CoreHome[i]) = i
       /\ round \in {"proximate", "begin"} =>
            Deactivated(slice.cells[CoreHome[i]].boundaries) = basic_square_look.boundaries

(***************************************************************************)
(* Of an operation that has ended nothing stays on the lattice but what is *)
(* being measured and, of a pair, its two patches.                         *)
(***************************************************************************)
NothingLeft ==
  \A c \in Cells : ~IsFree(slice, c) =>
    \/ slice.cells[c].activity = "Measurement"
    \/ slice.cells[c].id \in DOMAIN CoreHome
    \/ \E k \in DOMAIN program :
         /\ OnRoute(k, c)
         /\ \/ operations[k].status \in {"routed", "compiled"}
            \/ /\ program[k].kind = "BellPairInit"
               /\ slice.cells[c].id \in {program[k].side1, program[k].side2}

(***************************************************************************)
(* A pair that is made lies beside the two patches it was requested for:   *)
(* side1 beside the first, side2 beside the second.                        *)
(***************************************************************************)
PairReaches ==
  \A k \in DOMAIN program :
    program[k].kind = "BellPairInit" /\ operations[k].status = "ended" =>
      LET route == Route(k)
      IN /\ get_cell_by_id(slice, program[k].side2) = route[2]
         /\ get_cell_by_id(slice, program[k].side1) = route[Len(route) - 1]
=============================================================================
