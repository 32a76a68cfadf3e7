------------------------------ MODULE Lattice ------------------------------
(***************************************************************************)
(* How instructions change the lattice: the cases of                       *)
(* try_apply_instruction_direct_followup (dense_patch_computation.cpp)     *)
(* that do not compile to local instructions, and advance_slice.           *)
(*                                                                         *)
(* An action is one instruction applied with success; one that ends in an  *)
(* error leaves the lattice as it is and is not an action.  The pipelines  *)
(* decide which instruction comes next: here it is any that a program may  *)
(* have, on patches whose earlier instructions have ended (PatchOrder), in *)
(* any order and as many in a slice as succeed.                            *)
(***************************************************************************)
EXTENDS SliceGeometry, FiniteSetsExt

CONSTANTS
  distilled_state_locations,   \* for each factory, where its states may go
  reserved_for_magic_states,   \* the tiles that respawn a state, if any
  distillation_times,          \* for each factory or tile
  TimestepValues,              \* bound: the numbers of a SurfaceCodeTimestep, 2^32
  ancilla_location,
  allow_twists,                \* BOOLEAN
  RotateAnything               \* BOOLEAN: whether programs rotate patches that
                               \* the compiler's own programs do not rotate

VARIABLES
  magic_states,                \* cells with a state that nobody has requested
  time_to_next,                \* time_to_next_magic_state_by_distillation_region
  ystates_available,           \* predistilled_ystates_available
  busy,                        \* the BusyRegion follow-ups under way
  turn,                        \* the factory or tile that advance_slice is at,
                               \* 0 while instructions are applied
  alive,                       \* the ids the program has not given up
  borrowed                     \* those it has from a YStateRequest

vars == <<slice, magic_states, time_to_next, ystates_available, busy, turn,
          alive, borrowed>>

program == <<alive, borrowed>>

stores == <<magic_states, time_to_next, ystates_available>>

Factories == DOMAIN distillation_times

magic_states_reserved == reserved_for_magic_states # <<>>

(***************************************************************************)
(* A layout is read from a grid with one character for each cell: a cell   *)
(* is listed once, as one thing.  Nothing keeps a time from being 0.       *)
(***************************************************************************)
ASSUME InstancesAssumption ==
  /\ TimestepValues \in Nat \ {0, 1}
  /\ distillation_times \in Seq(0 .. TimestepValues - 1)
  /\ reserved_for_magic_states \in Seq(Cells)
  /\ distilled_state_locations \in Seq(Seq(Cells))
  /\ IF magic_states_reserved
     THEN Factories = DOMAIN reserved_for_magic_states
     ELSE Factories = DOMAIN distilled_state_locations
  /\ Elements(reserved_for_magic_states) \subseteq FactoryCells
  /\ \A j, k \in DOMAIN reserved_for_magic_states :
       reserved_for_magic_states[j] = reserved_for_magic_states[k] => j = k
  /\ YStateCells \subseteq Cells \ (FactoryCells \cup DeadCells)
  /\ ancilla_location \in Seq(Cells)
  /\ allow_twists \in BOOLEAN /\ RotateAnything \in BOOLEAN

-----------------------------------------------------------------------------
(* Geometry. *)

(***************************************************************************)
(* The order of get_neigbours_within_bounding_box_inclusive.               *)
(***************************************************************************)
Rank == [top |-> 1, bottom |-> 2, left |-> 3, right |-> 4]

FirstSide(sides) == CHOOSE d \in sides : \A e \in sides : Rank[d] <= Rank[e]

LastSide(sides) == CHOOSE d \in sides : \A e \in sides : Rank[d] >= Rank[e]

Gap(m, n) == IF m < n THEN n - m ELSE m - n

L1(c, e) == Gap(c[1], e[1]) + Gap(c[2], e[2])

Before(c, e) == c[1] < e[1] \/ (c[1] = e[1] /\ c[2] < e[2])

(***************************************************************************)
(* The closest of some cells, the first of them among equals.              *)
(***************************************************************************)
Closest(c, cells) ==
  CHOOSE e \in cells : \A f \in cells \ {e} :
    L1(c, e) < L1(c, f) \/ (L1(c, e) = L1(c, f) /\ Before(e, f))

-----------------------------------------------------------------------------
(* Patches and slices. *)

On(s, i) == s.cells[get_cell_by_id(s, i)]

OnLattice(i) == get_cell_by_id(slice, i) # Nowhere

FreeSides(s, c) ==
  {d \in Directions : Beyond(c, d) \in Cells /\ IsFree(s, Beyond(c, d))}

(***************************************************************************)
(* A cell of a routing region, joined to some of the cells around it.      *)
(***************************************************************************)
RoutingPatch(c, activity, joined) ==
  LET side(d) == IF Beyond(c, d) \in joined
                 THEN [boundary_type |-> "Connected", is_active |-> TRUE]
                 ELSE boundary("None")
  IN Named([type |-> "Routing", activity |-> activity,
            boundaries |-> [top |-> side("top"), bottom |-> side("bottom"),
                            left |-> side("left"), right |-> side("right")]], NoId)

MagicState == [basic_square_patch(NoId) EXCEPT !.type = "PreparedState"]

-----------------------------------------------------------------------------
(* Routes, from the source to the target; the code keeps them reversed. *)

Paths[n \in 1 .. Cardinality(Cells)] ==
  IF n = 1 THEN {<<c>> : c \in Cells}
  ELSE {Append(p[1], p[2]) : p \in {q \in Paths[n - 1] \X Cells :
          Adjacent(q[1][n - 1], q[2]) /\ q[2] \notin Elements(q[1])}}

AllPaths == UNION {Paths[n] : n \in DOMAIN Paths}

(* A mutant that routes through what is there. *)
PathsThroughPatches(s, source, source_op, target, target_op) ==
  {p \in AllPaths :
     /\ p # <<>>
     /\ \A k \in DOMAIN p : IsFree(s, p[k]) \/ s.cells[p[k]].type = "Routing"
     /\ Facing(s, source, p[1], source_op)
     /\ Facing(s, target, p[Len(p)], target_op)}

(***************************************************************************)
(* A path through free cells, that leaves the source and reaches the       *)
(* target through sides of the right types.                                *)
(***************************************************************************)
OpenPaths(s, source, source_op, target, target_op) ==
  {p \in AllPaths :
     /\ p # <<>>
     /\ \A k \in DOMAIN p : IsFree(s, p[k])
     /\ Facing(s, source, p[1], source_op)
     /\ Facing(s, target, p[Len(p)], target_op)}

(***************************************************************************)
(* find_routing_ancilla finds one of the shortest, or none; patches that   *)
(* touch with the right sides need no cell between them.                   *)
(***************************************************************************)
find_routing_ancilla(s, source, source_op, target, target_op) ==
  IF Facing(s, source, target, source_op) /\ Facing(s, target, source, target_op)
  THEN {<<>>}
  ELSE LET open == OpenPaths(s, source, source_op, target, target_op)
       IN {p \in open : \A q \in open : Len(p) <= Len(q)}

stitch_boundaries(s, source, target, route) ==
  LET first == IF route = <<>> THEN target ELSE route[1]
      last  == IF route = <<>> THEN source ELSE route[Len(route)]
  IN Activate(Activate(s, source, first), target, last)

(***************************************************************************)
(* The cells of a region are free and get patches without ids: the cache   *)
(* is not concerned.                                                       *)
(***************************************************************************)
mark_routing_region(s, patches) ==
  [s EXCEPT !.cells = [c \in Cells |-> IF c \in DOMAIN patches THEN patches[c]
                                       ELSE s.cells[c]]]

(***************************************************************************)
(* merge_patches, once it has found a route.                               *)
(***************************************************************************)
Merged(s, source, target, route) ==
  LET ends == <<source>> \o route \o <<target>>
      at(c) == CHOOSE k \in DOMAIN route : route[k] = c
  IN mark_routing_region(
       stitch_boundaries(s, source, target, route),
       [c \in Elements(route) |->
          RoutingPatch(c, "MultiPatchMeasurement", {ends[at(c)], ends[at(c) + 2]})])

merge_patches(source, source_op, target, target_op) ==
  /\ ~is_active(On(slice, source)) /\ ~is_active(On(slice, target))
  /\ LET a == get_cell_by_id(slice, source)
         b == get_cell_by_id(slice, target)
     IN \E route \in find_routing_ancilla(slice, a, source_op, b, target_op) :
          slice' = Merged(slice, a, b, route)

-----------------------------------------------------------------------------
(* What a program may ask for. *)

Rotating(i) == \E r \in busy : r.patch.id = i

(***************************************************************************)
(* The patch is alive and nothing earlier is under way on it.              *)
(***************************************************************************)
Ready(i) == turn = 0 /\ i \in alive /\ ~Rotating(i)

(***************************************************************************)
(* A new id is not that of a core qubit.  It may be one that was given up, *)
(* even if what was measured is still on the lattice until the slice ends. *)
(***************************************************************************)
Fresh(i) == turn = 0 /\ i \notin alive \cup DOMAIN CoreHome

(***************************************************************************)
(* The compiler rotates the core qubits and the Y states it has borrowed.  *)
(***************************************************************************)
MayRotate(i) == RotateAnything \/ i \in DOMAIN CoreHome \/ i \in borrowed

(***************************************************************************)
(* With twists, a Y state is measured like any other patch; without them,  *)
(* it is given back by a second request.                                   *)
(***************************************************************************)
MayMeasure(i) == allow_twists \/ i \notin borrowed

MayGiveBack(i) == ~allow_twists /\ i \in borrowed

-----------------------------------------------------------------------------
LatticeInit ==
  /\ SliceInit
  /\ magic_states = {}
  /\ time_to_next = distillation_times
  /\ ystates_available = Cardinality(YStateCells)
  /\ busy = {}
  /\ turn = 0
  /\ alive = DOMAIN CoreHome
  /\ borrowed = {}

MeasureSinglePatch(i) ==
  /\ Ready(i) /\ MayMeasure(i)
  /\ OnLattice(i)
  /\ slice' = set_patch_activity(slice, get_cell_by_id(slice, i), "Measurement")
  /\ alive' = alive \ {i}
  /\ borrowed' = borrowed \ {i}
  /\ UNCHANGED <<stores, busy, turn>>

(***************************************************************************)
(* The other single qubit gates change nothing; S is a merge of the patch  *)
(* with itself.                                                            *)
(***************************************************************************)
Hadamard(i) ==
  /\ Ready(i)
  /\ OnLattice(i) /\ ~is_active(On(slice, i))
  /\ LET c == get_cell_by_id(slice, i)
     IN slice' = rotate_patch_boundaries(set_patch_activity(slice, c, "Unitary"), c)
  /\ UNCHANGED <<stores, busy, turn, program>>

SGate(i) ==
  /\ Ready(i)
  /\ OnLattice(i)
  /\ merge_patches(i, "X", i, "Z")
  /\ UNCHANGED <<stores, busy, turn, program>>

MeasureMultiPatch(source, source_op, target, target_op) ==
  /\ Ready(source) /\ Ready(target) /\ source # target
  /\ OnLattice(source) /\ OnLattice(target)
  /\ merge_patches(source, source_op, target, target_op)
  /\ UNCHANGED <<stores, busy, turn, program>>

(***************************************************************************)
(* A new patch on a cell, placed without its id and then given it.         *)
(***************************************************************************)
InitAt(i, c) ==
  /\ slice' = assign_patch_id(place_dense_patch_at(slice, c, basic_square_patch(NoId)), c, i)
  /\ alive' = alive \cup {i}
  /\ UNCHANGED <<stores, busy, turn, borrowed>>

PatchInitNextTo(i, near, op) ==
  /\ Fresh(i) /\ Ready(near)
  /\ LET c == get_cell_by_id(slice, near)
         sides == FreeSides(slice, c)
                    \cap SidesOfType(slice.cells[c], boundary_for_operator(op))
     IN sides # {} /\ InitAt(i, Beyond(c, FirstSide(sides)))

PatchInit(i) ==
  /\ Fresh(i)
  /\ LET free == {k \in DOMAIN ancilla_location : IsFree(slice, ancilla_location[k])}
     IN free # {} /\ InitAt(i, ancilla_location[Min(free)])

(***************************************************************************)
(* RotateSingleCellPatch and the BusyRegion that it leaves behind.  The    *)
(* patch is lifted, turned and put back when the region is done.           *)
(***************************************************************************)
RotatePatch(i) ==
  /\ Ready(i) /\ MayRotate(i)
  /\ OnLattice(i)
  /\ LET c == get_cell_by_id(slice, i)
         n == Beyond(c, LastSide(FreeSides(slice, c)))
         p == slice.cells[c]
         lifted == [p EXCEPT
           !.activity = IF p.activity = "Unitary" THEN "None" ELSE p.activity,
           !.boundaries = instant_rotate(p.boundaries)]
     IN /\ FreeSides(slice, c) # {}
        /\ slice' = mark_routing_region(
                      clear_patch_at(slice, c),
                      [d \in {c, n} |-> RoutingPatch(d, "Rotation", {c, n})])
        /\ busy' = busy \cup {[cell |-> c, neighbour |-> n, patch |-> lifted,
                               steps_to_clear |-> 2, due |-> FALSE]}
  /\ UNCHANGED <<stores, turn, program>>

ContinueRotation(r) ==
  /\ turn = 0
  /\ r.due /\ r.steps_to_clear > 0
  /\ busy' = (busy \ {r})
               \cup {[r EXCEPT !.steps_to_clear = @ - 1, !.due = FALSE]}
  /\ UNCHANGED <<slice, stores, turn, program>>

(* A mutant that puts the patch on the wrong cell of the region. *)
EndRotationNextDoor(r) ==
  /\ turn = 0
  /\ r.due /\ r.steps_to_clear = 0
  /\ slice' = place_dense_patch_at(
                clear_patch_at(clear_patch_at(slice, r.cell), r.neighbour),
                r.neighbour, r.patch)
  /\ busy' = busy \ {r}
  /\ UNCHANGED <<stores, turn, program>>

EndRotation(r) ==
  /\ turn = 0
  /\ r.due /\ r.steps_to_clear = 0
  /\ slice' = place_dense_patch_at(
                clear_patch_at(clear_patch_at(slice, r.cell), r.neighbour),
                r.cell, r.patch)
  /\ busy' = busy \ {r}
  /\ UNCHANGED <<stores, turn, program>>

-----------------------------------------------------------------------------
(* Requests of prepared states. *)

(* A mutant that leaves the type as it is. *)
RequestedAsIs(s, c, i) == assign_patch_id(set_patch_activity(s, c, "None"), c, i)

Requested(s, c, i) ==
  assign_patch_id(set_patch_activity(set_patch_type(s, c, "Qubit"), c, "None"), c, i)

RequestMagicState(i, near) ==
  /\ Fresh(i) /\ Ready(near)
  /\ magic_states # {}
  /\ LET c == Closest(get_cell_by_id(slice, near), magic_states)
     IN /\ slice' = Requested(slice, c, i)
        /\ magic_states' = magic_states \ {c}
  /\ alive' = alive \cup {i}
  /\ UNCHANGED <<time_to_next, ystates_available, busy, turn, borrowed>>

(* A mutant that does not count. *)
GiveBackUncounted(i) ==
  /\ Ready(i) /\ MayGiveBack(i)
  /\ OnLattice(i)
  /\ slice' = assign_patch_id(slice, get_cell_by_id(slice, i), NoId)
  /\ alive' = alive \ {i}
  /\ borrowed' = borrowed \ {i}
  /\ UNCHANGED <<stores, busy, turn>>

(***************************************************************************)
(* A request for an id that is on the lattice gives the Y state back.      *)
(***************************************************************************)
GiveBackYState(i) ==
  /\ Ready(i) /\ MayGiveBack(i)
  /\ OnLattice(i)
  /\ slice' = assign_patch_id(slice, get_cell_by_id(slice, i), NoId)
  /\ ystates_available' = ystates_available + 1
  /\ alive' = alive \ {i}
  /\ borrowed' = borrowed \ {i}
  /\ UNCHANGED <<magic_states, time_to_next, busy, turn>>

IdleYStates ==
  {c \in YStateCells : slice.cells[c].id = NoId /\ ~is_active(slice.cells[c])}

BorrowYState(i, near) ==
  /\ Fresh(i) /\ Ready(near)
  /\ ~OnLattice(i)
  /\ ystates_available # 0 /\ IdleYStates # {}
  /\ LET c == Closest(get_cell_by_id(slice, near), IdleYStates)
     IN slice' = assign_patch_id(slice, c, i)
  /\ ystates_available' = ystates_available - 1
  /\ alive' = alive \cup {i}
  /\ borrowed' = borrowed \cup {i}
  /\ UNCHANGED <<magic_states, time_to_next, busy, turn>>

(***************************************************************************)
(* PrepareY, beyond a Z side of the patch that asks for it.                *)
(***************************************************************************)
PrepareYState(i, near) ==
  /\ Fresh(i) /\ Ready(near)
  /\ ~OnLattice(i)
  /\ ystates_available = 0 /\ allow_twists
  /\ LET c == get_cell_by_id(slice, near)
         sides == FreeSides(slice, c) \cap SidesOfType(slice.cells[c], "Smooth")
         e == Beyond(c, LastSide(sides))
     IN /\ sides # {}
        /\ slice' = set_patch_activity(
                      place_dense_patch_at(slice, e, basic_square_patch(i)), e, "Unitary")
  /\ alive' = alive \cup {i}
  /\ borrowed' = borrowed \cup {i}
  /\ UNCHANGED <<stores, busy, turn>>

-----------------------------------------------------------------------------
(* advance_slice: the traversal, then one turn for each factory or tile. *)

NextTurn == IF turn = Len(distillation_times) THEN 0 ELSE turn + 1

AdvanceSlice ==
  /\ turn = 0
  /\ \A r \in busy : ~r.due
  /\ slice' = traverse_cells_mut(
                slice,
                [c \in Cells |-> IF IsFree(slice, c) THEN Free ELSE Settled(slice.cells[c])],
                {c \in Cells : ~IsFree(slice, c) /\ Done(slice.cells[c])})
  /\ busy' = {[r EXCEPT !.due = TRUE] : r \in busy}
  /\ turn' = NextTurn
  /\ UNCHANGED <<stores, program>>

SpawnAt(s, c) ==
  /\ slice' = place_dense_patch_at(s, c, MagicState)
  /\ magic_states' = magic_states \cup {c}

decremented(t) == IF t = 0 THEN TimestepValues - 1 ELSE t - 1

(* A mutant that never starts the next state, and the timer of a factory. *)
CountedOnce(k) == decremented(time_to_next[k])

FactoryTime(k) ==
  IF time_to_next[k] = 1 THEN distillation_times[k] ELSE decremented(time_to_next[k])

(* A mutant that does not ask what is there. *)
AllPlaces(k) == DOMAIN distilled_state_locations[k]

FreePlaces(k) ==
  {n \in DOMAIN distilled_state_locations[k] :
     IsFree(slice, distilled_state_locations[k][n])}

(***************************************************************************)
(* A factory: when its time has come, its state goes to the first of its   *)
(* locations that is free, or is lost.                                     *)
(***************************************************************************)
Distil ==
  /\ turn > 0 /\ ~magic_states_reserved
  /\ turn' = NextTurn
  /\ time_to_next' = [time_to_next EXCEPT ![turn] = FactoryTime(turn)]
  /\ IF time_to_next[turn] = 1 /\ FreePlaces(turn) # {}
     THEN SpawnAt(slice, distilled_state_locations[turn][Min(FreePlaces(turn))])
     ELSE UNCHANGED <<slice, magic_states>>
  /\ UNCHANGED <<ystates_available, busy, program>>

(* A mutant that counts down whatever is on the tile, and its timer. *)
CountedAlways(k) ==
  IF IsFree(slice, reserved_for_magic_states[k]) THEN distillation_times[k]
  ELSE decremented(time_to_next[k])

TileTime(k) ==
  LET c == reserved_for_magic_states[k]
  IN IF IsFree(slice, c) THEN distillation_times[k]
     ELSE IF slice.cells[c].type = "Distillation" THEN decremented(time_to_next[k])
     ELSE time_to_next[k]

(* A mutant that spawns over states that were requested. *)
SpentOnceTaken(p) == p.type # "PreparedState"

Spent(p) == p.type \notin {"PreparedState", "Qubit"}

(***************************************************************************)
(* A reserved tile: once its state was consumed, it waits and spawns       *)
(* another.                                                                *)
(***************************************************************************)
Respawn ==
  /\ turn > 0 /\ magic_states_reserved
  /\ turn' = NextTurn
  /\ time_to_next' = [time_to_next EXCEPT ![turn] = TileTime(turn)]
  /\ LET c == reserved_for_magic_states[turn]
         s == IF IsFree(slice, c)
              THEN place_dense_patch_at(slice, c, Tile("Distillation", Uniform("Connected")))
              ELSE slice
     IN IF TileTime(turn) = 0 /\ Spent(s.cells[c])
        THEN SpawnAt(s, c)
        ELSE slice' = s /\ UNCHANGED magic_states
  /\ UNCHANGED <<ystates_available, busy, program>>

-----------------------------------------------------------------------------
LatticeNext ==
  \/ \E i \in PatchIds :
       \/ MeasureSinglePatch(i) \/ Hadamard(i) \/ SGate(i)
       \/ PatchInit(i) \/ RotatePatch(i) \/ GiveBackYState(i)
       \/ \E near \in PatchIds :
            \/ \E op \in {"X", "Z"} : PatchInitNextTo(i, near, op)
            \/ RequestMagicState(i, near)
            \/ BorrowYState(i, near)
            \/ PrepareYState(i, near)
            \/ \E op1, op2 \in {"X", "Z"} : MeasureMultiPatch(i, op1, near, op2)
  \/ \E r \in busy : ContinueRotation(r) \/ EndRotation(r)
  \/ AdvanceSlice \/ Distil \/ Respawn

LatticeSpec == LatticeInit /\ [][LatticeNext]_vars

-----------------------------------------------------------------------------
(***************************************************************************)
(* The slice keeps its shape under whole instructions, and timers and      *)
(* counters stay within what the layout gives them: a timer runs below     *)
(* zero only if its time is zero.                                          *)
(***************************************************************************)
LatticeTypeOK ==
  /\ SliceTypeOK
  /\ magic_states \subseteq Cells
  /\ time_to_next \in [Factories -> 0 .. TimestepValues - 1]
  /\ \A k \in Factories : distillation_times[k] # 0 =>
       time_to_next[k] \in (IF magic_states_reserved THEN 0 ELSE 1) .. distillation_times[k]
  /\ ystates_available \in 0 .. Cardinality(YStateCells)
  /\ busy \subseteq [cell : Cells, neighbour : Cells, patch : Patch,
                     steps_to_clear : 0 .. 2, due : BOOLEAN]
  /\ turn \in 0 .. Len(distillation_times)
  /\ borrowed \subseteq alive /\ alive \subseteq PatchIds

(***************************************************************************)
(* No state takes longer than "the distillation time" that was set on the  *)
(* command line (slicer.cpp).  It does if that is 0.                       *)
(***************************************************************************)
WithinDistillationTime ==
  \A k \in Factories : time_to_next[k] <= distillation_times[k]

(***************************************************************************)
(* The set of magic states is what is on the lattice: a state that was     *)
(* spawned can be requested, and one that was requested cannot be          *)
(* requested again.                                                        *)
(***************************************************************************)
MagicStatesKnown ==
  magic_states =
    {c \in Cells : ~IsFree(slice, c) /\ slice.cells[c].type = "PreparedState"}

(***************************************************************************)
(* The counter of Y states is the number of those on the lattice that      *)
(* nobody has, also while some of them are being rotated, and every Y      *)
(* state that a request looks at is there.                                 *)
(***************************************************************************)
YStatesCounted ==
  /\ \A c \in YStateCells : ~IsFree(slice, c)
  /\ ystates_available =
       Cardinality({c \in YStateCells :
                      slice.cells[c].type = "Qubit" /\ slice.cells[c].id = NoId})

(***************************************************************************)
(* What clear_routing_region and the BusyRegion case assert: the cells of  *)
(* a rotation are still its own at every later slice.                      *)
(***************************************************************************)
RotationsIntact ==
  \A r \in busy : \A c \in {r.cell, r.neighbour} :
    ~IsFree(slice, c) /\ slice.cells[c].type = "Routing"
                      /\ slice.cells[c].activity = "Rotation"

(***************************************************************************)
(* Within a slice, no route is cut: every cell of a route is joined to two *)
(* others, and each of these is joined to it, unless it is a patch that    *)
(* was lifted for a rotation.                                              *)
(***************************************************************************)
RoutesStayWhole ==
  \A c \in Cells :
    ~IsFree(slice, c) /\ slice.cells[c].activity = "MultiPatchMeasurement" =>
      LET joined == {d \in Directions : slice.cells[c].boundaries[d].is_active}
      IN /\ Cardinality(joined) = 2
         /\ \A d \in joined :
              LET n == Beyond(c, d)
              IN \/ ~IsFree(slice, n)
                      /\ slice.cells[n].boundaries[Opposite(d)].is_active
                 \/ \E r \in busy : r.cell = n

(***************************************************************************)
(* A patch that is alive keeps a cell of its own, through merges, gates,   *)
(* rotations and the spawning of states around it.                         *)
(***************************************************************************)
Home(i) ==
  IF i \notin alive THEN Nowhere
  ELSE IF Rotating(i) THEN (CHOOSE r \in busy : r.patch.id = i).cell
  ELSE get_cell_by_id(slice, i)

Placement == INSTANCE PatchPlacement WITH home <- [i \in PatchIds |-> Home(i)]

KeepsPatches == Placement!Spec
=============================================================================
