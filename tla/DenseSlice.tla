----------------------------- MODULE DenseSlice -----------------------------
(***************************************************************************)
(* struct DenseSlice (src/patches/dense_slice.cpp): a grid of cells, each  *)
(* free or occupied by a patch, with a cache that maps patch ids to cells. *)
(*                                                                         *)
(* The operators are the methods, as functions of a slice; an instruction  *)
(* that calls several of them is their composition.  The specification     *)
(* lets a caller make any call, in any order.  A call on an empty cell     *)
(* that needs an occupied one throws and leaves the slice as it is; here   *)
(* it is not enabled.                                                      *)
(***************************************************************************)
EXTENDS Integers

CONSTANTS
  furthest_cell,         \* the lower right cell of the layout, <<row, col>>
  PatchIds,
  NoId,                  \* std::nullopt for an id
  Free,                  \* std::nullopt for a patch
  Nowhere,               \* std::nullopt for a cell
  CoreHome,              \* the core qubits of the layout: id -> cell
  YStateCells,           \* layout.predistilled_y_states()
  FactoryTiles,          \* the distillation regions and the tiles reserved
                         \* for magic states: cell -> sides
  DeadCells,             \* layout.dead_location()
  Looks,                 \* the patches that callers place, without their ids
  Activities,            \* the activities that callers set
  Types                  \* the types that callers set

Cells == (0 .. furthest_cell[1]) \X (0 .. furthest_cell[2])

Directions == {"top", "bottom", "left", "right"}

BoundaryTypes ==
  {"None", "Connected", "Rough", "Smooth", "Reserved_Label1", "Reserved_Label2"}

Boundary == [boundary_type : BoundaryTypes, is_active : BOOLEAN]

CellBoundaries ==
  [top : Boundary, bottom : Boundary, left : Boundary, right : Boundary]

PatchTypes == {"Distillation", "PreparedState", "Qubit", "Routing", "Dead"}

PatchActivities ==
  {"None", "Measurement", "Unitary", "Distillation", "Dead",
   "MultiPatchMeasurement", "Rotation", "EDPC", "Reserved"}

Patch ==
  [type : PatchTypes, activity : PatchActivities, id : PatchIds \cup {NoId},
   boundaries : CellBoundaries]

FactoryCells == DOMAIN FactoryTiles

(***************************************************************************)
(* Opposite sides are of the same type, as in basic_square_patch; routing  *)
(* patches and the tiles of a factory have sides of their own.             *)
(***************************************************************************)
Square(b) ==
  /\ b.top.boundary_type = b.bottom.boundary_type
  /\ b.left.boundary_type = b.right.boundary_type

Shaped(c, p) == p.type = "Routing" \/ c \in FactoryCells \/ Square(p.boundaries)

Slice == [cells : [Cells -> Patch \cup {Free}],
          cache : [PatchIds -> Cells \cup {Nowhere}]]

ASSUME LayoutAssumption ==
  /\ furthest_cell \in Nat \X Nat
  /\ DOMAIN CoreHome \subseteq PatchIds
  /\ CoreHome \in [DOMAIN CoreHome -> Cells]
  /\ \A i, j \in DOMAIN CoreHome : CoreHome[i] = CoreHome[j] => i = j
  /\ FactoryTiles \in [FactoryCells -> CellBoundaries]
  /\ \A i \in DOMAIN CoreHome :
       CoreHome[i] \notin YStateCells \cup FactoryCells \cup DeadCells

ASSUME CallersAssumption ==
  /\ Looks \subseteq [type : PatchTypes, activity : PatchActivities,
                      boundaries : CellBoundaries]
  /\ \A look \in Looks : look.type = "Routing" \/ Square(look.boundaries)
  /\ Activities \subseteq PatchActivities
  /\ Types \subseteq PatchTypes

ASSUME OptionalsAssumption ==
  NoId \notin PatchIds /\ Free \notin Patch /\ Nowhere \notin Cells

-----------------------------------------------------------------------------
(* Patches. *)

boundary(type) == [boundary_type |-> type, is_active |-> FALSE]

Uniform(type) == [top |-> boundary(type), bottom |-> boundary(type),
                  left |-> boundary(type), right |-> boundary(type)]

Named(look, i) == [type |-> look.type, activity |-> look.activity, id |-> i,
                   boundaries |-> look.boundaries]

basic_square_look ==
  [type |-> "Qubit", activity |-> "None",
   boundaries |-> [top |-> boundary("Smooth"), bottom |-> boundary("Smooth"),
                   left |-> boundary("Rough"), right |-> boundary("Rough")]]

basic_square_patch(i) == Named(basic_square_look, i)

Tile(kind, b) == Named([type |-> kind, activity |-> kind, boundaries |-> b], NoId)

(* A mutant that does not save the right boundary before it assigns it. *)
RotateUnsaved(b) ==
  [right |-> b.top, top |-> b.left, left |-> b.bottom, bottom |-> b.top]

instant_rotate(b) ==
  [right |-> b.top, top |-> b.left, left |-> b.bottom, bottom |-> b.right]

-----------------------------------------------------------------------------
(* Reading a slice. *)

IsFree(s, c) == s.cells[c] = Free

Bears(s, c) == IF IsFree(s, c) THEN NoId ELSE s.cells[c].id

(***************************************************************************)
(* get_cell_by_id trusts an entry of the cache only if the cell still      *)
(* bears the id, and drops the entry otherwise.                            *)
(***************************************************************************)
get_cell_by_id(s, i) ==
  IF s.cache[i] # Nowhere /\ Bears(s, s.cache[i]) = i THEN s.cache[i] ELSE Nowhere

Healed(s, i) == [s EXCEPT !.cache[i] = get_cell_by_id(s, i)]

-----------------------------------------------------------------------------
(* Changing a slice. *)

(***************************************************************************)
(* The cache without the entry of the patch at c, if it has one that still *)
(* points there.  EvictedAlways, its mutant, does not look where it points.*)
(***************************************************************************)
EvictedAlways(s, c) ==
  IF Bears(s, c) # NoId THEN [s.cache EXCEPT ![Bears(s, c)] = Nowhere] ELSE s.cache

Evicted(s, c) ==
  IF Bears(s, c) # NoId /\ s.cache[Bears(s, c)] = c
  THEN [s.cache EXCEPT ![Bears(s, c)] = Nowhere]
  ELSE s.cache

Indexed(cache, i, c) == IF i = NoId THEN cache ELSE [cache EXCEPT ![i] = c]

(* A mutant that forgets the patch it overwrites. *)
PlacedWithoutEviction(s, c, p) ==
  [cells |-> [s.cells EXCEPT ![c] = p], cache |-> Indexed(s.cache, p.id, c)]

place_dense_patch_at(s, c, p) ==
  [cells |-> [s.cells EXCEPT ![c] = p],
   cache |-> Indexed(Evicted(s, c), p.id, c)]

clear_patch_at(s, c) ==
  [cells |-> [s.cells EXCEPT ![c] = Free], cache |-> Evicted(s, c)]

assign_patch_id(s, c, i) ==
  [cells |-> [s.cells EXCEPT ![c] = [@ EXCEPT !.id = i]],
   cache |-> Indexed(Evicted(s, c), i, c)]

delete_patch_by_id(s, i) ==
  IF get_cell_by_id(s, i) = Nowhere
  THEN Healed(s, i)
  ELSE clear_patch_at(s, get_cell_by_id(s, i))

(***************************************************************************)
(* The setters that leave the id alone.                                    *)
(***************************************************************************)
set_patch_activity(s, c, a) == [s EXCEPT !.cells[c] = [@ EXCEPT !.activity = a]]

set_patch_type(s, c, t) == [s EXCEPT !.cells[c] = [@ EXCEPT !.type = t]]

rotate_patch_boundaries(s, c) ==
  [s EXCEPT !.cells[c] =
     [@ EXCEPT !.boundaries = instant_rotate(s.cells[c].boundaries)]]

(***************************************************************************)
(* A traversal leaves at every occupied cell what its visitor makes of the *)
(* patch, and clears the cells for which the visitor asks for it.          *)
(***************************************************************************)
traverse_cells_mut(s, left, cleared) ==
  [cells |-> [c \in Cells |-> IF IsFree(s, c) \/ c \in cleared THEN Free ELSE left[c]],
   cache |-> [i \in PatchIds |-> IF s.cache[i] \in cleared /\ Bears(s, s.cache[i]) = i
                                 THEN Nowhere ELSE s.cache[i]]]

-----------------------------------------------------------------------------
VARIABLE slice

(***************************************************************************)
(* The constructor for a layout and the ids of the core qubits.            *)
(***************************************************************************)
InitialPatch(c) ==
  IF \E i \in DOMAIN CoreHome : CoreHome[i] = c
  THEN basic_square_patch(CHOOSE i \in DOMAIN CoreHome : CoreHome[i] = c)
  ELSE IF c \in DeadCells THEN Tile("Dead", Uniform("Connected"))
  ELSE IF c \in FactoryCells THEN Tile("Distillation", FactoryTiles[c])
  ELSE IF c \in YStateCells THEN basic_square_patch(NoId)
  ELSE Free

SliceInit ==
  slice = [cells |-> [c \in Cells |-> InitialPatch(c)],
           cache |-> [i \in PatchIds |-> IF i \in DOMAIN CoreHome THEN CoreHome[i]
                                         ELSE Nowhere]]

PlaceDensePatch ==
  \E c \in Cells, look \in Looks, i \in PatchIds \cup {NoId} :
    slice' = place_dense_patch_at(slice, c, Named(look, i))

PlaceSingleCellSparsePatch ==
  \E c \in Cells, look \in Looks, i \in PatchIds \cup {NoId} :
    /\ IsFree(slice, c)
    /\ slice' = place_dense_patch_at(slice, c, Named(look, i))

AssignPatchId ==
  \E c \in Cells, i \in PatchIds \cup {NoId} :
    /\ ~IsFree(slice, c)
    /\ slice' = assign_patch_id(slice, c, i)

ClearPatch == \E c \in Cells : slice' = clear_patch_at(slice, c)

DeletePatch == \E i \in PatchIds : slice' = delete_patch_by_id(slice, i)

LookUp == \E i \in PatchIds : slice' = Healed(slice, i)

SetActivity ==
  \E c \in Cells, a \in Activities :
    /\ ~IsFree(slice, c)
    /\ slice' = set_patch_activity(slice, c, a)

(***************************************************************************)
(* No caller changes the type of a routing patch.                          *)
(***************************************************************************)
SetType ==
  \E c \in Cells, t \in Types :
    /\ ~IsFree(slice, c) /\ slice.cells[c].type # "Routing"
    /\ slice' = set_patch_type(slice, c, t)

RotateBoundaries ==
  \E c \in Cells :
    /\ ~IsFree(slice, c)
    /\ slice' = rotate_patch_boundaries(slice, c)

(***************************************************************************)
(* A visitor that gives an activity to all patches and clears some.        *)
(***************************************************************************)
Traverse ==
  \E cleared \in SUBSET Cells, a \in Activities :
    slice' = traverse_cells_mut(
               slice,
               [c \in Cells |-> IF IsFree(slice, c) THEN Free
                                ELSE [slice.cells[c] EXCEPT !.activity = a]],
               cleared)

SliceNext ==
  \/ PlaceDensePatch \/ PlaceSingleCellSparsePatch
  \/ AssignPatchId \/ ClearPatch \/ DeletePatch \/ LookUp
  \/ SetActivity \/ SetType \/ RotateBoundaries \/ Traverse

SliceSpec == SliceInit /\ [][SliceNext]_slice

-----------------------------------------------------------------------------
(***************************************************************************)
(* Patches are whole, those that hold a qubit are square, rotated as often *)
(* as one likes, and the cache points into the grid.                       *)
(***************************************************************************)
SliceTypeOK ==
  /\ slice \in Slice
  /\ \A c \in Cells : ~IsFree(slice, c) => Shaped(c, slice.cells[c])

(***************************************************************************)
(* What the comment on patch_id_to_cell_cache promises: for every entry,   *)
(* the mapped cell holds a patch whose id is the key.  The check on read   *)
(* in get_cell_by_id never has anything to heal.                           *)
(***************************************************************************)
CacheSound ==
  \A i \in PatchIds :
    slice.cache[i] # Nowhere => Bears(slice, slice.cache[i]) = i

(***************************************************************************)
(* Whatever the callers do, moves that give an id to a second cell before  *)
(* the first gives it up included, an id is found where it was given last, *)
(* and is not found once that cell gave it up: the slice with its cache    *)
(* implements PatchIndex, which has none.                                  *)
(***************************************************************************)
Index == INSTANCE PatchIndex WITH
  bears <- [c \in Cells |-> Bears(slice, c)],
  home <- [i \in PatchIds |-> get_cell_by_id(slice, i)]

KeepsIndex == Index!Spec
=============================================================================
