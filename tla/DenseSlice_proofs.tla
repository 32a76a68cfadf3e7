------------------------- MODULE DenseSlice_proofs -------------------------
(***************************************************************************)
(* The cache of ids is exact, and the slice behaves like PatchIndex, for   *)
(* every layout, every set of ids and whatever calls are made.             *)
(***************************************************************************)
EXTENDS DenseSlice, TLAPS

Sound(s) == \A i \in PatchIds : s.cache[i] # Nowhere => Bears(s, s.cache[i]) = i

ShapedCells(s) == \A c \in Cells : ~IsFree(s, c) => Shaped(c, s.cells[c])

Good(s) == s \in Slice /\ ShapedCells(s) /\ Sound(s)

IdOf(q) == IF q = Free THEN NoId ELSE q.id

(***************************************************************************)
(* The cache once cell c has given up its id, and once it was given i.     *)
(***************************************************************************)
Without(cache, c) == [j \in PatchIds |-> IF cache[j] = c THEN Nowhere ELSE cache[j]]

(***************************************************************************)
(* What placing, clearing and renaming have in common: the content of one  *)
(* cell is replaced.                                                       *)
(***************************************************************************)
Rewritten(s, c, q) ==
  [cells |-> [s.cells EXCEPT ![c] = q],
   cache |-> Indexed(Evicted(s, c), IdOf(q), c)]

-----------------------------------------------------------------------------
LEMMA SliceParts ==
  ASSUME NEW s \in Slice
  PROVE  /\ s.cells \in [Cells -> Patch \cup {Free}]
         /\ s.cache \in [PatchIds -> Cells \cup {Nowhere}]
         /\ s = [cells |-> s.cells, cache |-> s.cache]
BY DEF Slice

LEMMA PatchParts ==
  ASSUME NEW p \in Patch
  PROVE  /\ p.id \in PatchIds \cup {NoId}
         /\ p.boundaries \in CellBoundaries
         /\ p # Free
BY OptionalsAssumption DEF Patch

LEMMA BearsAnId ==
  ASSUME NEW s \in Slice, NEW c \in Cells
  PROVE  /\ Bears(s, c) = IdOf(s.cells[c])
         /\ Bears(s, c) \in PatchIds \cup {NoId}
<1>1. s.cells[c] \in Patch \cup {Free}
  BY SliceParts
<1> QED
  BY <1>1, PatchParts DEF Bears, IsFree, IdOf

(***************************************************************************)
(* In a sound slice, the eviction drops every entry that points to c.      *)
(***************************************************************************)
LEMMA EvictionIsExact ==
  ASSUME NEW s \in Slice, Sound(s), NEW c \in Cells
  PROVE  Evicted(s, c) = Without(s.cache, c)
<1>1. s.cache \in [PatchIds -> Cells \cup {Nowhere}]
  BY SliceParts
<1>2. Bears(s, c) \in PatchIds \cup {NoId}
  BY BearsAnId
<1>3. c # Nowhere
  BY OptionalsAssumption
<1>4. \A j \in PatchIds : s.cache[j] = c => Bears(s, c) = j
  BY <1>3 DEF Sound
<1>5. NoId \notin PatchIds
  BY OptionalsAssumption
<1>6. CASE Bears(s, c) # NoId /\ s.cache[Bears(s, c)] = c
  <2>1. [s.cache EXCEPT ![Bears(s, c)] = Nowhere] = Without(s.cache, c)
    BY <1>1, <1>2, <1>4, <1>6 DEF Without
  <2> QED
    BY <1>6, <2>1 DEF Evicted
<1>7. CASE ~(Bears(s, c) # NoId /\ s.cache[Bears(s, c)] = c)
  <2>1. \A j \in PatchIds : s.cache[j] # c
    BY <1>4, <1>5, <1>7
  <2>2. s.cache = Without(s.cache, c)
    BY <1>1, <2>1 DEF Without
  <2> QED
    BY <1>7, <2>2 DEF Evicted
<1> QED
  BY <1>6, <1>7

LEMMA WithoutIsTyped ==
  ASSUME NEW cache \in [PatchIds -> Cells \cup {Nowhere}], NEW c \in Cells
  PROVE  Without(cache, c) \in [PatchIds -> Cells \cup {Nowhere}]
BY DEF Without

(***************************************************************************)
(* Which cell bears which id, and where ids are found, after the content   *)
(* of cell c was replaced.                                                 *)
(***************************************************************************)
LEMMA RewrittenBears ==
  ASSUME NEW s \in Slice, NEW c \in Cells, NEW q \in Patch \cup {Free},
         NEW d \in Cells
  PROVE  Bears(Rewritten(s, c, q), d) = IF d = c THEN IdOf(q) ELSE Bears(s, d)
<1>1. s.cells \in [Cells -> Patch \cup {Free}]
  BY SliceParts
<1>2. Rewritten(s, c, q).cells = [s.cells EXCEPT ![c] = q]
  BY DEF Rewritten
<1> QED
  BY <1>1, <1>2 DEF Bears, IsFree, IdOf

LEMMA RewrittenCache ==
  ASSUME NEW s \in Slice, Sound(s), NEW c \in Cells, NEW q \in Patch \cup {Free}
  PROVE  Rewritten(s, c, q).cache =
           IF IdOf(q) = NoId THEN Without(s.cache, c)
           ELSE [Without(s.cache, c) EXCEPT ![IdOf(q)] = c]
BY EvictionIsExact DEF Rewritten, Indexed

LEMMA RewrittenIsSound ==
  ASSUME NEW s \in Slice, Sound(s), NEW c \in Cells, NEW q \in Patch \cup {Free},
         NEW t, t = Rewritten(s, c, q)
  PROVE  t \in Slice /\ Sound(t)
<1> DEFINE kept == Without(s.cache, c)
<1>1. /\ s.cells \in [Cells -> Patch \cup {Free}]
      /\ s.cache \in [PatchIds -> Cells \cup {Nowhere}]
  BY SliceParts
<1>2. kept \in [PatchIds -> Cells \cup {Nowhere}]
  BY <1>1, WithoutIsTyped
<1>3. IdOf(q) \in PatchIds \cup {NoId}
  BY PatchParts DEF IdOf
<1>4. t.cache = IF IdOf(q) = NoId THEN kept ELSE [kept EXCEPT ![IdOf(q)] = c]
  BY RewrittenCache
<1>5. t.cache \in [PatchIds -> Cells \cup {Nowhere}]
  BY <1>2, <1>3, <1>4
<1>6. t \in Slice
  <2>1. t.cells \in [Cells -> Patch \cup {Free}]
    BY <1>1 DEF Rewritten
  <2>2. t = [cells |-> t.cells, cache |-> t.cache]
    BY DEF Rewritten
  <2> QED
    BY <1>5, <2>1, <2>2 DEF Slice
<1>7. \A d \in Cells : Bears(t, d) = IF d = c THEN IdOf(q) ELSE Bears(s, d)
  BY RewrittenBears
<1>8. Sound(t)
  <2> SUFFICES ASSUME NEW j \in PatchIds, t.cache[j] # Nowhere
               PROVE  Bears(t, t.cache[j]) = j
    BY DEF Sound
  <2>1. j # NoId
    BY OptionalsAssumption
  <2>2. CASE j = IdOf(q)
    <3>1. t.cache[j] = c
      BY <1>2, <1>4, <2>1, <2>2
    <3> QED
      BY <1>7, <2>2, <3>1
  <2>3. CASE j # IdOf(q)
    <3>1. t.cache[j] = kept[j]
      BY <1>2, <1>3, <1>4, <2>3
    <3>2. s.cache[j] # c /\ t.cache[j] = s.cache[j]
      BY <3>1 DEF Without
    <3>3. s.cache[j] \in Cells /\ Bears(s, s.cache[j]) = j
      BY <1>1, <3>2 DEF Sound
    <3> QED
      BY <1>7, <3>2, <3>3
  <2> QED
    BY <2>2, <2>3
<1> QED
  BY <1>6, <1>8

LEMMA RewrittenIsGood ==
  ASSUME NEW s, Good(s), NEW c \in Cells, NEW q \in Patch \cup {Free},
         q # Free => Shaped(c, q),
         NEW t, t = Rewritten(s, c, q)
  PROVE  Good(t)
<1>1. s \in Slice /\ Sound(s) /\ ShapedCells(s)
  BY DEF Good
<1>2. s.cells \in [Cells -> Patch \cup {Free}]
  BY <1>1, SliceParts
<1>3. t \in Slice
  BY <1>1, RewrittenIsSound
<1>4. Sound(t)
  BY <1>1, RewrittenIsSound
<1>5. t.cells = [s.cells EXCEPT ![c] = q]
  BY DEF Rewritten
<1>6. ShapedCells(t)
  BY <1>1, <1>2, <1>5 DEF ShapedCells, IsFree
<1> QED
  BY <1>3, <1>4, <1>6 DEF Good

(***************************************************************************)
(* A setter replaces a patch by one with the same id.                      *)
(***************************************************************************)
Touched(s, c, q) == [s EXCEPT !.cells[c] = q]

LEMMA TouchedIsGood ==
  ASSUME NEW s, Good(s), NEW c \in Cells, NEW q \in Patch,
         q.id = Bears(s, c), Shaped(c, q)
  PROVE  /\ Good(Touched(s, c, q))
         /\ Touched(s, c, q).cache = s.cache
         /\ \A d \in Cells : Bears(Touched(s, c, q), d) = Bears(s, d)
<1> DEFINE t == Touched(s, c, q)
<1>1. s \in Slice /\ Sound(s) /\ ShapedCells(s)
  BY DEF Good
<1>2. /\ s.cells \in [Cells -> Patch \cup {Free}]
      /\ s.cache \in [PatchIds -> Cells \cup {Nowhere}]
      /\ s = [cells |-> s.cells, cache |-> s.cache]
  BY <1>1, SliceParts
<1>3. t = [cells |-> [s.cells EXCEPT ![c] = q], cache |-> s.cache]
  BY <1>2 DEF Touched
<1>4. t.cells = [s.cells EXCEPT ![c] = q] /\ t.cache = s.cache
  BY <1>3
<1>5. t \in Slice
  <2>1. [s.cells EXCEPT ![c] = q] \in [Cells -> Patch \cup {Free}]
    BY <1>2
  <2> QED
    BY <1>2, <1>3, <2>1 DEF Slice
<1>6. q # Free
  BY PatchParts
<1> HIDE DEF t
<1>7. \A d \in Cells : Bears(t, d) = Bears(s, d)
  BY <1>2, <1>4, <1>6 DEF Bears, IsFree
<1>8. Sound(t)
  BY <1>1, <1>2, <1>4, <1>7 DEF Sound
<1>9. ShapedCells(t)
  BY <1>1, <1>2, <1>4 DEF ShapedCells, IsFree
<1> QED
  BY <1>4, <1>5, <1>7, <1>8, <1>9 DEF Good, t

(***************************************************************************)
(* A traversal whose visitor keeps the id and the sides of every patch.    *)
(***************************************************************************)
LEMMA TraversedIsGood ==
  ASSUME NEW s, Good(s), NEW cleared \in SUBSET Cells,
         NEW left \in [Cells -> Patch \cup {Free}],
         \A c \in Cells : IdOf(left[c]) = Bears(s, c),
         \A c \in Cells : left[c] # Free => Shaped(c, left[c]),
         NEW t, t = traverse_cells_mut(s, left, cleared)
  PROVE  /\ Good(t)
         /\ t.cache = [i \in PatchIds |-> IF s.cache[i] \in cleared THEN Nowhere
                                          ELSE s.cache[i]]
         /\ \A c \in Cells : Bears(t, c) = IF c \in cleared THEN NoId ELSE Bears(s, c)
<1>1. s \in Slice /\ Sound(s) /\ ShapedCells(s)
  BY DEF Good
<1>2. /\ s.cells \in [Cells -> Patch \cup {Free}]
      /\ s.cache \in [PatchIds -> Cells \cup {Nowhere}]
  BY <1>1, SliceParts
<1>3. t.cells = [c \in Cells |-> IF IsFree(s, c) \/ c \in cleared THEN Free ELSE left[c]]
  BY DEF traverse_cells_mut
<1>4. t.cache = [i \in PatchIds |-> IF s.cache[i] \in cleared THEN Nowhere
                                   ELSE s.cache[i]]
  <2>1. Nowhere \notin cleared
    BY OptionalsAssumption
  <2>2. \A i \in PatchIds : s.cache[i] \in cleared => Bears(s, s.cache[i]) = i
    BY <1>1, <2>1 DEF Sound
  <2> QED
    BY <2>2 DEF traverse_cells_mut
<1>5. t \in Slice
  <2>1. t.cells \in [Cells -> Patch \cup {Free}]
    BY <1>3
  <2>2. t.cache \in [PatchIds -> Cells \cup {Nowhere}]
    BY <1>2, <1>4
  <2>3. t = [cells |-> t.cells, cache |-> t.cache]
    BY DEF traverse_cells_mut
  <2> QED
    BY <2>1, <2>2, <2>3 DEF Slice
<1>6. \A c \in Cells : Bears(t, c) = IF c \in cleared THEN NoId ELSE Bears(s, c)
  <2> SUFFICES ASSUME NEW c \in Cells
               PROVE  Bears(t, c) = IF c \in cleared THEN NoId ELSE Bears(s, c)
    OBVIOUS
  <2>1. Bears(s, c) = IdOf(s.cells[c]) /\ Bears(t, c) = IdOf(t.cells[c])
    BY <1>1, <1>5, BearsAnId
  <2>2. t.cells[c] = IF IsFree(s, c) \/ c \in cleared THEN Free ELSE left[c]
    BY <1>3
  <2>3. IdOf(Free) = NoId
    BY DEF IdOf
  <2>4. IsFree(s, c) => Bears(s, c) = NoId
    BY DEF Bears
  <2> QED
    BY <2>1, <2>2, <2>3, <2>4
<1>7. Sound(t)
  <2> SUFFICES ASSUME NEW i \in PatchIds, t.cache[i] # Nowhere
               PROVE  Bears(t, t.cache[i]) = i
    BY DEF Sound
  <2>1. s.cache[i] \notin cleared /\ t.cache[i] = s.cache[i]
    BY <1>4
  <2>2. s.cache[i] \in Cells /\ Bears(s, s.cache[i]) = i
    BY <1>1, <1>2, <2>1 DEF Sound
  <2> QED
    BY <1>6, <2>1, <2>2
<1>8. ShapedCells(t)
  BY <1>3 DEF ShapedCells, IsFree
<1> QED
  BY <1>1, <1>4, <1>5, <1>6, <1>7, <1>8 DEF Good

(***************************************************************************)
(* In a sound slice a lookup answers what the cache says and heals nothing.*)
(***************************************************************************)
LEMMA LookupIsCache ==
  ASSUME NEW s, Good(s)
  PROVE  /\ \A i \in PatchIds : get_cell_by_id(s, i) = s.cache[i]
         /\ [i \in PatchIds |-> get_cell_by_id(s, i)] = s.cache
         /\ \A i \in PatchIds : Healed(s, i) = s
<1>1. s \in Slice /\ Sound(s)
  BY DEF Good
<1>2. /\ s.cache \in [PatchIds -> Cells \cup {Nowhere}]
      /\ s = [cells |-> s.cells, cache |-> s.cache]
  BY <1>1, SliceParts
<1>3. \A i \in PatchIds : get_cell_by_id(s, i) = s.cache[i]
  BY <1>1 DEF get_cell_by_id, Sound
<1>4. \A i \in PatchIds : Healed(s, i) = [s EXCEPT !.cache[i] = s.cache[i]]
  BY <1>3 DEF Healed
<1>5. \A i \in PatchIds : [s.cache EXCEPT ![i] = s.cache[i]] = s.cache
  BY <1>2
<1>6. \A i \in PatchIds :
        [s EXCEPT !.cache[i] = s.cache[i]]
          = [cells |-> s.cells, cache |-> [s.cache EXCEPT ![i] = s.cache[i]]]
  BY <1>2
<1> QED
  BY <1>2, <1>3, <1>4, <1>5, <1>6

-----------------------------------------------------------------------------
(* Every call keeps the slice good and is a step of the index, or none. *)

IndexStep ==
  \/ Index!Next
  \/ UNCHANGED <<[c \in Cells |-> Bears(slice, c)],
                 [i \in PatchIds |-> get_cell_by_id(slice, i)]>>

(***************************************************************************)
(* Two slices of which the second is found by giving an id to a cell, or   *)
(* by taking the ids of some cells.                                        *)
(***************************************************************************)
LEMMA GivingIsAStep ==
  ASSUME Good(slice), Good(slice'), NEW c \in Cells, NEW i \in PatchIds,
         \A d \in Cells : Bears(slice, d)' = IF d = c THEN i ELSE Bears(slice, d),
         slice.cache' = [Without(slice.cache, c) EXCEPT ![i] = c]
  PROVE  IndexStep
<1> DEFINE bears == [d \in Cells |-> Bears(slice, d)]
           home == [j \in PatchIds |-> get_cell_by_id(slice, j)]
<1>1. home = slice.cache /\ home' = slice'.cache
  BY LookupIsCache
<1>2. bears' = [bears EXCEPT ![c] = i]
  OBVIOUS
<1>3. slice'.cache = [j \in PatchIds |-> CASE j = i -> c
                                          [] j # i /\ slice.cache[j] = c -> Nowhere
                                          [] OTHER -> slice.cache[j]]
  BY DEF Without
<1>4. home' = [j \in PatchIds |-> CASE j = i -> c
                                 [] j # i /\ home[j] = c -> Nowhere
                                 [] OTHER -> home[j]]
  BY <1>1, <1>3
<1>5. Index!Give(c, i)
  BY <1>2, <1>4 DEF Index!Give
<1> QED
  BY <1>5 DEF IndexStep, Index!Next

LEMMA StrippingIsAStep ==
  ASSUME Good(slice), Good(slice'), NEW stripped \in SUBSET Cells,
         \A d \in Cells :
           Bears(slice, d)' = IF d \in stripped THEN NoId ELSE Bears(slice, d),
         slice.cache' = [j \in PatchIds |-> IF slice.cache[j] \in stripped THEN Nowhere
                                           ELSE slice.cache[j]]
  PROVE  IndexStep
<1> DEFINE bears == [d \in Cells |-> Bears(slice, d)]
           home == [j \in PatchIds |-> get_cell_by_id(slice, j)]
<1>1. home = slice.cache /\ home' = slice'.cache
  BY LookupIsCache
<1>2. bears' = [d \in Cells |-> IF d \in stripped THEN NoId ELSE bears[d]]
  OBVIOUS
<1>3. home' = [j \in PatchIds |-> IF home[j] \in stripped THEN Nowhere ELSE home[j]]
  BY <1>1
<1>4. Index!Strip(stripped)
  BY <1>2, <1>3 DEF Index!Strip
<1> QED
  BY <1>4 DEF IndexStep, Index!Next

LEMMA KeepingIsAStep ==
  ASSUME Good(slice), Good(slice'),
         \A d \in Cells : Bears(slice, d)' = Bears(slice, d),
         slice.cache' = slice.cache
  PROVE  IndexStep
<1>1. /\ [j \in PatchIds |-> get_cell_by_id(slice, j)] = slice.cache
      /\ [j \in PatchIds |-> get_cell_by_id(slice', j)] = slice'.cache
  BY LookupIsCache
<1> QED
  BY <1>1 DEF IndexStep

LEMMA RewritingIsAStep ==
  ASSUME Good(slice), NEW c \in Cells, NEW q \in Patch \cup {Free},
         q # Free => Shaped(c, q),
         slice' = Rewritten(slice, c, q)
  PROVE  Good(slice') /\ IndexStep
<1>1. Good(slice')
  BY RewrittenIsGood
<1>2. slice \in Slice /\ Sound(slice)
  BY DEF Good
<1>3. \A d \in Cells : Bears(slice', d) = IF d = c THEN IdOf(q) ELSE Bears(slice, d)
  BY <1>2, RewrittenBears
<1>4. CASE IdOf(q) = NoId
  <2>1. slice'.cache = Without(slice.cache, c)
    BY <1>2, <1>4, RewrittenCache
  <2>2. slice'.cache = [j \in PatchIds |-> IF slice.cache[j] \in {c} THEN Nowhere
                                          ELSE slice.cache[j]]
    BY <2>1 DEF Without
  <2>3. \A d \in Cells : Bears(slice', d) = IF d \in {c} THEN NoId ELSE Bears(slice, d)
    BY <1>3, <1>4
  <2> QED
    BY <1>1, <2>2, <2>3, StrippingIsAStep
<1>5. CASE IdOf(q) # NoId
  <2>1. IdOf(q) \in PatchIds
    BY <1>5, PatchParts DEF IdOf
  <2>2. slice'.cache = [Without(slice.cache, c) EXCEPT ![IdOf(q)] = c]
    BY <1>2, <1>5, RewrittenCache
  <2> QED
    BY <1>1, <1>3, <2>1, <2>2, GivingIsAStep
<1> QED
  BY <1>1, <1>4, <1>5

LEMMA NamedIsAPatch ==
  ASSUME NEW look \in Looks, NEW i \in PatchIds \cup {NoId}, NEW c \in Cells
  PROVE  /\ Named(look, i) \in Patch
         /\ IdOf(Named(look, i)) = i
         /\ Shaped(c, Named(look, i))
<1>1. /\ look \in [type : PatchTypes, activity : PatchActivities,
                  boundaries : CellBoundaries]
      /\ look.type = "Routing" \/ Square(look.boundaries)
  BY CallersAssumption
<1>2. Named(look, i) \in Patch
  BY <1>1 DEF Named, Patch
<1>3. Named(look, i).id = i /\ Named(look, i).boundaries = look.boundaries
  BY DEF Named
<1>4. Named(look, i).type = look.type
  BY DEF Named
<1>5. Shaped(c, Named(look, i))
  BY <1>1, <1>3, <1>4 DEF Shaped
<1> QED
  BY <1>2, <1>3, <1>5, PatchParts DEF IdOf

LEMMA PlacingIsAStep ==
  ASSUME Good(slice), NEW c \in Cells, NEW look \in Looks,
         NEW i \in PatchIds \cup {NoId},
         slice' = place_dense_patch_at(slice, c, Named(look, i))
  PROVE  Good(slice') /\ IndexStep
<1> DEFINE q == Named(look, i)
<1>1. q \in Patch /\ IdOf(q) = q.id /\ Shaped(c, q)
  <2>1. q.id = i
    BY DEF Named
  <2> QED
    BY <2>1, NamedIsAPatch
<1> HIDE DEF q
<1>2. place_dense_patch_at(slice, c, q) = Rewritten(slice, c, q)
  BY <1>1 DEF place_dense_patch_at, Rewritten
<1>3. slice' = Rewritten(slice, c, q)
  BY <1>2 DEF q
<1> QED
  BY <1>1, <1>3, RewritingIsAStep

LEMMA ClearingIsAStep ==
  ASSUME Good(slice), NEW c \in Cells, slice' = clear_patch_at(slice, c)
  PROVE  Good(slice') /\ IndexStep
<1>1. clear_patch_at(slice, c) = Rewritten(slice, c, Free)
  BY DEF clear_patch_at, Rewritten, IdOf, Indexed
<1> QED
  BY <1>1, RewritingIsAStep

LEMMA OccupiedCell ==
  ASSUME Good(slice), NEW c \in Cells, ~IsFree(slice, c)
  PROVE  /\ slice.cells[c] \in Patch
         /\ Bears(slice, c) = slice.cells[c].id
         /\ Shaped(c, slice.cells[c])
<1>1. slice.cells \in [Cells -> Patch \cup {Free}]
  BY SliceParts DEF Good
<1> QED
  BY <1>1 DEF Good, ShapedCells, IsFree, Bears

LEMMA SameShape ==
  ASSUME NEW c \in Cells, NEW p, NEW q, Shaped(c, p),
         q.type = p.type, q.boundaries = p.boundaries
  PROVE  Shaped(c, q)
BY DEF Shaped

LEMMA AssigningIsAStep ==
  ASSUME Good(slice), NEW c \in Cells, NEW i \in PatchIds \cup {NoId},
         ~IsFree(slice, c), slice' = assign_patch_id(slice, c, i)
  PROVE  Good(slice') /\ IndexStep
<1> DEFINE p == slice.cells[c]
           q == [p EXCEPT !.id = i]
<1>1. p \in Patch /\ Shaped(c, p)
  BY OccupiedCell
<1>2. slice.cells \in [Cells -> Patch \cup {Free}]
  BY SliceParts DEF Good
<1>3. q \in Patch /\ q.id = i /\ q.type = p.type /\ q.boundaries = p.boundaries
  BY <1>1 DEF Patch
<1>4. IdOf(q) = i
  BY <1>3, PatchParts DEF IdOf
<1>5. slice' = Rewritten(slice, c, q)
  BY <1>2, <1>4 DEF assign_patch_id, Rewritten
<1> HIDE DEF p, q
<1> QED
  BY <1>1, <1>3, <1>5, SameShape, RewritingIsAStep

LEMMA TouchingIsAStep ==
  ASSUME Good(slice), NEW c \in Cells, NEW q \in Patch,
         q.id = Bears(slice, c), Shaped(c, q),
         slice' = Touched(slice, c, q)
  PROVE  Good(slice') /\ IndexStep
<1>1. /\ Good(slice')
      /\ slice'.cache = slice.cache
      /\ \A d \in Cells : Bears(slice', d) = Bears(slice, d)
  BY TouchedIsGood
<1> QED
  BY <1>1, KeepingIsAStep

LEMMA RotatedSides ==
  ASSUME NEW b \in CellBoundaries
  PROVE  /\ instant_rotate(b) \in CellBoundaries
         /\ Square(b) => Square(instant_rotate(b))
BY DEF CellBoundaries, Boundary, Square, instant_rotate

LEMMA RotatedIsShaped ==
  ASSUME NEW c \in Cells, NEW p \in Patch, Shaped(c, p), NEW q,
         q.type = p.type, q.boundaries = instant_rotate(p.boundaries)
  PROVE  Shaped(c, q)
BY PatchParts, RotatedSides DEF Shaped

LEMMA SettingIsAStep ==
  ASSUME Good(slice), SetActivity \/ SetType \/ RotateBoundaries
  PROVE  Good(slice') /\ IndexStep
<1>1. CASE SetActivity
  <2>1. PICK c \in Cells, a \in Activities :
          ~IsFree(slice, c) /\ slice' = set_patch_activity(slice, c, a)
    BY <1>1 DEF SetActivity
  <2> DEFINE p == slice.cells[c]
             q == [p EXCEPT !.activity = a]
  <2>2. p \in Patch /\ Bears(slice, c) = p.id /\ Shaped(c, p)
    BY <2>1, OccupiedCell
  <2>3. q \in Patch /\ q.id = p.id /\ q.type = p.type /\ q.boundaries = p.boundaries
    BY <2>2, CallersAssumption DEF Patch
  <2>4. slice' = Touched(slice, c, q)
    BY <2>1 DEF set_patch_activity, Touched
  <2> HIDE DEF p, q
  <2> QED
    BY <2>2, <2>3, <2>4, SameShape, TouchingIsAStep
<1>2. CASE SetType
  <2>1. PICK c \in Cells, a \in Types :
          /\ ~IsFree(slice, c) /\ slice.cells[c].type # "Routing"
          /\ slice' = set_patch_type(slice, c, a)
    BY <1>2 DEF SetType
  <2> DEFINE p == slice.cells[c]
             q == [p EXCEPT !.type = a]
  <2>2. p \in Patch /\ Bears(slice, c) = p.id /\ Shaped(c, p)
    BY <2>1, OccupiedCell
  <2>3. q \in Patch /\ q.id = p.id /\ q.boundaries = p.boundaries
    BY <2>2, CallersAssumption DEF Patch
  <2>5. Shaped(c, q)
    <3>1. p.type # "Routing"
      BY <2>1
    <3> QED
      BY <2>2, <2>3, <3>1 DEF Shaped
  <2>4. slice' = Touched(slice, c, q)
    BY <2>1 DEF set_patch_type, Touched
  <2> HIDE DEF p, q
  <2> QED
    BY <2>2, <2>3, <2>4, <2>5, TouchingIsAStep
<1>3. CASE RotateBoundaries
  <2>1. PICK c \in Cells :
          ~IsFree(slice, c) /\ slice' = rotate_patch_boundaries(slice, c)
    BY <1>3 DEF RotateBoundaries
  <2> DEFINE p == slice.cells[c]
             q == [p EXCEPT !.boundaries = instant_rotate(p.boundaries)]
  <2>2. p \in Patch /\ Bears(slice, c) = p.id /\ Shaped(c, p)
    BY <2>1, OccupiedCell
  <2>3. instant_rotate(p.boundaries) \in CellBoundaries
    BY <2>2, PatchParts, RotatedSides
  <2>4. /\ q \in Patch /\ q.id = p.id /\ q.type = p.type
        /\ q.boundaries = instant_rotate(p.boundaries)
    BY <2>2, <2>3 DEF Patch
  <2>5. slice' = Touched(slice, c, q)
    BY <2>1 DEF rotate_patch_boundaries, Touched
  <2> HIDE DEF p, q
  <2>6. Shaped(c, q)
    BY <2>2, <2>4, RotatedIsShaped
  <2> QED
    BY <2>2, <2>4, <2>5, <2>6, TouchingIsAStep
<1> QED
  BY <1>1, <1>2, <1>3

LEMMA TraversingIsAStep ==
  ASSUME Good(slice), Traverse
  PROVE  Good(slice') /\ IndexStep
<1>1. PICK cleared \in SUBSET Cells, a \in Activities :
        slice' = traverse_cells_mut(
                   slice,
                   [c \in Cells |-> IF IsFree(slice, c) THEN Free
                                    ELSE [slice.cells[c] EXCEPT !.activity = a]],
                   cleared)
  BY DEF Traverse
<1> DEFINE left == [c \in Cells |-> IF IsFree(slice, c) THEN Free
                                    ELSE [slice.cells[c] EXCEPT !.activity = a]]
<1>2. \A c \in Cells :
        /\ left[c] \in Patch \cup {Free}
        /\ IdOf(left[c]) = Bears(slice, c)
        /\ left[c] # Free => Shaped(c, left[c])
  <2> SUFFICES ASSUME NEW c \in Cells
               PROVE  /\ left[c] \in Patch \cup {Free}
                      /\ IdOf(left[c]) = Bears(slice, c)
                      /\ left[c] # Free => Shaped(c, left[c])
    OBVIOUS
  <2>1. CASE IsFree(slice, c)
    BY <2>1 DEF IdOf, Bears
  <2>2. CASE ~IsFree(slice, c)
    <3> DEFINE p == slice.cells[c]
               q == [p EXCEPT !.activity = a]
    <3>1. p \in Patch /\ Bears(slice, c) = p.id /\ Shaped(c, p)
      BY <2>2, OccupiedCell
    <3>2. /\ q \in Patch /\ q.id = p.id
          /\ q.type = p.type /\ q.boundaries = p.boundaries
      BY <3>1, CallersAssumption DEF Patch
    <3>3. left[c] = q
      BY <2>2
    <3> HIDE DEF p, q, left
    <3> QED
      BY <3>1, <3>2, <3>3, SameShape, PatchParts DEF IdOf
  <2> QED
    BY <2>1, <2>2
<1>3. slice' = traverse_cells_mut(slice, left, cleared)
  BY <1>1
<1>4. left \in [Cells -> Patch \cup {Free}]
  BY <1>2
<1> HIDE DEF left
<1>5. /\ Good(slice')
      /\ slice'.cache = [i \in PatchIds |-> IF slice.cache[i] \in cleared THEN Nowhere
                                            ELSE slice.cache[i]]
      /\ \A c \in Cells :
           Bears(slice', c) = IF c \in cleared THEN NoId ELSE Bears(slice, c)
  BY <1>2, <1>3, <1>4, TraversedIsGood
<1> QED
  BY <1>5, StrippingIsAStep

LEMMA LookingUpIsAStep ==
  ASSUME Good(slice), LookUp
  PROVE  Good(slice') /\ IndexStep
<1>1. slice' = slice
  BY LookupIsCache DEF LookUp
<1> QED
  BY <1>1, KeepingIsAStep

LEMMA DeletingIsAStep ==
  ASSUME Good(slice), DeletePatch
  PROVE  Good(slice') /\ IndexStep
<1>1. PICK i \in PatchIds : slice' = delete_patch_by_id(slice, i)
  BY DEF DeletePatch
<1>2. slice.cache \in [PatchIds -> Cells \cup {Nowhere}]
  BY SliceParts DEF Good
<1>3. get_cell_by_id(slice, i) = slice.cache[i]
  BY LookupIsCache
<1>4. CASE slice.cache[i] = Nowhere
  <2>1. slice' = Healed(slice, i)
    BY <1>1, <1>3, <1>4 DEF delete_patch_by_id
  <2> QED
    BY <2>1, LookingUpIsAStep DEF LookUp
<1>5. CASE slice.cache[i] # Nowhere
  <2>1. slice' = clear_patch_at(slice, slice.cache[i])
    BY <1>1, <1>3, <1>5 DEF delete_patch_by_id
  <2> QED
    BY <1>2, <1>5, <2>1, ClearingIsAStep
<1> QED
  BY <1>4, <1>5

LEMMA EveryCallIsAStep ==
  ASSUME Good(slice), SliceNext
  PROVE  Good(slice') /\ IndexStep
<1>1. CASE PlaceDensePatch
  BY <1>1, PlacingIsAStep DEF PlaceDensePatch
<1>2. CASE PlaceSingleCellSparsePatch
  BY <1>2, PlacingIsAStep DEF PlaceSingleCellSparsePatch
<1>3. CASE AssignPatchId
  BY <1>3, AssigningIsAStep DEF AssignPatchId
<1>4. CASE ClearPatch
  BY <1>4, ClearingIsAStep DEF ClearPatch
<1>5. CASE DeletePatch
  BY <1>5, DeletingIsAStep
<1>6. CASE LookUp
  BY <1>6, LookingUpIsAStep
<1>7. CASE SetActivity \/ SetType \/ RotateBoundaries
  BY <1>7, SettingIsAStep
<1>8. CASE Traverse
  BY <1>8, TraversingIsAStep
<1> QED
  BY <1>1, <1>2, <1>3, <1>4, <1>5, <1>6, <1>7, <1>8 DEF SliceNext

-----------------------------------------------------------------------------
(* The constructor. *)

LEMMA InitialPatchIsShaped ==
  ASSUME NEW c \in Cells
  PROVE  /\ InitialPatch(c) \in Patch \cup {Free}
         /\ InitialPatch(c) # Free => Shaped(c, InitialPatch(c))
         /\ \A i \in PatchIds :
              IdOf(InitialPatch(c)) = i <=> i \in DOMAIN CoreHome /\ CoreHome[i] = c
<1>1. \A i \in PatchIds \cup {NoId} :
        /\ basic_square_patch(i) \in Patch
        /\ basic_square_patch(i).id = i
        /\ Shaped(c, basic_square_patch(i))
  BY DEF basic_square_patch, basic_square_look, Named, Patch, PatchTypes,
         PatchActivities, CellBoundaries, Boundary, BoundaryTypes, boundary, Shaped, Square
<1>2. /\ Tile("Dead", Uniform("Connected")) \in Patch
      /\ Tile("Dead", Uniform("Connected")).id = NoId
      /\ Shaped(c, Tile("Dead", Uniform("Connected")))
  BY DEF Tile, Uniform, Named, Patch, PatchTypes, PatchActivities, CellBoundaries,
         Boundary, BoundaryTypes, boundary, Shaped, Square
<1> DEFINE tile == Tile("Distillation", FactoryTiles[c])
<1>6. ASSUME c \in FactoryCells
      PROVE  tile \in Patch /\ tile.id = NoId /\ Shaped(c, tile)
  <2>1. FactoryTiles[c] \in CellBoundaries
    BY <1>6, LayoutAssumption DEF FactoryCells
  <2> QED
    BY <1>6, <2>1 DEF Tile, Named, Patch, PatchTypes, PatchActivities, Shaped
<1>3. CASE \E i \in DOMAIN CoreHome : CoreHome[i] = c
  <2> DEFINE owner == CHOOSE i \in DOMAIN CoreHome : CoreHome[i] = c
  <2>1. owner \in DOMAIN CoreHome /\ CoreHome[owner] = c
    BY <1>3
  <2>2. owner \in PatchIds
    BY <2>1, LayoutAssumption
  <2>3. InitialPatch(c) = basic_square_patch(owner)
    BY <1>3 DEF InitialPatch
  <2> HIDE DEF owner
  <2>4. IdOf(InitialPatch(c)) = owner
    BY <1>1, <2>2, <2>3, PatchParts DEF IdOf
  <2>5. \A i \in DOMAIN CoreHome : CoreHome[i] = c => i = owner
    BY <2>1, LayoutAssumption
  <2> QED
    BY <1>1, <2>1, <2>2, <2>3, <2>4, <2>5
<1>4. CASE ~\E i \in DOMAIN CoreHome : CoreHome[i] = c
  <2>1. \/ InitialPatch(c) = Tile("Dead", Uniform("Connected"))
        \/ c \in FactoryCells /\ InitialPatch(c) = tile
        \/ InitialPatch(c) = basic_square_patch(NoId)
        \/ InitialPatch(c) = Free
    BY <1>4 DEF InitialPatch
  <2> HIDE DEF tile
  <2>2. IdOf(InitialPatch(c)) = NoId
    BY <1>1, <1>2, <1>6, <2>1, PatchParts DEF IdOf
  <2>3. NoId \notin PatchIds
    BY OptionalsAssumption
  <2>4. /\ InitialPatch(c) \in Patch \cup {Free}
        /\ InitialPatch(c) # Free => Shaped(c, InitialPatch(c))
    BY <1>1, <1>2, <1>6, <2>1
  <2> QED
    BY <1>4, <2>2, <2>3, <2>4
<1> QED
  BY <1>3, <1>4

LEMMA ConstructedIsGood ==
  ASSUME SliceInit
  PROVE  /\ Good(slice)
         /\ \A i \in PatchIds, c \in Cells : slice.cache[i] = c <=> Bears(slice, c) = i
<1>1. /\ slice.cells = [c \in Cells |-> InitialPatch(c)]
      /\ slice.cache = [i \in PatchIds |-> IF i \in DOMAIN CoreHome THEN CoreHome[i]
                                           ELSE Nowhere]
      /\ slice = [cells |-> slice.cells, cache |-> slice.cache]
  BY DEF SliceInit
<1>2. slice.cells \in [Cells -> Patch \cup {Free}]
  BY <1>1, InitialPatchIsShaped
<1>3. slice.cache \in [PatchIds -> Cells \cup {Nowhere}]
  BY <1>1, LayoutAssumption
<1>4. slice \in Slice
  BY <1>1, <1>2, <1>3 DEF Slice
<1>5. \A c \in Cells : Bears(slice, c) = IdOf(InitialPatch(c))
  BY <1>1, <1>4, BearsAnId
<1>6. \A i \in PatchIds, c \in Cells : slice.cache[i] = c <=> Bears(slice, c) = i
  <2> SUFFICES ASSUME NEW i \in PatchIds, NEW c \in Cells
               PROVE  slice.cache[i] = c <=> Bears(slice, c) = i
    OBVIOUS
  <2>1. slice.cache[i] = c <=> i \in DOMAIN CoreHome /\ CoreHome[i] = c
    BY <1>1, OptionalsAssumption
  <2> QED
    BY <1>5, <2>1, InitialPatchIsShaped
<1>7. Sound(slice)
  BY <1>3, <1>6 DEF Sound
<1>8. ShapedCells(slice)
  BY <1>1, InitialPatchIsShaped DEF ShapedCells, IsFree
<1> QED
  BY <1>4, <1>6, <1>7, <1>8 DEF Good

-----------------------------------------------------------------------------
LEMMA SliceIsGood == SliceSpec => []Good(slice)
<1>1. SliceInit => Good(slice)
  BY ConstructedIsGood
<1>2. Good(slice) /\ [SliceNext]_slice => Good(slice)'
  BY EveryCallIsAStep DEF Good, Sound, ShapedCells
<1> QED
  BY <1>1, <1>2, PTL DEF SliceSpec

(***************************************************************************)
(* Whatever calls are made, patches keep all their parts and their square  *)
(* shape, and no entry of the cache points out of the grid.                *)
(***************************************************************************)
THEOREM TypeCorrect == SliceSpec => []SliceTypeOK
<1>1. Good(slice) => SliceTypeOK
  BY DEF Good, ShapedCells, SliceTypeOK
<1> QED
  BY <1>1, SliceIsGood, PTL

(***************************************************************************)
(* The invariant the comment on patch_id_to_cell_cache claims: an entry    *)
(* always points to a cell that holds a patch with that id.                *)
(***************************************************************************)
THEOREM CacheIsSound == SliceSpec => []CacheSound
<1>1. Good(slice) => CacheSound
  BY DEF Good, Sound, CacheSound
<1> QED
  BY <1>1, SliceIsGood, PTL

(***************************************************************************)
(* With its cache and the eviction rule, the slice finds every id exactly  *)
(* where an index without a cache would: at the cell that was given it     *)
(* last, if that cell has not given it up.                                 *)
(***************************************************************************)
THEOREM ImplementsPatchIndex == SliceSpec => KeepsIndex
<1>1. SliceInit => Index!Init
  <2> SUFFICES ASSUME SliceInit PROVE Index!Init
    OBVIOUS
  <2>1. Good(slice) /\ slice \in Slice
    BY ConstructedIsGood DEF Good
  <2>2. [i \in PatchIds |-> get_cell_by_id(slice, i)] = slice.cache
    BY <2>1, LookupIsCache
  <2>3. slice.cache \in [PatchIds -> Cells \cup {Nowhere}]
    BY <2>1, SliceParts
  <2>4. [c \in Cells |-> Bears(slice, c)] \in [Cells -> PatchIds \cup {NoId}]
    BY <2>1, BearsAnId
  <2> QED
    BY <2>2, <2>3, <2>4, ConstructedIsGood DEF Index!Init
<1>2. Good(slice) /\ [SliceNext]_slice => [Index!Next]_(Index!indexVars)
  <2> SUFFICES ASSUME Good(slice), [SliceNext]_slice
               PROVE  [Index!Next]_(Index!indexVars)
    OBVIOUS
  <2>1. CASE SliceNext
    BY <2>1, EveryCallIsAStep DEF IndexStep, Index!indexVars
  <2>2. CASE UNCHANGED slice
    BY <2>2 DEF Index!indexVars
  <2> QED
    BY <2>1, <2>2
<1> QED
  BY <1>1, <1>2, SliceIsGood, PTL DEF SliceSpec, KeepsIndex, Index!Spec
=============================================================================
