--------------------------- MODULE Lattice_proofs ---------------------------
(***************************************************************************)
(* Proofs about Lattice: the books of magic states and Y states agree with *)
(* the cells, rotations are not cut into, no route is cut, and no patch of *)
(* a program is lost, moved or made to share its cell, for every layout    *)
(* and whatever instructions come in whatever order.                       *)
(*                                                                         *)
(* What an instruction does to the slice is stated by one of a few         *)
(* relations: it works on the patches it finds and on free cells (Works),  *)
(* or one cell becomes something else (Becomes).                           *)
(***************************************************************************)
EXTENDS Lattice, DenseSlice_proofs, FiniteSetTheorems, SequenceTheorems, WellFoundedInduction

-----------------------------------------------------------------------------
(* Geometry and choices. *)

\* A set of numbers has a least element.
LEMMA LeastNumber ==
  ASSUME NEW T, T \subseteq Nat, T # {}
  PROVE  \E m \in T : \A n \in T : m <= n
<1>1. PICK m \in T : \A n \in T : ~ (<<n, m>> \in OpToRel(<, Nat))
  BY NatLessThanWellFounded, WFMin
<1>2. ASSUME NEW n \in T
      PROVE  m <= n
  <2>1. ~ (n < m)
    BY <1>1 DEF OpToRel
  <2> QED
    BY <2>1
<1> QED
  BY <1>2

\* The least of some indices is one of them.
LEMMA MinIsIn ==
  ASSUME NEW T, T \subseteq Nat, T # {}
  PROVE  Min(T) \in T
BY LeastNumber DEF Min

\* The cell beside a cell is another one.
LEMMA BeyondIsAnother ==
  ASSUME NEW c \in Cells, NEW d \in Directions
  PROVE  Beyond(c, d) # c
<1>1. c[1] \in Int /\ c[2] \in Int /\ c = <<c[1], c[2]>>
  BY DEF Cells
<1> QED
  BY <1>1 DEF Beyond, Directions

\* The side that two cells have in common.
LEMMA BetweenIsASide ==
  ASSUME NEW c, NEW d \in Directions
  PROVE  Between(c, Beyond(c, d)) \in Directions
BY DEF Between

\* The sides are ranked, so that there is a first and a last of them.
LEMMA FirstSideIsIn ==
  ASSUME NEW sides, sides \subseteq Directions, sides # {}
  PROVE  FirstSide(sides) \in sides
<1>1. Rank["top"] = 1 /\ Rank["bottom"] = 2 /\ Rank["left"] = 3 /\ Rank["right"] = 4
  BY DEF Rank
<1>2. \E d \in sides : \A e \in sides : Rank[d] <= Rank[e]
  <2>1. CASE "top" \in sides
    BY <1>1, <2>1 DEF Directions
  <2>2. CASE "top" \notin sides /\ "bottom" \in sides
    BY <1>1, <2>2 DEF Directions
  <2>3. CASE "top" \notin sides /\ "bottom" \notin sides /\ "left" \in sides
    BY <1>1, <2>3 DEF Directions
  <2>4. CASE "top" \notin sides /\ "bottom" \notin sides /\ "left" \notin sides
    <3>1. sides = {"right"}
      BY <2>4 DEF Directions
    <3> QED
      BY <1>1, <3>1
  <2> QED
    BY <2>1, <2>2, <2>3, <2>4
<1> QED
  BY <1>2 DEF FirstSide

LEMMA LastSideIsIn ==
  ASSUME NEW sides, sides \subseteq Directions, sides # {}
  PROVE  LastSide(sides) \in sides
<1>1. Rank["top"] = 1 /\ Rank["bottom"] = 2 /\ Rank["left"] = 3 /\ Rank["right"] = 4
  BY DEF Rank
<1>2. \E d \in sides : \A e \in sides : Rank[d] >= Rank[e]
  <2>1. CASE "right" \in sides
    BY <1>1, <2>1 DEF Directions
  <2>2. CASE "right" \notin sides /\ "left" \in sides
    BY <1>1, <2>2 DEF Directions
  <2>3. CASE "right" \notin sides /\ "left" \notin sides /\ "bottom" \in sides
    BY <1>1, <2>3 DEF Directions
  <2>4. CASE "right" \notin sides /\ "left" \notin sides /\ "bottom" \notin sides
    <3>1. sides = {"top"}
      BY <2>4 DEF Directions
    <3> QED
      BY <1>1, <3>1
  <2> QED
    BY <2>1, <2>2, <2>3, <2>4
<1> QED
  BY <1>2 DEF LastSide

\* Cells are pairs of numbers.
LEMMA CellParts ==
  ASSUME NEW c \in Cells
  PROVE  c[1] \in Nat /\ c[2] \in Nat /\ c = <<c[1], c[2]>>
BY LayoutAssumption DEF Cells

\* The closest of some cells: nearest, then first by row, then by column.
LEMMA ClosestIsIn ==
  ASSUME NEW c \in Cells, NEW cells, cells \subseteq Cells, cells # {}
  PROVE  Closest(c, cells) \in cells
<1>1. \A e \in Cells : L1(c, e) \in Nat
  BY CellParts DEF L1, Gap
<1>2. PICK e1 \in cells : \A f \in cells : L1(c, e1) <= L1(c, f)
  <2> DEFINE T == {L1(c, e) : e \in cells}
  <2>1. T \subseteq Nat /\ T # {}
    BY <1>1
  <2>2. PICK m \in T : \A n \in T : m <= n
    BY <2>1, LeastNumber
  <2> QED
    BY <2>2
<1> DEFINE near == {e \in cells : L1(c, e) = L1(c, e1)}
<1>3. PICK e2 \in near : \A f \in near : e2[1] <= f[1]
  <2> DEFINE T == {e[1] : e \in near}
  <2>1. T \subseteq Nat /\ T # {}
    BY CellParts
  <2>2. PICK m \in T : \A n \in T : m <= n
    BY <2>1, LeastNumber
  <2> QED
    BY <2>2
<1> DEFINE top == {e \in near : e[1] = e2[1]}
<1>4. PICK e3 \in top : \A f \in top : e3[2] <= f[2]
  <2> DEFINE T == {e[2] : e \in top}
  <2>1. T \subseteq Nat /\ T # {}
    BY CellParts
  <2>2. PICK m \in T : \A n \in T : m <= n
    BY <2>1, LeastNumber
  <2> QED
    BY <2>2
<1>5. ASSUME NEW f \in cells \ {e3}
      PROVE  L1(c, e3) < L1(c, f) \/ (L1(c, e3) = L1(c, f) /\ Before(e3, f))
  <2>1. /\ L1(c, e3) \in Nat /\ L1(c, f) \in Nat /\ L1(c, e1) \in Nat
        /\ e3[1] \in Nat /\ e3[2] \in Nat /\ f[1] \in Nat /\ f[2] \in Nat
        /\ e3 = <<e3[1], e3[2]>> /\ f = <<f[1], f[2]>>
    BY <1>1, <1>4, CellParts
  <2>2. L1(c, e3) = L1(c, e1) /\ L1(c, e3) <= L1(c, f)
    BY <1>2, <1>4
  <2>3. CASE L1(c, f) # L1(c, e3)
    BY <2>1, <2>2, <2>3
  <2>4. CASE L1(c, f) = L1(c, e3)
    <3>1. f \in near
      BY <2>2, <2>4
    <3>2. e3[1] = e2[1] /\ e3[1] <= f[1]
      BY <1>3, <1>4, <3>1
    <3>3. CASE f[1] # e3[1]
      BY <2>1, <2>4, <3>2, <3>3 DEF Before
    <3>4. CASE f[1] = e3[1]
      <4>1. e3[2] <= f[2]
        BY <1>4, <3>1, <3>2, <3>4
      <4>2. f[2] # e3[2]
        BY <2>1, <3>4
      <4> QED
        BY <2>1, <2>4, <3>4, <4>1, <4>2 DEF Before
    <3> QED
      BY <3>3, <3>4
  <2> QED
    BY <2>3, <2>4
<1>6. e3 \in cells
  OBVIOUS
<1> QED
  BY <1>5, <1>6 DEF Closest
-----------------------------------------------------------------------------
(* Patches and slices. *)

\* What a change of one field leaves of a patch.
LEMMA PatchChanges ==
  ASSUME NEW p \in Patch
  PROVE  /\ p.type \in PatchTypes /\ p.activity \in PatchActivities
         /\ p.id \in PatchIds \cup {NoId} /\ p.boundaries \in CellBoundaries
         /\ \A a \in PatchActivities :
              LET q == [p EXCEPT !.activity = a]
              IN q \in Patch /\ q.activity = a /\ q.type = p.type /\ q.id = p.id
                 /\ q.boundaries = p.boundaries
         /\ \A i \in PatchIds \cup {NoId} :
              LET q == [p EXCEPT !.id = i]
              IN q \in Patch /\ q.id = i /\ q.type = p.type /\ q.activity = p.activity
                 /\ q.boundaries = p.boundaries
         /\ \A t \in PatchTypes :
              LET q == [p EXCEPT !.type = t]
              IN q \in Patch /\ q.type = t /\ q.id = p.id /\ q.activity = p.activity
                 /\ q.boundaries = p.boundaries
         /\ \A b \in CellBoundaries :
              LET q == [p EXCEPT !.boundaries = b]
              IN q \in Patch /\ q.type = p.type /\ q.id = p.id /\ q.activity = p.activity
                 /\ q.boundaries = b
BY DEF Patch

\* What is at a cell.
LEMMA CellContent ==
  ASSUME NEW s, Good(s), NEW c \in Cells
  PROVE  /\ s.cells[c] \in Patch \cup {Free}
         /\ IsFree(s, c) <=> s.cells[c] = Free
         /\ IsFree(s, c) => Bears(s, c) = NoId
         /\ ~IsFree(s, c) => /\ s.cells[c] \in Patch
                             /\ Shaped(c, s.cells[c])
                             /\ Bears(s, c) = s.cells[c].id
<1>1. s.cells \in [Cells -> Patch \cup {Free}]
  BY SliceParts DEF Good
<1> QED
  BY <1>1 DEF Good, ShapedCells, IsFree, Bears

\* An entry of the cache is the cell that bears the id.
LEMMA CacheContent ==
  ASSUME NEW s, Good(s), NEW i \in PatchIds
  PROVE  /\ s.cache[i] \in Cells \cup {Nowhere}
         /\ s.cache[i] # Nowhere => s.cache[i] \in Cells /\ Bears(s, s.cache[i]) = i
                                    /\ ~IsFree(s, s.cache[i])
                                    /\ s.cells[s.cache[i]].id = i
         /\ get_cell_by_id(s, i) = s.cache[i]
<1>1. s.cache \in [PatchIds -> Cells \cup {Nowhere}]
  BY SliceParts DEF Good
<1>2. i # NoId
  BY OptionalsAssumption
<1> QED
  BY <1>1, <1>2, LookupIsCache, CellContent DEF Good, Sound

(***************************************************************************)
(* From s to t, patches are worked on, those that have an id also by a     *)
(* gate, and free cells become part of routes.                             *)
(***************************************************************************)
WorkedOn(p, q) ==
  /\ q # Free /\ q.type = p.type /\ q.id = p.id
  /\ q.activity = p.activity \/ (p.id # NoId /\ ~Done(q))

Works(s, t) ==
  /\ Good(t) /\ t.cache = s.cache
  /\ \A c \in Cells : ~IsFree(s, c) => WorkedOn(s.cells[c], t.cells[c])
  /\ \A c \in Cells : IsFree(s, c) /\ ~IsFree(t, c) =>
       t.cells[c].type = "Routing" /\ t.cells[c].id = NoId

(***************************************************************************)
(* From s to t, cell c becomes q, and q's id is found there.               *)
(***************************************************************************)
Becomes(s, t, c, q) ==
  /\ Good(t) /\ t.cells[c] = q
  /\ \A d \in Cells : d # c => t.cells[d] = s.cells[d]
  /\ \A j \in PatchIds : t.cache[j] = IF j = IdOf(q) THEN c
                                      ELSE IF s.cache[j] = c THEN Nowhere
                                      ELSE s.cache[j]

LEMMA WorksTwice ==
  ASSUME NEW s, NEW t, NEW u, Works(s, t), Works(t, u)
  PROVE  Works(s, u)
BY DEF Works, WorkedOn, Done, IsFree

\* A patch is worked on where it is.
LEMMA TouchingWorks ==
  ASSUME NEW s, Good(s), NEW c \in Cells, ~IsFree(s, c),
         NEW q \in Patch, Shaped(c, q), WorkedOn(s.cells[c], q)
  PROVE  Works(s, Touched(s, c, q))
<1> DEFINE t == Touched(s, c, q)
<1>1. s.cells \in [Cells -> Patch \cup {Free}]
  BY SliceParts DEF Good
<1>2. s.cells[c] \in Patch /\ q.id = Bears(s, c)
  BY CellContent DEF WorkedOn
<1>3. Good(t) /\ t.cache = s.cache
  BY <1>2, TouchedIsGood
<1>4. t.cells[c] = q /\ \A d \in Cells : d # c => t.cells[d] = s.cells[d]
  <2>1. s = [cells |-> s.cells, cache |-> s.cache]
    BY SliceParts DEF Good
  <2>2. t.cells = [s.cells EXCEPT ![c] = q]
    BY <2>1 DEF Touched
  <2> QED
    BY <1>1, <2>2
<1> HIDE DEF t
<1>5. \A d \in Cells : ~IsFree(s, d) => WorkedOn(s.cells[d], t.cells[d])
  BY <1>4 DEF WorkedOn, IsFree
<1> QED
  BY <1>3, <1>4, <1>5 DEF Works, IsFree, t

\* A side that becomes active is of the same type as before.
LEMMA ActivatedSides ==
  ASSUME NEW b \in CellBoundaries, NEW d \in Directions,
         NEW e, e = [b EXCEPT ![d].is_active = TRUE]
  PROVE  /\ e \in CellBoundaries
         /\ Square(b) => Square(e)
<1>1. CASE d = "top"
  BY <1>1 DEF CellBoundaries, Boundary, Square
<1>2. CASE d = "bottom"
  BY <1>2 DEF CellBoundaries, Boundary, Square
<1>3. CASE d = "left"
  BY <1>3 DEF CellBoundaries, Boundary, Square
<1>4. CASE d = "right"
  BY <1>4 DEF CellBoundaries, Boundary, Square
<1> QED
  BY <1>1, <1>2, <1>3, <1>4 DEF Directions

LEMMA ActivatingWorks ==
  ASSUME NEW s, Good(s), NEW c \in Cells, ~IsFree(s, c), NEW d \in Directions
  PROVE  Works(s, Activate(s, c, Beyond(c, d)))
<1> DEFINE p == s.cells[c]
           side == Between(c, Beyond(c, d))
           b == [p.boundaries EXCEPT ![side].is_active = TRUE]
           q == [p EXCEPT !.boundaries = b]
<1>1. side \in Directions
  BY BetweenIsASide
<1>2. p \in Patch /\ Shaped(c, p) /\ p.boundaries \in CellBoundaries
  BY CellContent, PatchChanges
<1>3. b \in CellBoundaries /\ (Square(p.boundaries) => Square(b))
  BY <1>1, <1>2, ActivatedSides
<1>4. q \in Patch /\ q.type = p.type /\ q.id = p.id /\ q.activity = p.activity /\ q.boundaries = b
  BY <1>2, <1>3, PatchChanges
<1>5. Shaped(c, q)
  BY <1>2, <1>3, <1>4 DEF Shaped
<1>6. Activate(s, c, Beyond(c, d)) = Touched(s, c, q)
  BY <1>2 DEF Activate, Touched
<1>7. WorkedOn(s.cells[c], q)
  BY <1>4, OptionalsAssumption DEF WorkedOn
<1> QED
  BY <1>4, <1>5, <1>6, <1>7, TouchingWorks

\* A cell of a region.
LEMMA RoutingPatchIs ==
  ASSUME NEW c, NEW a \in PatchActivities, NEW joined
  PROVE  /\ RoutingPatch(c, a, joined) \in Patch
         /\ RoutingPatch(c, a, joined).type = "Routing"
         /\ RoutingPatch(c, a, joined).activity = a
         /\ RoutingPatch(c, a, joined).id = NoId
<1>1. boundary("None") \in Boundary
      /\ [boundary_type |-> "Connected", is_active |-> TRUE] \in Boundary
  BY DEF boundary, Boundary, BoundaryTypes
<1> QED
  BY <1>1 DEF RoutingPatch, Named, Patch, PatchTypes, CellBoundaries

(***************************************************************************)
(* A region of cells that bear no ids.                                     *)
(***************************************************************************)
LEMMA MarkedRegion ==
  ASSUME NEW s, Good(s), NEW patches,
         \A c \in Cells \cap DOMAIN patches :
           Bears(s, c) = NoId /\ patches[c] \in Patch /\ patches[c].type = "Routing"
           /\ patches[c].id = NoId
  PROVE  /\ Good(mark_routing_region(s, patches))
         /\ mark_routing_region(s, patches).cache = s.cache
         /\ \A c \in Cells : mark_routing_region(s, patches).cells[c] =
              IF c \in DOMAIN patches THEN patches[c] ELSE s.cells[c]
<1> DEFINE t == mark_routing_region(s, patches)
<1>1. /\ s.cells \in [Cells -> Patch \cup {Free}]
      /\ s.cache \in [PatchIds -> Cells \cup {Nowhere}]
      /\ s = [cells |-> s.cells, cache |-> s.cache]
  BY SliceParts DEF Good
<1>2. t = [cells |-> [c \in Cells |-> IF c \in DOMAIN patches THEN patches[c] ELSE s.cells[c]],
           cache |-> s.cache]
  BY <1>1 DEF mark_routing_region
<1>3. /\ t.cache = s.cache
      /\ t.cells = [c \in Cells |-> IF c \in DOMAIN patches THEN patches[c] ELSE s.cells[c]]
      /\ \A c \in Cells : t.cells[c] = IF c \in DOMAIN patches THEN patches[c] ELSE s.cells[c]
  BY <1>2
<1>4. t \in Slice
  <2>1. t.cells \in [Cells -> Patch \cup {Free}]
    BY <1>1, <1>3
  <2> QED
    BY <1>1, <1>2, <1>3, <2>1 DEF Slice
<1> HIDE DEF t
<1>5. \A c \in Cells : Bears(t, c) = Bears(s, c)
  <2> SUFFICES ASSUME NEW c \in Cells PROVE Bears(t, c) = Bears(s, c)
    OBVIOUS
  <2>1. CASE c \in DOMAIN patches
    BY <1>3, <2>1, OptionalsAssumption DEF Bears, IsFree
  <2>2. CASE c \notin DOMAIN patches
    BY <1>3, <2>2 DEF Bears, IsFree
  <2> QED
    BY <2>1, <2>2
<1>6. Sound(t)
  BY <1>1, <1>3, <1>5 DEF Good, Sound
<1>7. ShapedCells(t)
  <2> SUFFICES ASSUME NEW c \in Cells, ~IsFree(t, c) PROVE Shaped(c, t.cells[c])
    BY DEF ShapedCells
  <2>1. CASE c \in DOMAIN patches
    BY <1>3, <2>1 DEF Shaped
  <2>2. CASE c \notin DOMAIN patches
    BY <1>3, <2>2 DEF Good, ShapedCells, IsFree
  <2> QED
    BY <2>1, <2>2
<1> QED
  BY <1>3, <1>4, <1>6, <1>7 DEF Good, t

\* Sides face what is beyond them.
LEMMA FacingSide ==
  ASSUME NEW s, NEW c, NEW n, NEW op, Facing(s, c, n, op)
  PROVE  \E d \in Directions : n = Beyond(c, d)
BY DEF Facing, SidesOfType

(***************************************************************************)
(* merge_patches works on the two patches and takes free cells.            *)
(***************************************************************************)
LEMMA MergingWorks ==
  ASSUME NEW s, Good(s), NEW a \in Cells, NEW b \in Cells, ~IsFree(s, a), ~IsFree(s, b),
         NEW op1, NEW op2, NEW route \in find_routing_ancilla(s, a, op1, b, op2)
  PROVE  Works(s, Merged(s, a, b, route))
<1> DEFINE first == IF route = << >> THEN b ELSE route[1]
           last  == IF route = << >> THEN a ELSE route[Len(route)]
           s1 == Activate(s, a, first)
           s2 == Activate(s1, b, last)
           ends == <<a>> \o route \o <<b>>
           at(c) == CHOOSE k \in DOMAIN route : route[k] = c
           patches == [c \in Elements(route) |->
                         RoutingPatch(c, "MultiPatchMeasurement", {ends[at(c)], ends[at(c) + 2]})]
<1>1. /\ \E d \in Directions : first = Beyond(a, d)
      /\ \E d \in Directions : last = Beyond(b, d)
      /\ \A k \in DOMAIN route : IsFree(s, route[k])
  <2>1. CASE Facing(s, a, b, op1) /\ Facing(s, b, a, op2)
    <3>1. route = << >>
      BY <2>1 DEF find_routing_ancilla
    <3> QED
      BY <2>1, <3>1, FacingSide
  <2>2. CASE ~(Facing(s, a, b, op1) /\ Facing(s, b, a, op2))
    <3>1. route \in OpenPaths(s, a, op1, b, op2)
      BY <2>2 DEF find_routing_ancilla
    <3>2. /\ \A k \in DOMAIN route : IsFree(s, route[k])
          /\ Facing(s, a, route[1], op1) /\ Facing(s, b, route[Len(route)], op2)
          /\ route # << >>
      BY <3>1 DEF OpenPaths
    <3> QED
      BY <3>2, FacingSide
  <2> QED
    BY <2>1, <2>2
<1>2. Works(s, s1)
  BY <1>1, ActivatingWorks
<1>3. Good(s1) /\ ~IsFree(s1, b)
  BY <1>2 DEF Works, WorkedOn, IsFree
<1>4. Works(s1, s2)
  BY <1>1, <1>3, ActivatingWorks
<1>5. Works(s, s2) /\ Good(s2)
  <2>1. Works(s, s2)
    BY <1>2, <1>4, WorksTwice
  <2> QED
    BY <2>1 DEF Works
<1>6. Merged(s, a, b, route) = mark_routing_region(s2, patches)
  BY DEF Merged, stitch_boundaries
<1>7. /\ DOMAIN patches = Elements(route)
      /\ \A c \in Elements(route) :
           patches[c] \in Patch /\ patches[c].type = "Routing" /\ patches[c].id = NoId
  BY RoutingPatchIs DEF PatchActivities
<1>8. \A c \in Elements(route) : IsFree(s, c)
  BY <1>1 DEF Elements
<1> HIDE DEF s1, s2, patches, first, last
<1>9. \A c \in Cells \cap Elements(route) : Bears(s2, c) = NoId
  BY <1>5, <1>8, OptionalsAssumption DEF Works, Bears
<1> DEFINE t == mark_routing_region(s2, patches)
<1>10. /\ Good(t) /\ t.cache = s2.cache
       /\ \A c \in Cells : t.cells[c] = IF c \in Elements(route) THEN patches[c] ELSE s2.cells[c]
  BY <1>5, <1>7, <1>9, MarkedRegion
<1> HIDE DEF t
<1>11. \A c \in Cells : ~IsFree(s, c) => WorkedOn(s.cells[c], t.cells[c])
  BY <1>5, <1>8, <1>10 DEF Works
<1>12. \A c \in Cells : IsFree(s, c) /\ ~IsFree(t, c) =>
         t.cells[c].type = "Routing" /\ t.cells[c].id = NoId
  BY <1>5, <1>7, <1>10 DEF Works, IsFree
<1> QED
  BY <1>5, <1>6, <1>10, <1>11, <1>12 DEF Works, t

-----------------------------------------------------------------------------
(* One cell becomes something else. *)

LEMMA RewritingBecomes ==
  ASSUME NEW s, Good(s), NEW c \in Cells, NEW q \in Patch \cup {Free},
         q # Free => Shaped(c, q)
  PROVE  Becomes(s, Rewritten(s, c, q), c, q)
<1> DEFINE t == Rewritten(s, c, q)
<1>1. Good(t)
  BY RewrittenIsGood
<1>2. /\ s.cells \in [Cells -> Patch \cup {Free}]
      /\ s.cache \in [PatchIds -> Cells \cup {Nowhere}]
      /\ s \in Slice /\ Sound(s)
  BY SliceParts DEF Good
<1>3. t.cells[c] = q /\ \A d \in Cells : d # c => t.cells[d] = s.cells[d]
  BY <1>2 DEF Rewritten
<1>4. t.cache = IF IdOf(q) = NoId THEN Without(s.cache, c)
                ELSE [Without(s.cache, c) EXCEPT ![IdOf(q)] = c]
  BY <1>2, RewrittenCache
<1>5. IdOf(q) \in PatchIds \cup {NoId} /\ NoId \notin PatchIds
  BY PatchParts, OptionalsAssumption DEF IdOf
<1> HIDE DEF t
<1>6. \A j \in PatchIds : t.cache[j] = IF j = IdOf(q) THEN c
                                       ELSE IF s.cache[j] = c THEN Nowhere
                                       ELSE s.cache[j]
  BY <1>4, <1>5 DEF Without
<1> QED
  BY <1>1, <1>3, <1>6 DEF Becomes, t

LEMMA PlacingBecomes ==
  ASSUME NEW s, Good(s), NEW c \in Cells, NEW q \in Patch, Shaped(c, q)
  PROVE  Becomes(s, place_dense_patch_at(s, c, q), c, q)
<1>1. IdOf(q) = q.id
  BY PatchParts DEF IdOf
<1>2. place_dense_patch_at(s, c, q) = Rewritten(s, c, q)
  BY <1>1 DEF place_dense_patch_at, Rewritten
<1> QED
  BY <1>2, RewritingBecomes

LEMMA ClearingBecomes ==
  ASSUME NEW s, Good(s), NEW c \in Cells
  PROVE  Becomes(s, clear_patch_at(s, c), c, Free)
<1>1. clear_patch_at(s, c) = Rewritten(s, c, Free)
  BY DEF clear_patch_at, Rewritten, IdOf, Indexed
<1> QED
  BY <1>1, RewritingBecomes

LEMMA AssigningBecomes ==
  ASSUME NEW s, Good(s), NEW c \in Cells, ~IsFree(s, c), NEW i \in PatchIds \cup {NoId}
  PROVE  Becomes(s, assign_patch_id(s, c, i), c, [s.cells[c] EXCEPT !.id = i])
<1> DEFINE p == s.cells[c]
           q == [p EXCEPT !.id = i]
<1>1. p \in Patch /\ Shaped(c, p)
  BY CellContent
<1>2. q \in Patch /\ q.id = i /\ q.type = p.type /\ q.boundaries = p.boundaries
  BY <1>1, PatchChanges
<1>3. IdOf(q) = i
  BY <1>2, PatchParts DEF IdOf
<1>4. s.cells \in [Cells -> Patch \cup {Free}]
  BY SliceParts DEF Good
<1>5. assign_patch_id(s, c, i) = Rewritten(s, c, q)
  BY <1>3, <1>4 DEF assign_patch_id, Rewritten
<1>6. Shaped(c, q)
  BY <1>1, <1>2, SameShape
<1> HIDE DEF q
<1> QED
  BY <1>2, <1>5, <1>6, RewritingBecomes DEF q

\* A patch that keeps its id, and has none.
LEMMA TouchingBecomes ==
  ASSUME NEW s, Good(s), NEW c \in Cells, NEW q \in Patch, Shaped(c, q),
         Bears(s, c) = NoId, q.id = NoId
  PROVE  Becomes(s, Touched(s, c, q), c, q)
<1> DEFINE t == Touched(s, c, q)
<1>1. s.cells \in [Cells -> Patch \cup {Free}] /\ s = [cells |-> s.cells, cache |-> s.cache]
  BY SliceParts DEF Good
<1>2. Good(t) /\ t.cache = s.cache
  BY TouchedIsGood
<1>3. t.cells = [s.cells EXCEPT ![c] = q]
  BY <1>1 DEF Touched
<1>4. t.cells[c] = q /\ \A d \in Cells : d # c => t.cells[d] = s.cells[d]
  BY <1>1, <1>3
<1>5. \A j \in PatchIds : s.cache[j] # c /\ j # NoId
  BY CacheContent, OptionalsAssumption
<1>6. IdOf(q) = NoId
  BY PatchParts DEF IdOf
<1> HIDE DEF t
<1> QED
  BY <1>2, <1>4, <1>5, <1>6 DEF Becomes, t

\* One change after the other of a cell without an id.
LEMMA BecomesTwice ==
  ASSUME NEW s, NEW t, NEW u, NEW c \in Cells, NEW p, NEW q,
         Becomes(s, t, c, p), Becomes(t, u, c, q), IdOf(p) = NoId
  PROVE  Becomes(s, u, c, q)
<1>1. \A j \in PatchIds : j # NoId
  BY OptionalsAssumption
<1> QED
  BY <1>1 DEF Becomes
-----------------------------------------------------------------------------
(* The inductive invariant. *)

(***************************************************************************)
(* On reserved tiles, programs rotate what the compiler rotates: otherwise *)
(* the next state may be spawned over a rotation, which a run shows.       *)
(***************************************************************************)
RespawnIsSafe == ~magic_states_reserved \/ ~RotateAnything

(***************************************************************************)
(* Where twists are allowed, a Y state that was borrowed is measured; a    *)
(* later request would look for an idle one where there is none any more.  *)
(***************************************************************************)
YStatesStay == ~allow_twists \/ YStateCells = {}

Tiles == Elements(reserved_for_magic_states)

Region(r) == {r.cell, r.neighbour}

Rotations == [cell : Cells, neighbour : Cells, patch : Patch,
              steps_to_clear : 0 .. 2, due : BOOLEAN]

(***************************************************************************)
(* The cells of a rotation are its own, and it holds the patch of an id.   *)
(***************************************************************************)
InRotation(p) == p # Free /\ p.type = "Routing" /\ p.activity = "Rotation" /\ p.id = NoId

RegionsInv ==
  /\ busy \subseteq Rotations
  /\ \A r \in busy :
       /\ r.cell # r.neighbour
       /\ r.patch.type = "Qubit" /\ r.patch.id \in alive /\ ~Done(r.patch)
       /\ Shaped(r.cell, r.patch) /\ slice.cache[r.patch.id] = Nowhere
       /\ InRotation(slice.cells[r.cell]) /\ InRotation(slice.cells[r.neighbour])
  /\ \A r, q \in busy :
       r.patch.id = q.patch.id \/ Region(r) \cap Region(q) # {} => r = q

(***************************************************************************)
(* Only qubits have ids, and every id that is alive is on the lattice or   *)
(* rotates; what is there will not be cleared when the slice ends.         *)
(***************************************************************************)
IdsInv ==
  /\ \A c \in Cells :
       slice.cells[c] # Free /\ slice.cells[c].id # NoId => slice.cells[c].type = "Qubit"
  /\ alive \subseteq PatchIds /\ borrowed \subseteq alive
  /\ \A i \in alive :
       Rotating(i) \/ (slice.cache[i] \in Cells /\ ~Done(slice.cells[slice.cache[i]]))

Prepared(p) == p # Free /\ p.type = "PreparedState"

MagicInv ==
  /\ magic_states = {c \in Cells : Prepared(slice.cells[c])}
  /\ \A c \in magic_states : ~Done(slice.cells[c])

(***************************************************************************)
(* A Y state is there, idle, borrowed or under rotation.                   *)
(***************************************************************************)
Unborrowed(p) == p.type = "Qubit" /\ p.id = NoId

YStatesInv ==
  /\ \A c \in YStateCells :
       /\ slice.cells[c] # Free /\ ~Done(slice.cells[c])
       /\ slice.cells[c].type = "Qubit" \/ \E r \in busy : r.cell = c
       /\ slice.cells[c].id # NoId => /\ slice.cells[c].id \in borrowed
                                      /\ slice.cache[slice.cells[c].id] = c
  /\ \A r \in busy : r.neighbour \notin YStateCells
                     /\ (r.cell \in YStateCells => r.patch.id \in borrowed)
  /\ ~allow_twists =>
       /\ \A i \in borrowed : slice.cache[i] # Nowhere => slice.cache[i] \in YStateCells
       /\ \A r \in busy : r.patch.id \in borrowed => r.cell \in YStateCells
  /\ ystates_available = Cardinality({c \in YStateCells : Unborrowed(slice.cells[c])})

(***************************************************************************)
(* While instructions are applied no reserved tile is free, and the        *)
(* patches that the compiler rotates are elsewhere.                        *)
(***************************************************************************)
TilesInv ==
  magic_states_reserved =>
    /\ \A k \in Factories :
         slice.cells[reserved_for_magic_states[k]] = Free => turn \in 1 .. k
    /\ \A i \in DOMAIN CoreHome \cup borrowed : slice.cache[i] \notin Tiles
    /\ \A r \in busy : r.cell \notin Tiles /\ r.neighbour \notin Tiles

(***************************************************************************)
(* A timer has not run out while its factory works, unless its time is 0.  *)
(***************************************************************************)
Distilling(p) == p # Free /\ p.type = "Distillation"

TimersInv ==
  /\ turn \in 0 .. Len(distillation_times)
  /\ time_to_next \in [Factories -> 0 .. TimestepValues - 1]
  /\ \A k \in Factories : distillation_times[k] # 0 =>
       /\ time_to_next[k] <= distillation_times[k]
       /\ time_to_next[k] = 0 => magic_states_reserved
            /\ ~Distilling(slice.cells[reserved_for_magic_states[k]])

LatticeInv ==
  Good(slice) /\ RegionsInv /\ IdsInv /\ MagicInv /\ YStatesInv /\ TilesInv /\ TimersInv

-----------------------------------------------------------------------------
(* Work on patches, and on free cells. *)

\* The Y states are finitely many cells of the lattice.
LEMMA YStatesAreCells ==
  /\ YStateCells \subseteq Cells
  /\ IsFiniteSet(YStateCells)
  /\ YStateCells \cap (FactoryCells \cup DeadCells) = {}
  /\ Tiles \subseteq Cells /\ Tiles \subseteq FactoryCells /\ YStateCells \cap Tiles = {}
<1>1. YStateCells \subseteq Cells /\ YStateCells \cap (FactoryCells \cup DeadCells) = {}
  BY InstancesAssumption
<1>2. IsFiniteSet(0 .. furthest_cell[1]) /\ IsFiniteSet(0 .. furthest_cell[2])
  <2>1. 0 \in Int /\ furthest_cell[1] \in Int /\ furthest_cell[2] \in Int
    BY LayoutAssumption
  <2> QED
    BY <2>1, FS_Interval
<1>3. IsFiniteSet(Cells)
  BY <1>2, FS_Product DEF Cells
<1>4. Tiles \subseteq Cells /\ Tiles \subseteq FactoryCells
  BY InstancesAssumption DEF Tiles, Elements
<1> QED
  BY <1>1, <1>3, <1>4, FS_Subset

LEMMA WorkKeepsRegions ==
  ASSUME LatticeInv, Works(slice, slice'), UNCHANGED <<busy, alive>>
  PROVE  RegionsInv'
<1>1. \A r \in busy : r.cell \in Cells /\ r.neighbour \in Cells
  BY DEF LatticeInv, RegionsInv, Rotations
<1>2. \A c \in Cells : InRotation(slice.cells[c]) => InRotation(slice'.cells[c])
  BY DEF Works, WorkedOn, InRotation, IsFree
<1> QED
  BY <1>1, <1>2 DEF LatticeInv, RegionsInv, Works

LEMMA WorkKeepsIds ==
  ASSUME LatticeInv, Works(slice, slice'), UNCHANGED <<busy, alive, borrowed>>
  PROVE  IdsInv'
<1>1. \A c \in Cells : slice'.cells[c] # Free /\ slice'.cells[c].id # NoId
                          => slice'.cells[c].type = "Qubit"
  BY DEF LatticeInv, IdsInv, Works, WorkedOn, IsFree
<1>2. ASSUME NEW i \in alive
      PROVE  Rotating(i) \/ (slice'.cache[i] \in Cells /\ ~Done(slice'.cells[slice'.cache[i]]))
  <2>1. CASE Rotating(i)
    BY <2>1
  <2>2. CASE ~Rotating(i)
    <3>1. i \in PatchIds /\ slice.cache[i] \in Cells /\ ~Done(slice.cells[slice.cache[i]])
      BY <2>2 DEF LatticeInv, IdsInv
    <3>2. ~IsFree(slice, slice.cache[i])
      BY <3>1, CacheContent, OptionalsAssumption DEF LatticeInv
    <3> QED
      BY <3>1, <3>2 DEF Works, WorkedOn, Done
  <2> QED
    BY <2>1, <2>2
<1> QED
  BY <1>1, <1>2 DEF LatticeInv, IdsInv, Rotating

LEMMA WorkKeepsMagic ==
  ASSUME LatticeInv, Works(slice, slice'), UNCHANGED magic_states
  PROVE  MagicInv'
<1>1. \A c \in Cells : Prepared(slice.cells[c]) <=> Prepared(slice'.cells[c])
  BY DEF Works, WorkedOn, IsFree, Prepared
<1>2. \A c \in magic_states : ~Done(slice'.cells[c])
  BY DEF LatticeInv, MagicInv, Works, WorkedOn, IsFree, Prepared, Done
<1> QED
  BY <1>1, <1>2 DEF LatticeInv, MagicInv

LEMMA WorkKeepsYStates ==
  ASSUME LatticeInv, Works(slice, slice'), UNCHANGED <<ystates_available, busy, alive, borrowed>>
  PROVE  YStatesInv'
<1>1. YStateCells \subseteq Cells
  BY YStatesAreCells
<1>2. \A c \in YStateCells : WorkedOn(slice.cells[c], slice'.cells[c]) /\ slice'.cache = slice.cache
  BY <1>1 DEF LatticeInv, YStatesInv, Works, IsFree
<1>3. {c \in YStateCells : Unborrowed(slice.cells[c])}
        = {c \in YStateCells : Unborrowed(slice'.cells[c])}
  BY <1>2 DEF Unborrowed, WorkedOn
<1>4. \A c \in YStateCells : slice'.cells[c] # Free /\ ~Done(slice'.cells[c])
        /\ slice'.cells[c].type = slice.cells[c].type /\ slice'.cells[c].id = slice.cells[c].id
  BY <1>2 DEF LatticeInv, YStatesInv, WorkedOn, Done
<1>5. slice'.cache = slice.cache
  BY DEF Works
<1> QED
  BY <1>3, <1>4, <1>5 DEF LatticeInv, YStatesInv

LEMMA WorkKeepsTiles ==
  ASSUME LatticeInv, Works(slice, slice'), UNCHANGED <<busy, turn, borrowed, time_to_next>>
  PROVE  TilesInv' /\ TimersInv'
<1>1. magic_states_reserved => \A k \in Factories : reserved_for_magic_states[k] \in Cells
  BY YStatesAreCells, InstancesAssumption DEF Tiles, Elements
<1>2. \A c \in Cells : (slice'.cells[c] = Free => slice.cells[c] = Free)
                       /\ (Distilling(slice'.cells[c]) => Distilling(slice.cells[c]))
  BY DEF Works, WorkedOn, IsFree, Distilling
<1>3. slice'.cache = slice.cache
  BY DEF Works
<1>4. TilesInv'
  BY <1>1, <1>2, <1>3 DEF LatticeInv, TilesInv
<1>5. TimersInv'
  BY <1>1, <1>2 DEF LatticeInv, TimersInv
<1> QED
  BY <1>4, <1>5

\* An instruction that works on patches keeps the invariant.
LEMMA WorkKeepsLattice ==
  ASSUME LatticeInv, Works(slice, slice'), UNCHANGED <<stores, busy, turn, program>>
  PROVE  LatticeInv'
<1>1. UNCHANGED <<magic_states, time_to_next, ystates_available, alive, borrowed>>
  BY DEF stores, program
<1>2. Good(slice)'
  BY DEF Works
<1> QED
  BY <1>1, <1>2, WorkKeepsRegions, WorkKeepsIds, WorkKeepsMagic, WorkKeepsYStates, WorkKeepsTiles
     DEF LatticeInv
-----------------------------------------------------------------------------
(* The homes of the patches. *)

Homes == [i \in PatchIds |-> Home(i)]

PlacementStep == Placement!Next \/ (UNCHANGED Homes /\ UNCHANGED alive)

\* Where the patch of an id is, without a choice.
LEMMA HomeIs ==
  Good(slice) /\ RegionsInv /\ IdsInv =>
    \A i \in PatchIds :
      /\ i \notin alive => Home(i) = Nowhere
      /\ \A r \in busy : r.patch.id = i => Home(i) = r.cell
      /\ i \in alive /\ ~Rotating(i) => Home(i) = slice.cache[i]
      /\ i \in alive => Home(i) \in Cells
<1> SUFFICES ASSUME Good(slice), RegionsInv, IdsInv, NEW i \in PatchIds
             PROVE  /\ i \notin alive => Home(i) = Nowhere
                    /\ \A r \in busy : r.patch.id = i => Home(i) = r.cell
                    /\ i \in alive /\ ~Rotating(i) => Home(i) = slice.cache[i]
                    /\ i \in alive => Home(i) \in Cells
  OBVIOUS
<1>1. i \notin alive => Home(i) = Nowhere
  BY DEF Home
<1>2. ASSUME NEW r \in busy, r.patch.id = i
      PROVE  Home(i) = r.cell /\ Home(i) \in Cells
  <2>1. i \in alive /\ Rotating(i) /\ r.cell \in Cells
    BY <1>2 DEF RegionsInv, Rotating, Rotations
  <2>2. \A q \in busy : q.patch.id = i => q = r
    BY <1>2 DEF RegionsInv
  <2>3. (CHOOSE q \in busy : q.patch.id = i) = r
    BY <1>2, <2>2
  <2> QED
    BY <2>1, <2>3 DEF Home
<1>3. ASSUME i \in alive, ~Rotating(i)
      PROVE  Home(i) = slice.cache[i] /\ Home(i) \in Cells
  BY <1>3, CacheContent DEF Home, IdsInv
<1> QED
  BY <1>1, <1>2, <1>3 DEF Rotating

LEMMA NextHomeIs ==
  ASSUME LatticeInv'
  PROVE  \A i \in PatchIds :
           /\ i \notin alive' => Home(i)' = Nowhere
           /\ \A r \in busy' : r.patch.id = i => Home(i)' = r.cell
           /\ i \in alive' /\ ~Rotating(i)' => Home(i)' = slice'.cache[i]
           /\ i \in alive' => Home(i)' \in Cells
<1>1. (Good(slice) /\ RegionsInv /\ IdsInv =>
         \A i \in PatchIds :
           /\ i \notin alive => Home(i) = Nowhere
           /\ \A r \in busy : r.patch.id = i => Home(i) = r.cell
           /\ i \in alive /\ ~Rotating(i) => Home(i) = slice.cache[i]
           /\ i \in alive => Home(i) \in Cells)'
  BY HomeIs, PTL
<1> QED
  BY <1>1 DEF LatticeInv

\* An id is rotating, or at the cell that the cache has for it.
LEMMA HomesStay ==
  ASSUME LatticeInv, LatticeInv', UNCHANGED alive, 
         \A i \in alive : \/ Rotating(i) /\ \E r \in busy, q \in busy' :
                               r.patch.id = i /\ q.patch.id = i /\ q.cell = r.cell
                          \/ ~Rotating(i) /\ ~Rotating(i)' /\ slice'.cache[i] = slice.cache[i]
                          \/ ~Rotating(i) /\ \E q \in busy' :
                               q.patch.id = i /\ q.cell = slice.cache[i]
                          \/ ~Rotating(i)' /\ \E r \in busy :
                               r.patch.id = i /\ slice'.cache[i] = r.cell
  PROVE  PlacementStep
<1>1. alive \subseteq PatchIds
  BY DEF LatticeInv, IdsInv
<1>2. ASSUME NEW i \in PatchIds
      PROVE  Home(i)' = Home(i)
  <2>1. CASE i \notin alive
    BY <2>1, HomeIs, NextHomeIs DEF LatticeInv
  <2>2. CASE i \in alive
    BY <2>2, HomeIs, NextHomeIs DEF LatticeInv
  <2> QED
    BY <2>1, <2>2
<1>3. UNCHANGED Homes
  BY <1>2 DEF Homes
<1> QED
  BY <1>3 DEF PlacementStep

\* Work on patches leaves them where they are.
LEMMA WorkKeepsHomes ==
  ASSUME LatticeInv, LatticeInv', Works(slice, slice'),
         UNCHANGED <<stores, busy, turn, program>>
  PROVE  PlacementStep
<1>1. UNCHANGED <<busy, alive>> /\ slice'.cache = slice.cache
  BY DEF program, Works
<1> QED
  BY <1>1, HomesStay DEF Rotating

\* An id that the program gives up leaves its place.
LEMMA HomeIsLeft ==
  ASSUME LatticeInv, LatticeInv', NEW i \in alive, alive' = alive \ {i}, UNCHANGED busy,
         \A j \in alive : j # i => slice'.cache[j] = slice.cache[j]
  PROVE  PlacementStep
<1>1. alive \subseteq PatchIds
  BY DEF LatticeInv, IdsInv
<1>2. \A j \in PatchIds : j # i => Home(j)' = Home(j)
  <2> SUFFICES ASSUME NEW j \in PatchIds, j # i
               PROVE  Home(j)' = Home(j)
    OBVIOUS
  <2>1. CASE j \notin alive
    BY <2>1, HomeIs, NextHomeIs DEF LatticeInv
  <2>2. CASE j \in alive /\ Rotating(j)
    BY <2>2, HomeIs, NextHomeIs DEF LatticeInv, Rotating
  <2>3. CASE j \in alive /\ ~Rotating(j)
    BY <2>3, HomeIs, NextHomeIs DEF LatticeInv, Rotating
  <2> QED
    BY <2>1, <2>2, <2>3
<1>3. Home(i)' = Nowhere
  BY <1>1, NextHomeIs
<1>4. Homes' = [Homes EXCEPT ![i] = Nowhere]
  BY <1>1, <1>2, <1>3 DEF Homes
<1>5. Placement!Leave(i)
  BY <1>4 DEF Placement!Leave, Homes
<1> QED
  BY <1>1, <1>5 DEF PlacementStep, Placement!Next

\* An id that comes to life takes a place that nobody has.
LEMMA HomeIsTaken ==
  ASSUME LatticeInv, LatticeInv', NEW i \in PatchIds, i \notin alive, alive' = alive \cup {i},
         UNCHANGED busy, NEW c \in Cells, slice'.cache[i] = c, ~Rotating(i),
         ~InRotation(slice.cells[c]), slice.cells[c] = Free \/ slice.cells[c].id = NoId,
         \A j \in alive : slice'.cache[j] = slice.cache[j]
  PROVE  PlacementStep
<1>1. \A j \in PatchIds : j # i => Home(j)' = Home(j)
  <2> SUFFICES ASSUME NEW j \in PatchIds, j # i
               PROVE  Home(j)' = Home(j)
    OBVIOUS
  <2>1. CASE j \notin alive
    BY <2>1, HomeIs, NextHomeIs DEF LatticeInv
  <2>2. CASE j \in alive /\ Rotating(j)
    BY <2>2, HomeIs, NextHomeIs DEF LatticeInv, Rotating
  <2>3. CASE j \in alive /\ ~Rotating(j)
    BY <2>3, HomeIs, NextHomeIs DEF LatticeInv, Rotating
  <2> QED
    BY <2>1, <2>2, <2>3
<1>2. Home(i)' = c
  BY NextHomeIs DEF Rotating
<1>3. \A j \in PatchIds : Home(j) # c
  <2> SUFFICES ASSUME NEW j \in PatchIds, Home(j) = c
               PROVE  FALSE
    OBVIOUS
  <2>1. j \in alive
    BY HomeIs, OptionalsAssumption DEF LatticeInv
  <2>2. ~Rotating(j)
    BY HomeIs DEF LatticeInv, RegionsInv, Rotating
  <2>3. slice.cache[j] = c
    BY <2>1, <2>2, HomeIs DEF LatticeInv
  <2>4. ~IsFree(slice, c) /\ slice.cells[c].id = j
    BY <2>3, CacheContent, OptionalsAssumption DEF LatticeInv
  <2> QED
    BY <2>4, OptionalsAssumption DEF IsFree
<1>4. Homes' = [Homes EXCEPT ![i] = c]
  BY <1>1, <1>2 DEF Homes
<1>5. Placement!Settle(i, c)
  BY <1>3, <1>4 DEF Placement!Settle, Homes
<1> QED
  BY <1>5 DEF PlacementStep, Placement!Next
-----------------------------------------------------------------------------
(* Gates and measurements. *)

\* What is known of a patch that an instruction finds.
LEMMA FoundPatch ==
  ASSUME LatticeInv, NEW i \in PatchIds, OnLattice(i), NEW c, c = get_cell_by_id(slice, i)
  PROVE  /\ c \in Cells /\ slice.cache[i] = c /\ ~IsFree(slice, c)
         /\ slice.cells[c] \in Patch /\ Shaped(c, slice.cells[c])
         /\ slice.cells[c].id = i /\ slice.cells[c].id # NoId
         /\ slice.cells[c].type = "Qubit"
<1>1. get_cell_by_id(slice, i) # Nowhere
  BY DEF OnLattice
<1>2. Good(slice)
  BY DEF LatticeInv
<1>3. c \in Cells /\ slice.cache[i] = c /\ ~IsFree(slice, c) /\ slice.cells[c].id = i
  BY <1>1, <1>2, CacheContent
<1>4. slice.cells[c] \in Patch /\ Shaped(c, slice.cells[c])
  BY <1>2, <1>3, CellContent
<1> QED
  BY <1>2, <1>3, <1>4, OptionalsAssumption DEF LatticeInv, IdsInv, IsFree

\* A patch that is ready is on the lattice.
LEMMA ReadyIsFound ==
  ASSUME LatticeInv, NEW i \in PatchIds, Ready(i)
  PROVE  OnLattice(i) /\ get_cell_by_id(slice, i) \in Cells /\ ~Done(On(slice, i))
<1>1. i \in alive /\ ~Rotating(i)
  BY DEF Ready
<1>2. slice.cache[i] \in Cells /\ ~Done(slice.cells[slice.cache[i]])
  BY <1>1 DEF LatticeInv, IdsInv
<1>3. get_cell_by_id(slice, i) = slice.cache[i]
  BY CacheContent DEF LatticeInv
<1> QED
  BY <1>2, <1>3, OptionalsAssumption DEF OnLattice, On

LEMMA MergingSteps ==
  ASSUME LatticeInv, NEW i \in PatchIds, NEW j \in PatchIds, OnLattice(i), OnLattice(j),
         NEW op1, NEW op2, merge_patches(i, op1, j, op2),
         UNCHANGED <<stores, busy, turn, program>>
  PROVE  LatticeInv' /\ PlacementStep
<1> DEFINE a == get_cell_by_id(slice, i)
           b == get_cell_by_id(slice, j)
<1>1. PICK route \in find_routing_ancilla(slice, a, op1, b, op2) :
        slice' = Merged(slice, a, b, route)
  BY DEF merge_patches
<1>2. /\ a \in Cells /\ b \in Cells /\ ~IsFree(slice, a) /\ ~IsFree(slice, b)
      /\ Good(slice)
  BY FoundPatch DEF LatticeInv
<1> HIDE DEF a, b
<1>3. Works(slice, slice')
  BY <1>1, <1>2, MergingWorks
<1> QED
  BY <1>3, WorkKeepsLattice, WorkKeepsHomes

LEMMA SGateSteps ==
  ASSUME LatticeInv, NEW i \in PatchIds, SGate(i)
  PROVE  LatticeInv' /\ PlacementStep
BY MergingSteps DEF SGate

LEMMA MeasureMultiPatchSteps ==
  ASSUME LatticeInv, NEW i \in PatchIds, NEW j \in PatchIds, NEW op1, NEW op2,
         MeasureMultiPatch(i, op1, j, op2)
  PROVE  LatticeInv' /\ PlacementStep
BY MergingSteps DEF MeasureMultiPatch

LEMMA HadamardSteps ==
  ASSUME LatticeInv, NEW i \in PatchIds, Hadamard(i)
  PROVE  LatticeInv' /\ PlacementStep
<1> DEFINE c == get_cell_by_id(slice, i)
           p == slice.cells[c]
           q1 == [p EXCEPT !.activity = "Unitary"]
           t == set_patch_activity(slice, c, "Unitary")
           q2 == [q1 EXCEPT !.boundaries = instant_rotate(q1.boundaries)]
<1>1. /\ c \in Cells /\ ~IsFree(slice, c) /\ p \in Patch /\ Shaped(c, p) /\ p.id # NoId
      /\ Good(slice)
  BY FoundPatch DEF Hadamard, LatticeInv
<1>2. "Unitary" \in PatchActivities
  BY DEF PatchActivities
<1>3. q1 \in Patch /\ q1.activity = "Unitary" /\ q1.type = p.type /\ q1.id = p.id
      /\ q1.boundaries = p.boundaries
  BY <1>1, <1>2, PatchChanges
<1>4. t = Touched(slice, c, q1)
  BY DEF set_patch_activity, Touched
<1>5. Shaped(c, q1)
  BY <1>1, <1>3, SameShape
<1>6. WorkedOn(p, q1)
  BY <1>1, <1>3, OptionalsAssumption DEF WorkedOn, Done
<1>7. Works(slice, t)
  BY <1>1, <1>3, <1>4, <1>5, <1>6, TouchingWorks
<1>8. t.cells[c] = q1
  <2>1. slice.cells \in [Cells -> Patch \cup {Free}] /\ slice = [cells |-> slice.cells, cache |-> slice.cache]
    BY <1>1, SliceParts DEF Good
  <2> QED
    BY <1>1, <1>4, <2>1 DEF Touched
<1>9. Good(t) /\ ~IsFree(t, c)
  BY <1>1, <1>7 DEF Works, WorkedOn, IsFree
<1>10. slice' = rotate_patch_boundaries(t, c)
  BY DEF Hadamard
<1> HIDE DEF t
<1>11. slice' = Touched(t, c, q2)
  BY <1>8, <1>10 DEF rotate_patch_boundaries, Touched
<1>12. instant_rotate(q1.boundaries) \in CellBoundaries
  BY <1>3, PatchParts, RotatedSides
<1>13. q2 \in Patch /\ q2.type = q1.type /\ q2.id = q1.id /\ q2.activity = q1.activity
       /\ q2.boundaries = instant_rotate(q1.boundaries)
  BY <1>3, <1>12, PatchChanges
<1> HIDE DEF q1, q2, p
<1>14. Shaped(c, q2)
  BY <1>3, <1>5, <1>13, PatchParts, RotatedSides DEF Shaped
<1>15. WorkedOn(t.cells[c], q2)
  BY <1>3, <1>8, <1>13, OptionalsAssumption DEF WorkedOn
<1>16. Works(t, slice')
  BY <1>1, <1>9, <1>11, <1>13, <1>14, <1>15, TouchingWorks
<1>17. Works(slice, slice')
  BY <1>7, <1>16, WorksTwice
<1>18. UNCHANGED <<stores, busy, turn, program>>
  BY DEF Hadamard
<1> QED
  BY <1>17, <1>18, WorkKeepsLattice, WorkKeepsHomes

(***************************************************************************)
(* A patch that is measured is given up, and cleared when the slice ends.  *)
(***************************************************************************)
LEMMA MeasureSinglePatchSteps ==
  ASSUME LatticeInv, YStatesStay, NEW i \in PatchIds, MeasureSinglePatch(i)
  PROVE  LatticeInv' /\ PlacementStep
<1> DEFINE c == get_cell_by_id(slice, i)
           p == slice.cells[c]
           q == [p EXCEPT !.activity = "Measurement"]
<1>1. /\ c \in Cells /\ ~IsFree(slice, c) /\ p \in Patch /\ Shaped(c, p) /\ p.id # NoId
      /\ p.id = i /\ p.type = "Qubit" /\ slice.cache[i] = c
  BY FoundPatch DEF MeasureSinglePatch
<1>2. q \in Patch /\ q.type = p.type /\ q.id = p.id /\ q.boundaries = p.boundaries
  <2>1. "Measurement" \in PatchActivities
    BY DEF PatchActivities
  <2> QED
    BY <1>1, <2>1, PatchChanges
<1>3. /\ slice' = Touched(slice, c, q) /\ i \in alive /\ ~Rotating(i)
      /\ alive' = alive \ {i} /\ borrowed' = borrowed \ {i} /\ turn = 0
      /\ MayMeasure(i)
      /\ UNCHANGED <<magic_states, time_to_next, ystates_available, busy, turn>>
  BY DEF MeasureSinglePatch, set_patch_activity, Touched, Ready, stores
<1>4. Good(slice) /\ Bears(slice, c) = i
  BY <1>1, CellContent DEF LatticeInv
<1>5. Shaped(c, q)
  BY <1>1, <1>2, SameShape
<1> HIDE DEF q
<1>6. Good(slice') /\ slice'.cache = slice.cache
  BY <1>1, <1>2, <1>3, <1>4, <1>5, TouchedIsGood
<1>7. slice'.cells[c] = q /\ \A d \in Cells : d # c => slice'.cells[d] = slice.cells[d]
  <2>1. slice.cells \in [Cells -> Patch \cup {Free}] /\ slice = [cells |-> slice.cells, cache |-> slice.cache]
    BY <1>4, SliceParts DEF Good
  <2>2. slice'.cells = [slice.cells EXCEPT ![c] = q]
    BY <1>3, <2>1 DEF Touched
  <2> QED
    BY <1>1, <2>1, <2>2
<1>8. q # Free /\ p # Free
  BY <1>1, <1>2, PatchParts
<1> HIDE DEF c, p
<1> USE DEF LatticeInv
<1>9. RegionsInv'
  <2>1. \A r \in busy : r.cell \in Cells /\ r.neighbour \in Cells
                        /\ r.patch.id # i /\ r.cell # c /\ r.neighbour # c
    BY <1>1, <1>3 DEF RegionsInv, Rotations, InRotation, Rotating, p
  <2> QED
    BY <1>3, <1>6, <1>7, <2>1 DEF RegionsInv
<1>10. IdsInv'
  <2>1. \A j \in alive \ {i} : j \in PatchIds /\ slice.cache[j] # c
    BY <1>1, <1>4, CacheContent, OptionalsAssumption DEF IdsInv, p
  <2> QED
    BY <1>1, <1>2, <1>3, <1>6, <1>7, <1>8, <2>1 DEF IdsInv, Rotating, p
<1>11. MagicInv'
  BY <1>1, <1>2, <1>3, <1>7, <1>8 DEF MagicInv, Prepared, p
<1>12. c \notin YStateCells
  <2>1. CASE YStateCells = {}
    BY <2>1
  <2>2. CASE ~allow_twists
    BY <1>1, <1>3, <2>2 DEF YStatesInv, MayMeasure, p
  <2> QED
    BY <2>1, <2>2 DEF YStatesStay
<1>13. YStatesInv'
  <2>1. YStateCells \subseteq Cells
    BY YStatesAreCells
  <2>2. \A d \in YStateCells : slice'.cells[d] = slice.cells[d]
    BY <1>7, <1>12, <2>1
  <2>3. {d \in YStateCells : Unborrowed(slice.cells[d])}
          = {d \in YStateCells : Unborrowed(slice'.cells[d])}
    BY <2>2
  <2>4. ~allow_twists => borrowed' = borrowed
    BY <1>3 DEF MayMeasure
  <2>5. allow_twists => YStateCells = {}
    BY DEF YStatesStay
  <2> QED
    BY <1>3, <1>6, <2>2, <2>3, <2>4, <2>5 DEF YStatesInv
<1>14. TilesInv'
  <2>1. magic_states_reserved => \A k \in Factories : reserved_for_magic_states[k] \in Cells
    BY YStatesAreCells, InstancesAssumption DEF Tiles, Elements
  <2> QED
    BY <1>3, <1>6, <1>7, <1>8, <2>1 DEF TilesInv, p
<1>15. TimersInv'
  <2>1. magic_states_reserved => \A k \in Factories : reserved_for_magic_states[k] \in Cells
    BY YStatesAreCells, InstancesAssumption DEF Tiles, Elements
  <2>2. \A d \in Cells : Distilling(slice'.cells[d]) => Distilling(slice.cells[d])
    BY <1>1, <1>2, <1>7 DEF Distilling
  <2> QED
    BY <1>3, <2>1, <2>2 DEF TimersInv
<1>16. Good(slice)'
  BY <1>6
<1>17. LatticeInv'
  BY <1>9, <1>10, <1>11, <1>13, <1>14, <1>15, <1>16
<1> QED
  BY <1>3, <1>6, <1>17, HomeIsLeft
-----------------------------------------------------------------------------
(* A patch comes to life. *)

(***************************************************************************)
(* Id i is given to a patch at c, which was free or had a patch without an *)
(* id: a magic state, which is then taken from the books, or a Y state,    *)
(* which is then counted as borrowed.                                      *)
(***************************************************************************)
Settles(i, c, q) ==
  /\ turn = 0 /\ i \notin alive /\ i \notin DOMAIN CoreHome
  /\ q \in Patch /\ q.type = "Qubit" /\ q.id = i /\ ~Done(q)
  /\ slice.cells[c] = Free \/ (slice.cells[c].id = NoId /\ slice.cells[c].type # "Routing")
  /\ Becomes(slice, slice', c, q)
  /\ alive' = alive \cup {i} /\ magic_states' = magic_states \ {c}
  /\ borrowed \subseteq borrowed' /\ borrowed' \subseteq borrowed \cup {i}
  /\ UNCHANGED <<busy, turn, time_to_next>>
  /\ i \in borrowed' /\ magic_states_reserved => c \notin Tiles
  /\ \/ /\ c \notin YStateCells /\ ystates_available' = ystates_available
        /\ i \in borrowed' => allow_twists
     \/ /\ c \in YStateCells /\ i \in borrowed' /\ Unborrowed(slice.cells[c])
        /\ ystates_available' = ystates_available - 1

LEMMA SettlingSteps ==
  ASSUME LatticeInv, YStatesStay, NEW i \in PatchIds, NEW c \in Cells, NEW q, Settles(i, c, q)
  PROVE  LatticeInv' /\ PlacementStep
<1> USE DEF LatticeInv
<1>1. /\ q # Free /\ IdOf(q) = i /\ i # NoId
  BY PatchParts, OptionalsAssumption DEF Settles, IdOf
<1>2. \A j \in PatchIds : slice.cache[j] # c
  BY CacheContent, OptionalsAssumption DEF Settles, IsFree
<1>3. /\ slice'.cells[c] = q
      /\ \A d \in Cells : d # c => slice'.cells[d] = slice.cells[d]
      /\ Good(slice')
      /\ slice'.cache[i] = c
      /\ \A j \in PatchIds : j # i => slice'.cache[j] = slice.cache[j]
  BY <1>1, <1>2 DEF Settles, Becomes
<1>4. ~Rotating(i)
  BY DEF Settles, Rotating, RegionsInv
<1>5. ~InRotation(slice.cells[c])
  BY DEF Settles, InRotation
<1>6. /\ turn = 0 /\ i \notin alive /\ i \notin DOMAIN CoreHome
      /\ q.type = "Qubit" /\ q.id = i /\ ~Done(q)
      /\ slice.cells[c] = Free \/ (slice.cells[c].id = NoId /\ slice.cells[c].type # "Routing")
      /\ alive' = alive \cup {i} /\ magic_states' = magic_states \ {c}
      /\ borrowed \subseteq borrowed' /\ borrowed' \subseteq borrowed \cup {i}
      /\ UNCHANGED <<busy, turn, time_to_next>>
  BY DEF Settles
<1>7. RegionsInv'
  <2>1. \A r \in busy : r.cell \in Cells /\ r.neighbour \in Cells
                        /\ r.cell # c /\ r.neighbour # c
    BY <1>5 DEF RegionsInv, Rotations
  <2> QED
    BY <1>3, <1>4, <1>6, <2>1 DEF RegionsInv, IdsInv, Rotating
<1>8. IdsInv'
  <2>1. \A j \in alive : j \in PatchIds /\ j # i /\ slice.cache[j] # c
    BY <1>2, <1>6 DEF IdsInv
  <2>2. \A d \in Cells : slice'.cells[d] # Free /\ slice'.cells[d].id # NoId
                           => slice'.cells[d].type = "Qubit"
    BY <1>3, <1>6 DEF IdsInv
  <2>3. \A j \in alive' :
          Rotating(j)' \/ (slice'.cache[j] \in Cells /\ ~Done(slice'.cells[slice'.cache[j]]))
    BY <1>3, <1>6, <2>1 DEF IdsInv, Rotating
  <2> QED
    BY <1>6, <2>2, <2>3 DEF IdsInv
<1>9. MagicInv'
  <2>1. ~Prepared(slice'.cells[c])
    BY <1>3, <1>6 DEF Prepared
  <2> QED
    BY <1>3, <1>6, <2>1 DEF MagicInv
<1>10. YStatesInv'
  <2> DEFINE S == {d \in YStateCells : Unborrowed(slice.cells[d])}
             T == {d \in YStateCells : Unborrowed(slice'.cells[d])}
  <2>1. YStateCells \subseteq Cells /\ IsFiniteSet(YStateCells) /\ IsFiniteSet(S)
    BY YStatesAreCells, FS_Subset
  <2>2. T = S \ {c}
    BY <1>1, <1>3, <1>6, <2>1 DEF Unborrowed
  <2>3. ystates_available' = Cardinality(T)
    <3>1. CASE c \notin YStateCells /\ ystates_available' = ystates_available
      <4>1. T = S
        BY <2>2, <3>1
      <4> QED
        BY <3>1, <4>1 DEF YStatesInv
    <3>2. CASE c \in YStateCells /\ Unborrowed(slice.cells[c])
               /\ ystates_available' = ystates_available - 1
      <4>1. c \in S /\ ystates_available = Cardinality(S)
        BY <3>2 DEF YStatesInv
      <4> HIDE DEF S, T
      <4>2. Cardinality(T) = Cardinality(S) - 1
        BY <2>1, <2>2, <4>1, FS_RemoveElement
      <4> QED
        BY <3>2, <4>1, <4>2
    <3> QED
      BY <3>1, <3>2 DEF Settles
  <2>4. \A d \in YStateCells :
          /\ slice'.cells[d] # Free /\ ~Done(slice'.cells[d])
          /\ slice'.cells[d].type = "Qubit" \/ \E r \in busy' : r.cell = d
          /\ slice'.cells[d].id # NoId =>
               /\ slice'.cells[d].id \in borrowed'
               /\ slice'.cache[slice'.cells[d].id] = d
    <3> SUFFICES ASSUME NEW d \in YStateCells
                 PROVE  /\ slice'.cells[d] # Free /\ ~Done(slice'.cells[d])
                        /\ slice'.cells[d].type = "Qubit" \/ \E r \in busy' : r.cell = d
                        /\ slice'.cells[d].id # NoId =>
                             /\ slice'.cells[d].id \in borrowed'
                             /\ slice'.cache[slice'.cells[d].id] = d
      OBVIOUS
    <3>1. CASE d = c
      BY <1>1, <1>3, <1>6, <3>1 DEF Settles
    <3>2. CASE d # c
      BY <1>3, <1>6, <2>1, <3>2 DEF YStatesInv, IdsInv
    <3> QED
      BY <3>1, <3>2
  <2>5. \A r \in busy' : r.neighbour \notin YStateCells
                         /\ (r.cell \in YStateCells => r.patch.id \in borrowed')
    BY <1>6 DEF YStatesInv
  <2>6. ASSUME ~allow_twists
        PROVE  /\ \A j \in borrowed' : slice'.cache[j] # Nowhere => slice'.cache[j] \in YStateCells
               /\ \A r \in busy' : r.patch.id \in borrowed' => r.cell \in YStateCells
    <3>1. i \in borrowed' => c \in YStateCells
      BY <2>6 DEF Settles
    <3>2. \A j \in borrowed : j \in PatchIds /\ j # i
      BY <1>6 DEF IdsInv
    <3>3. \A r \in busy : r.patch.id # i
      BY <1>4 DEF Rotating
    <3> QED
      BY <1>3, <1>6, <2>6, <3>1, <3>2, <3>3 DEF YStatesInv
  <2> HIDE DEF S, T
  <2> QED
    BY <2>3, <2>4, <2>5, <2>6 DEF YStatesInv, T
<1>11. magic_states_reserved => \A k \in Factories : reserved_for_magic_states[k] \in Cells
  BY YStatesAreCells, InstancesAssumption DEF Tiles, Elements
<1>12. TilesInv'
  <2>1. \A j \in DOMAIN CoreHome \cup borrowed : j \in PatchIds /\ j # i
    BY <1>6, LayoutAssumption DEF IdsInv
  <2>2. i \in borrowed' /\ magic_states_reserved => c \notin Tiles
    BY DEF Settles
  <2>3. ASSUME magic_states_reserved
        PROVE  \A j \in DOMAIN CoreHome \cup borrowed' : slice'.cache[j] \notin Tiles
    <3> SUFFICES ASSUME NEW j \in DOMAIN CoreHome \cup borrowed'
                 PROVE  slice'.cache[j] \notin Tiles
      OBVIOUS
    <3>1. CASE j = i
      BY <1>3, <1>6, <2>2, <2>3, <3>1
    <3>2. CASE j # i
      BY <1>3, <1>6, <2>1, <2>3, <3>2 DEF TilesInv
    <3> QED
      BY <3>1, <3>2
  <2> QED
    BY <1>1, <1>3, <1>6, <1>11, <2>3 DEF TilesInv
<1>13. TimersInv'
  <2>1. \A d \in Cells : Distilling(slice'.cells[d]) => Distilling(slice.cells[d])
    BY <1>3, <1>6 DEF Distilling
  <2> QED
    BY <1>6, <1>11, <2>1 DEF TimersInv
<1>14. Good(slice)'
  BY <1>3
<1>15. LatticeInv'
  BY <1>7, <1>8, <1>9, <1>10, <1>12, <1>13, <1>14
<1>16. \A j \in alive : slice'.cache[j] = slice.cache[j]
  BY <1>3, <1>6 DEF IdsInv
<1>17. UNCHANGED busy
  BY <1>6
<1>18. PlacementStep
  BY <1>3, <1>4, <1>5, <1>6, <1>15, <1>16, <1>17, HomeIsTaken
<1> QED
  BY <1>15, <1>18
\* A new patch with the sides of a logical qubit.
LEMMA BasicSquarePatch ==
  ASSUME NEW i \in PatchIds \cup {NoId}, NEW c \in Cells
  PROVE  /\ basic_square_patch(i) \in Patch
         /\ basic_square_patch(i).type = "Qubit" /\ basic_square_patch(i).id = i
         /\ basic_square_patch(i).activity = "None"
         /\ Square(basic_square_patch(i).boundaries)
         /\ Shaped(c, basic_square_patch(i))
<1>1. boundary("Smooth") \in Boundary /\ boundary("Rough") \in Boundary
  BY DEF boundary, Boundary, BoundaryTypes
<1> QED
  BY <1>1 DEF basic_square_patch, basic_square_look, Named, Patch, PatchTypes,
              PatchActivities, CellBoundaries, Square, Shaped

\* What is free is nobody's, and no Y state; nor is it a reserved tile.
LEMMA FreeCell ==
  ASSUME LatticeInv, NEW c \in Cells, IsFree(slice, c)
  PROVE  /\ slice.cells[c] = Free /\ c \notin YStateCells /\ c \notin magic_states
         /\ turn = 0 /\ magic_states_reserved => c \notin Tiles
<1>1. c \notin YStateCells /\ c \notin magic_states /\ slice.cells[c] = Free
  BY DEF LatticeInv, YStatesInv, MagicInv, Prepared, IsFree
<1>2. ASSUME turn = 0, magic_states_reserved, c \in Tiles
      PROVE  FALSE
  <2>1. PICK k \in Factories : reserved_for_magic_states[k] = c
    BY <1>2, InstancesAssumption DEF Tiles, Elements
  <2>2. Factories \subseteq Nat /\ turn \in 1 .. k
    BY <1>1, <1>2, <2>1, InstancesAssumption DEF LatticeInv, TilesInv, Factories
  <2> QED
    BY <1>2, <2>1, <2>2
<1> QED
  BY <1>1, <1>2

LEMMA InitAtSteps ==
  ASSUME LatticeInv, YStatesStay, NEW i \in PatchIds, NEW c \in Cells,
         Fresh(i), IsFree(slice, c), InitAt(i, c)
  PROVE  LatticeInv' /\ PlacementStep
<1> DEFINE p == basic_square_patch(NoId)
           t == place_dense_patch_at(slice, c, p)
           q == [p EXCEPT !.id = i]
<1>1. /\ p \in Patch /\ p.type = "Qubit" /\ p.id = NoId /\ p.activity = "None" /\ Shaped(c, p)
      /\ Good(slice)
  BY BasicSquarePatch DEF LatticeInv
<1> HIDE DEF p
<1>2. Becomes(slice, t, c, p) /\ IdOf(p) = NoId
  BY <1>1, PlacingBecomes DEF IdOf
<1>3. Good(t) /\ t.cells[c] = p /\ ~IsFree(t, c)
  BY <1>1, <1>2, PatchParts DEF Becomes, IsFree
<1>4. slice' = assign_patch_id(t, c, i)
  BY DEF InitAt, p
<1> HIDE DEF t
<1>5. Becomes(t, slice', c, q)
  BY <1>3, <1>4, AssigningBecomes
<1>6. q \in Patch /\ q.type = "Qubit" /\ q.id = i /\ ~Done(q)
  BY <1>1, PatchChanges DEF Done
<1> HIDE DEF q
<1>7. Becomes(slice, slice', c, q)
  BY <1>2, <1>5, BecomesTwice
<1>8. /\ slice.cells[c] = Free /\ c \notin YStateCells /\ c \notin magic_states
      /\ i \notin borrowed
  BY FreeCell DEF Fresh, LatticeInv, IdsInv
<1>9. Settles(i, c, q)
  BY <1>6, <1>7, <1>8 DEF Settles, Fresh, InitAt, stores
<1> QED
  BY <1>9, SettlingSteps

LEMMA PatchInitSteps ==
  ASSUME LatticeInv, YStatesStay, NEW i \in PatchIds, PatchInit(i)
  PROVE  LatticeInv' /\ PlacementStep
<1> DEFINE free == {k \in DOMAIN ancilla_location : IsFree(slice, ancilla_location[k])}
<1>1. free # {} /\ InitAt(i, ancilla_location[Min(free)]) /\ Fresh(i)
  BY DEF PatchInit
<1>2. ancilla_location \in Seq(Cells)
  BY InstancesAssumption
<1>3. free \subseteq Nat
  BY <1>2
<1>4. Min(free) \in free
  BY <1>1, <1>3, MinIsIn
<1>5. ancilla_location[Min(free)] \in Cells /\ IsFree(slice, ancilla_location[Min(free)])
  BY <1>2, <1>4
<1> QED
  BY <1>1, <1>5, InitAtSteps

LEMMA PatchInitNextToSteps ==
  ASSUME LatticeInv, YStatesStay, NEW i \in PatchIds, NEW near \in PatchIds, NEW op,
         PatchInitNextTo(i, near, op)
  PROVE  LatticeInv' /\ PlacementStep
<1> DEFINE c == get_cell_by_id(slice, near)
           sides == FreeSides(slice, c) \cap SidesOfType(slice.cells[c], boundary_for_operator(op))
<1>1. sides # {} /\ InitAt(i, Beyond(c, FirstSide(sides))) /\ Fresh(i)
  BY DEF PatchInitNextTo
<1>2. sides \subseteq Directions
  BY DEF FreeSides
<1>3. FirstSide(sides) \in sides
  BY <1>1, <1>2, FirstSideIsIn
<1>4. Beyond(c, FirstSide(sides)) \in Cells /\ IsFree(slice, Beyond(c, FirstSide(sides)))
  BY <1>3 DEF FreeSides
<1> QED
  BY <1>1, <1>4, InitAtSteps

\* The patch of the cell that a magic state request looks at.
LEMMA RequestingBecomes ==
  ASSUME NEW s, Good(s), NEW c \in Cells, ~IsFree(s, c), s.cells[c].id = NoId,
         s.cells[c].type # "Routing", NEW i \in PatchIds
  PROVE  \E q \in Patch : /\ q.type = "Qubit" /\ q.id = i /\ q.activity = "None"
                          /\ q.boundaries = s.cells[c].boundaries
                          /\ Becomes(s, Requested(s, c, i), c, q)
<1> DEFINE p == s.cells[c]
           p1 == [p EXCEPT !.type = "Qubit"]
           t1 == set_patch_type(s, c, "Qubit")
           p2 == [p1 EXCEPT !.activity = "None"]
           t2 == set_patch_activity(t1, c, "None")
           q == [p2 EXCEPT !.id = i]
<1>1. p \in Patch /\ Shaped(c, p) /\ Bears(s, c) = NoId
  BY CellContent
<1>2. p1 \in Patch /\ p1.type = "Qubit" /\ p1.id = NoId /\ p1.boundaries = p.boundaries
  BY <1>1, PatchChanges DEF PatchTypes
<1>3. Shaped(c, p1)
  BY <1>1, <1>2 DEF Shaped
<1>4. t1 = Touched(s, c, p1)
  BY DEF set_patch_type, Touched
<1>5. Becomes(s, t1, c, p1) /\ IdOf(p1) = NoId
  BY <1>1, <1>2, <1>3, <1>4, TouchingBecomes DEF IdOf
<1>6. Good(t1) /\ t1.cells[c] = p1 /\ Bears(t1, c) = NoId
  BY <1>2, <1>5 DEF Becomes, Bears, IsFree
<1> HIDE DEF t1, p1
<1>7. p2 \in Patch /\ p2.type = "Qubit" /\ p2.id = NoId /\ p2.activity = "None"
      /\ p2.boundaries = p1.boundaries
  <2>1. "None" \in PatchActivities
    BY DEF PatchActivities
  <2> QED
    BY <1>2, <2>1, PatchChanges
<1>8. Shaped(c, p2)
  BY <1>2, <1>3, <1>7 DEF Shaped
<1>9. t2 = Touched(t1, c, p2)
  BY <1>6 DEF set_patch_activity, Touched
<1>10. Becomes(t1, t2, c, p2) /\ IdOf(p2) = NoId
  BY <1>6, <1>7, <1>8, <1>9, TouchingBecomes DEF IdOf
<1>11. Good(t2) /\ t2.cells[c] = p2 /\ ~IsFree(t2, c)
  BY <1>7, <1>10, PatchParts DEF Becomes, IsFree
<1>12. Requested(s, c, i) = assign_patch_id(t2, c, i)
  BY DEF Requested, t1
<1> HIDE DEF t2, p2
<1>13. q \in Patch /\ q.type = "Qubit" /\ q.id = i /\ q.activity = "None"
       /\ q.boundaries = p.boundaries
  BY <1>2, <1>7, PatchChanges
<1>14. Becomes(t2, assign_patch_id(t2, c, i), c, q)
  BY <1>11, AssigningBecomes
<1> HIDE DEF q
<1>15. Becomes(s, t2, c, p2)
  BY <1>5, <1>10, BecomesTwice
<1>16. Becomes(s, Requested(s, c, i), c, q)
  BY <1>10, <1>12, <1>14, <1>15, BecomesTwice
<1> QED
  BY <1>13, <1>16

LEMMA RequestMagicStateSteps ==
  ASSUME LatticeInv, YStatesStay, NEW i \in PatchIds, NEW near \in PatchIds,
         RequestMagicState(i, near)
  PROVE  LatticeInv' /\ PlacementStep
<1> DEFINE c == Closest(get_cell_by_id(slice, near), magic_states)
<1>1. /\ Fresh(i) /\ magic_states # {} /\ slice' = Requested(slice, c, i)
      /\ magic_states' = magic_states \ {c} /\ alive' = alive \cup {i}
      /\ UNCHANGED <<time_to_next, ystates_available, busy, turn, borrowed>>
      /\ Ready(near)
  BY DEF RequestMagicState
<1>2. get_cell_by_id(slice, near) \in Cells
  BY <1>1, ReadyIsFound
<1>3. magic_states \subseteq Cells
  BY DEF LatticeInv, MagicInv
<1>4. c \in magic_states /\ c \in Cells
  BY <1>1, <1>2, <1>3, ClosestIsIn
<1> HIDE DEF c
<1>5. /\ slice.cells[c] # Free /\ slice.cells[c].type = "PreparedState"
      /\ slice.cells[c].id = NoId /\ Good(slice)
  BY <1>4 DEF LatticeInv, MagicInv, Prepared, IdsInv
<1>6. PICK q \in Patch : /\ q.type = "Qubit" /\ q.id = i /\ q.activity = "None"
                         /\ Becomes(slice, slice', c, q)
  BY <1>1, <1>4, <1>5, RequestingBecomes DEF IsFree
<1>7. c \notin YStateCells
  <2>1. ASSUME c \in YStateCells
        PROVE  FALSE
    <3>1. slice.cells[c].type = "Qubit" \/ InRotation(slice.cells[c])
      BY <2>1 DEF LatticeInv, YStatesInv, RegionsInv
    <3> QED
      BY <1>5, <3>1 DEF InRotation
  <2> QED
    BY <2>1
<1>8. i \notin borrowed
  BY <1>1 DEF Fresh, LatticeInv, IdsInv
<1>9. Settles(i, c, q)
  BY <1>1, <1>5, <1>6, <1>7, <1>8 DEF Settles, Fresh, Done
<1> QED
  BY <1>4, <1>9, SettlingSteps

LEMMA BorrowYStateSteps ==
  ASSUME LatticeInv, YStatesStay, NEW i \in PatchIds, NEW near \in PatchIds,
         BorrowYState(i, near)
  PROVE  LatticeInv' /\ PlacementStep
<1> DEFINE c == Closest(get_cell_by_id(slice, near), IdleYStates)
           p == slice.cells[c]
           q == [p EXCEPT !.id = i]
<1>1. /\ Fresh(i) /\ IdleYStates # {} /\ slice' = assign_patch_id(slice, c, i)
      /\ ystates_available' = ystates_available - 1
      /\ alive' = alive \cup {i} /\ borrowed' = borrowed \cup {i}
      /\ UNCHANGED <<magic_states, time_to_next, busy, turn>>
      /\ Ready(near)
  BY DEF BorrowYState
<1>2. get_cell_by_id(slice, near) \in Cells
  BY <1>1, ReadyIsFound
<1>3. IdleYStates \subseteq Cells
  BY YStatesAreCells DEF IdleYStates
<1>4. c \in IdleYStates /\ c \in Cells
  BY <1>1, <1>2, <1>3, ClosestIsIn
<1> HIDE DEF c
<1>5. c \in YStateCells /\ p.id = NoId /\ ~is_active(p)
  BY <1>4 DEF IdleYStates
<1>6. p.activity = "None"
  BY <1>5 DEF is_active
<1>7. p # Free /\ ~Done(p) /\ p.type = "Qubit"
  <2>1. p # Free /\ ~Done(p) /\ (p.type = "Qubit" \/ InRotation(p))
    BY <1>5 DEF LatticeInv, YStatesInv, RegionsInv
  <2> QED
    BY <1>6, <2>1 DEF InRotation
<1>8. Good(slice) /\ ~IsFree(slice, c) /\ p \in Patch
  BY <1>4, <1>7, CellContent DEF LatticeInv, IsFree
<1>9. Becomes(slice, slice', c, q)
  BY <1>1, <1>4, <1>8, AssigningBecomes
<1>10. q \in Patch /\ q.type = "Qubit" /\ q.id = i /\ ~Done(q)
  BY <1>6, <1>7, <1>8, PatchChanges DEF Done
<1> HIDE DEF q
<1>11. c \notin Tiles /\ c \notin magic_states
  BY <1>5, <1>7, YStatesAreCells DEF LatticeInv, MagicInv, Prepared
<1>12. Settles(i, c, q)
  BY <1>1, <1>5, <1>7, <1>9, <1>10, <1>11 DEF Settles, Fresh, Unborrowed
<1> QED
  BY <1>4, <1>12, SettlingSteps

LEMMA PrepareYStateSteps ==
  ASSUME LatticeInv, YStatesStay, NEW i \in PatchIds, NEW near \in PatchIds,
         PrepareYState(i, near)
  PROVE  LatticeInv' /\ PlacementStep
<1> DEFINE c == get_cell_by_id(slice, near)
           sides == FreeSides(slice, c) \cap SidesOfType(slice.cells[c], "Smooth")
           e == Beyond(c, LastSide(sides))
           p == basic_square_patch(i)
           t == place_dense_patch_at(slice, e, p)
           q == [p EXCEPT !.activity = "Unitary"]
<1>1. /\ Fresh(i) /\ sides # {} /\ allow_twists
      /\ slice' = set_patch_activity(t, e, "Unitary")
      /\ alive' = alive \cup {i} /\ borrowed' = borrowed \cup {i}
      /\ UNCHANGED <<stores, busy, turn>>
  BY DEF PrepareYState
<1>2. sides \subseteq Directions
  BY DEF FreeSides
<1>3. LastSide(sides) \in sides
  BY <1>1, <1>2, LastSideIsIn
<1>4. e \in Cells /\ IsFree(slice, e)
  BY <1>3 DEF FreeSides
<1> HIDE DEF e
<1>5. /\ p \in Patch /\ p.type = "Qubit" /\ p.id = i /\ p.activity = "None" /\ Shaped(e, p)
      /\ Good(slice) /\ i # NoId
  BY <1>4, BasicSquarePatch, OptionalsAssumption DEF LatticeInv
<1> HIDE DEF p
<1>6. Becomes(slice, t, e, p)
  BY <1>4, <1>5, PlacingBecomes
<1>7. Good(t) /\ t.cells[e] = p /\ Bears(t, e) = i
  BY <1>5, <1>6, PatchParts DEF Becomes, Bears, IsFree
<1> HIDE DEF t
<1>8. q \in Patch /\ q.type = "Qubit" /\ q.id = i /\ q.activity = "Unitary"
      /\ q.boundaries = p.boundaries
  BY <1>5, PatchChanges DEF PatchActivities
<1>9. slice' = Touched(t, e, q)
  BY <1>1, <1>7 DEF set_patch_activity, Touched
<1> HIDE DEF q
<1>10. Shaped(e, q)
  BY <1>5, <1>8 DEF Shaped
<1>11. Good(slice') /\ slice'.cache = t.cache
  BY <1>4, <1>7, <1>8, <1>9, <1>10, TouchedIsGood
<1>12. slice'.cells[e] = q /\ \A d \in Cells : d # e => slice'.cells[d] = t.cells[d]
  <2>1. t.cells \in [Cells -> Patch \cup {Free}] /\ t = [cells |-> t.cells, cache |-> t.cache]
    BY <1>7, SliceParts DEF Good
  <2>2. slice'.cells = [t.cells EXCEPT ![e] = q]
    BY <1>9, <2>1 DEF Touched
  <2> QED
    BY <1>4, <2>1, <2>2
<1>13. IdOf(p) = i /\ IdOf(q) = i
  BY <1>5, <1>8, PatchParts DEF IdOf
<1>14. Becomes(slice, slice', e, q)
  BY <1>6, <1>11, <1>12, <1>13 DEF Becomes
<1>15. /\ slice.cells[e] = Free /\ e \notin YStateCells /\ e \notin magic_states
       /\ magic_states_reserved => e \notin Tiles
  BY <1>1, <1>4, FreeCell DEF Fresh
<1>16. Settles(i, e, q)
  BY <1>1, <1>8, <1>14, <1>15 DEF Settles, Fresh, Done, stores
<1> QED
  BY <1>4, <1>16, SettlingSteps

(***************************************************************************)
(* A Y state that is given back is idle again, and counted.                *)
(***************************************************************************)
LEMMA GiveBackYStateSteps ==
  ASSUME LatticeInv, NEW i \in PatchIds, GiveBackYState(i)
  PROVE  LatticeInv' /\ PlacementStep
<1> DEFINE c == get_cell_by_id(slice, i)
           p == slice.cells[c]
           q == [p EXCEPT !.id = NoId]
<1>1. /\ c \in Cells /\ ~IsFree(slice, c) /\ p \in Patch /\ p.id # NoId
      /\ p.id = i /\ p.type = "Qubit" /\ slice.cache[i] = c
  BY FoundPatch DEF GiveBackYState
<1>2. q \in Patch /\ q.type = p.type /\ q.id = NoId /\ q.activity = p.activity
  BY <1>1, PatchChanges
<1>3. /\ slice' = assign_patch_id(slice, c, NoId) /\ i \in alive /\ ~Rotating(i)
      /\ alive' = alive \ {i} /\ borrowed' = borrowed \ {i} /\ turn = 0
      /\ ~allow_twists /\ i \in borrowed /\ ystates_available' = ystates_available + 1
      /\ UNCHANGED <<magic_states, time_to_next, busy, turn>>
  BY DEF GiveBackYState, Ready, MayGiveBack
<1>4. Good(slice) /\ Becomes(slice, slice', c, q)
  BY <1>1, <1>3, AssigningBecomes DEF LatticeInv
<1> HIDE DEF q
<1>5. q # Free /\ p # Free /\ IdOf(q) = NoId
  BY <1>1, <1>2, PatchParts DEF IdOf
<1> HIDE DEF c, p
<1> USE DEF LatticeInv
<1>6. \A j \in PatchIds : j # NoId /\ (j # i => slice.cache[j] # c)
  BY <1>1, <1>4, CacheContent, OptionalsAssumption DEF p
<1>7. /\ slice'.cells[c] = q
      /\ \A d \in Cells : d # c => slice'.cells[d] = slice.cells[d]
      /\ Good(slice')
      /\ slice'.cache[i] = Nowhere
      /\ \A j \in PatchIds : j # i => slice'.cache[j] = slice.cache[j]
  BY <1>1, <1>4, <1>5, <1>6 DEF Becomes
<1>8. c \in YStateCells
  BY <1>1, <1>3, OptionalsAssumption DEF YStatesInv
<1>9. RegionsInv'
  <2>1. \A r \in busy : r.cell \in Cells /\ r.neighbour \in Cells
                        /\ r.patch.id # i /\ r.cell # c /\ r.neighbour # c
    BY <1>1, <1>3 DEF RegionsInv, Rotations, InRotation, Rotating, p
  <2> QED
    BY <1>3, <1>7, <2>1 DEF RegionsInv, IdsInv
<1>10. IdsInv'
  <2>1. \A j \in alive \ {i} : j \in PatchIds /\ slice.cache[j] # c
    BY <1>6 DEF IdsInv
  <2> QED
    BY <1>1, <1>2, <1>3, <1>7, <2>1 DEF IdsInv, Rotating, p
<1>11. MagicInv'
  BY <1>1, <1>2, <1>3, <1>7 DEF MagicInv, Prepared, p
<1>12. YStatesInv'
  <2> DEFINE S == {d \in YStateCells : Unborrowed(slice.cells[d])}
             T == {d \in YStateCells : Unborrowed(slice'.cells[d])}
  <2>1. YStateCells \subseteq Cells /\ IsFiniteSet(YStateCells) /\ IsFiniteSet(S)
    BY YStatesAreCells, FS_Subset
  <2>2. T = S \cup {c} /\ c \notin S
    BY <1>1, <1>2, <1>7, <1>8, <2>1 DEF Unborrowed, p
  <2>3. ystates_available' = Cardinality(T)
    BY <1>3, <2>1, <2>2, FS_AddElement DEF YStatesInv
  <2>4. \A d \in YStateCells :
          /\ slice'.cells[d] # Free /\ ~Done(slice'.cells[d])
          /\ slice'.cells[d].type = "Qubit" \/ \E r \in busy' : r.cell = d
          /\ slice'.cells[d].id # NoId =>
               /\ slice'.cells[d].id \in borrowed'
               /\ slice'.cache[slice'.cells[d].id] = d
    <3> SUFFICES ASSUME NEW d \in YStateCells
                 PROVE  /\ slice'.cells[d] # Free /\ ~Done(slice'.cells[d])
                        /\ slice'.cells[d].type = "Qubit" \/ \E r \in busy' : r.cell = d
                        /\ slice'.cells[d].id # NoId =>
                             /\ slice'.cells[d].id \in borrowed'
                             /\ slice'.cache[slice'.cells[d].id] = d
      OBVIOUS
    <3>1. CASE d = c
      BY <1>1, <1>2, <1>5, <1>7, <1>8, <3>1 DEF YStatesInv, Done, p
    <3>2. CASE d # c
      <4>1. d \in Cells /\ slice'.cells[d] = slice.cells[d]
        BY <1>7, <2>1, <3>2
      <4>2. slice.cells[d].id # i
        BY <1>1, <1>6, <3>2 DEF YStatesInv
      <4>3. slice.cells[d].id # NoId => slice.cells[d].id \in PatchIds
        BY DEF YStatesInv, IdsInv
      <4> QED
        BY <1>3, <1>7, <4>1, <4>2, <4>3 DEF YStatesInv
    <3> QED
      BY <3>1, <3>2
  <2>5. \A r \in busy' : r.neighbour \notin YStateCells
                         /\ (r.cell \in YStateCells => r.patch.id \in borrowed')
    BY <1>3 DEF YStatesInv, Rotating
  <2>6. /\ \A j \in borrowed' : slice'.cache[j] # Nowhere => slice'.cache[j] \in YStateCells
        /\ \A r \in busy' : r.patch.id \in borrowed' => r.cell \in YStateCells
    BY <1>3, <1>7 DEF YStatesInv, IdsInv
  <2> HIDE DEF S, T
  <2> QED
    BY <2>3, <2>4, <2>5, <2>6 DEF YStatesInv, T
<1>13. magic_states_reserved => \A k \in Factories : reserved_for_magic_states[k] \in Cells
  BY YStatesAreCells, InstancesAssumption DEF Tiles, Elements
<1>14. TilesInv'
  <2>1. Nowhere \notin Tiles
    BY YStatesAreCells, OptionalsAssumption
  <2>2. \A j \in DOMAIN CoreHome \cup borrowed : j \in PatchIds
    BY LayoutAssumption DEF IdsInv
  <2>3. magic_states_reserved =>
          \A j \in DOMAIN CoreHome \cup borrowed' : slice'.cache[j] \notin Tiles
    BY <1>3, <1>7, <2>1, <2>2 DEF TilesInv
  <2>4. \A d \in Cells : slice'.cells[d] = Free => slice.cells[d] = Free
    BY <1>5, <1>7
  <2> QED
    BY <1>3, <1>13, <2>3, <2>4 DEF TilesInv
<1>15. TimersInv'
  <2>1. \A d \in Cells : Distilling(slice'.cells[d]) => Distilling(slice.cells[d])
    BY <1>1, <1>2, <1>7 DEF Distilling
  <2> QED
    BY <1>3, <1>13, <2>1 DEF TimersInv
<1>16. Good(slice)'
  BY <1>7
<1>17. LatticeInv'
  BY <1>9, <1>10, <1>11, <1>12, <1>14, <1>15, <1>16
<1>18. \A j \in alive : j # i => slice'.cache[j] = slice.cache[j]
  BY <1>7 DEF IdsInv
<1>19. UNCHANGED busy
  BY <1>3
<1> QED
  BY <1>3, <1>17, <1>18, <1>19, HomeIsLeft

-----------------------------------------------------------------------------
(* Factories and reserved tiles. *)

\* The turns of a slice.
LEMMA NextTurnIs ==
  ASSUME turn \in 0 .. Len(distillation_times)
  PROVE  /\ NextTurn \in 0 .. Len(distillation_times)
         /\ NextTurn = 0 \/ NextTurn = turn + 1
         /\ turn # Len(distillation_times) => NextTurn = turn + 1
         /\ Factories = 1 .. Len(distillation_times)
         /\ turn # 0 => turn \in Factories
         /\ \A k \in Factories : distillation_times[k] \in 0 .. TimestepValues - 1
<1>1. distillation_times \in Seq(0 .. TimestepValues - 1)
  BY InstancesAssumption
<1>2. Len(distillation_times) \in Nat /\ Factories = 1 .. Len(distillation_times)
  BY <1>1 DEF Factories
<1>3. \A k \in Factories : distillation_times[k] \in 0 .. TimestepValues - 1
  <2> DEFINE values == 0 .. TimestepValues - 1
  <2>1. distillation_times \in Seq(values)
    BY <1>1
  <2> HIDE DEF values
  <2>2. \A k \in Factories : distillation_times[k] \in values
    BY <2>1 DEF Factories
  <2> QED
    BY <2>2 DEF values
<1> QED
  BY <1>2, <1>3 DEF NextTurn

\* The timers wrap, as numbers of a SurfaceCodeTimestep.
LEMMA DecrementedIs ==
  ASSUME NEW t \in 0 .. TimestepValues - 1
  PROVE  /\ decremented(t) \in 0 .. TimestepValues - 1
         /\ t # 0 => decremented(t) = t - 1
  BY InstancesAssumption DEF decremented

\* What is spawned.
LEMMA SpawnedPatch ==
  ASSUME NEW c \in Cells
  PROVE  /\ MagicState \in Patch /\ MagicState.type = "PreparedState" /\ MagicState.id = NoId
         /\ MagicState.activity = "None" /\ Shaped(c, MagicState)
         /\ LET q == Tile("Distillation", Uniform("Connected"))
            IN /\ q \in Patch /\ q.type = "Distillation" /\ q.id = NoId
               /\ q.activity = "Distillation" /\ Shaped(c, q)
<1>1. NoId \in PatchIds \cup {NoId} /\ "PreparedState" \in PatchTypes
  BY DEF PatchTypes
<1>2. basic_square_patch(NoId) \in Patch
  BY <1>1, BasicSquarePatch
<1>3. /\ MagicState \in Patch /\ MagicState.type = "PreparedState"
      /\ MagicState.id = basic_square_patch(NoId).id
      /\ MagicState.activity = basic_square_patch(NoId).activity
      /\ MagicState.boundaries = basic_square_patch(NoId).boundaries
  BY <1>1, <1>2, PatchChanges DEF MagicState
<1>4. Shaped(c, MagicState)
  BY <1>1, <1>3, BasicSquarePatch DEF Shaped
<1>5. LET q == Tile("Distillation", Uniform("Connected"))
      IN /\ q \in Patch /\ q.type = "Distillation" /\ q.id = NoId
         /\ q.activity = "Distillation" /\ Shaped(c, q)
  BY DEF Tile, Uniform, Named, Patch, PatchTypes, PatchActivities, CellBoundaries,
         Boundary, BoundaryTypes, boundary, Shaped, Square
<1> QED
  BY <1>1, <1>3, <1>4, <1>5, BasicSquarePatch

(***************************************************************************)
(* A state, or the tile that it will be on, takes the place of what bears  *)
(* no id, is no Y state and not part of a rotation.                        *)
(***************************************************************************)
Spawns(c, q) ==
  /\ q \in Patch /\ q.id = NoId /\ ~Done(q)
  /\ slice.cells[c] = Free \/ (slice.cells[c].id = NoId /\ slice.cells[c].type # "PreparedState")
  /\ c \notin YStateCells /\ \A r \in busy : c \notin Region(r)
  /\ Becomes(slice, slice', c, q)
  /\ \/ q.type = "PreparedState" /\ magic_states' = magic_states \cup {c}
     \/ q.type = "Distillation" /\ magic_states' = magic_states
  /\ UNCHANGED <<ystates_available, busy, program>>

LEMMA SpawningKeeps ==
  ASSUME LatticeInv, NEW c \in Cells, NEW q, Spawns(c, q)
  PROVE  /\ Good(slice)' /\ RegionsInv' /\ IdsInv' /\ MagicInv' /\ YStatesInv'
         /\ \A i \in PatchIds : slice'.cache[i] = slice.cache[i]
         /\ slice'.cells[c] = q /\ q # Free
         /\ \A d \in Cells : d # c => slice'.cells[d] = slice.cells[d]
<1> USE DEF LatticeInv
<1>1. q # Free /\ IdOf(q) = NoId
  BY PatchParts DEF Spawns, IdOf
<1>2. \A j \in PatchIds : slice.cache[j] # c /\ j # NoId
  BY CacheContent, OptionalsAssumption DEF Spawns, IsFree
<1>3. /\ slice'.cells[c] = q
      /\ \A d \in Cells : d # c => slice'.cells[d] = slice.cells[d]
      /\ Good(slice')
      /\ \A j \in PatchIds : slice'.cache[j] = slice.cache[j]
  BY <1>1, <1>2 DEF Spawns, Becomes
<1>4. UNCHANGED <<ystates_available, busy, alive, borrowed>>
  BY DEF Spawns, program
<1>5. RegionsInv'
  <2>1. \A r \in busy : /\ r.cell \in Cells /\ r.neighbour \in Cells
                        /\ r.cell # c /\ r.neighbour # c /\ r.patch.id \in PatchIds
    BY DEF RegionsInv, Rotations, Spawns, Region, IdsInv
  <2> QED
    BY <1>3, <1>4, <2>1 DEF RegionsInv
<1>6. IdsInv'
  <2>1. \A j \in alive : j \in PatchIds /\ slice.cache[j] # c
    BY <1>2 DEF IdsInv
  <2>2. \A d \in Cells : slice'.cells[d] # Free /\ slice'.cells[d].id # NoId
                           => slice'.cells[d].type = "Qubit"
    BY <1>3 DEF IdsInv, Spawns
  <2>3. \A j \in alive' :
          Rotating(j)' \/ (slice'.cache[j] \in Cells /\ ~Done(slice'.cells[slice'.cache[j]]))
    BY <1>3, <1>4, <2>1 DEF IdsInv, Rotating
  <2> QED
    BY <1>4, <2>2, <2>3 DEF IdsInv
<1>7. MagicInv'
  <2>1. ~Prepared(slice.cells[c])
    BY DEF Spawns, Prepared
  <2>2. CASE q.type = "PreparedState" /\ magic_states' = magic_states \cup {c}
    <3>1. Prepared(slice'.cells[c]) /\ ~Done(slice'.cells[c])
      BY <1>1, <1>3, <2>2 DEF Prepared, Spawns
    <3> QED
      BY <1>3, <2>2, <3>1 DEF MagicInv
  <2>3. CASE q.type = "Distillation" /\ magic_states' = magic_states
    <3>1. ~Prepared(slice'.cells[c])
      BY <1>3, <2>3 DEF Prepared
    <3> QED
      BY <1>3, <2>1, <2>3, <3>1 DEF MagicInv
  <2> QED
    BY <2>2, <2>3 DEF Spawns
<1>8. YStatesInv'
  <2>1. YStateCells \subseteq Cells /\ c \notin YStateCells
    BY YStatesAreCells DEF Spawns
  <2>2. \A d \in YStateCells : slice'.cells[d] = slice.cells[d]
    BY <1>3, <2>1
  <2>3. {d \in YStateCells : Unborrowed(slice.cells[d])}
          = {d \in YStateCells : Unborrowed(slice'.cells[d])}
    BY <2>2
  <2>4. borrowed \subseteq PatchIds
    BY DEF IdsInv
  <2>5. \A d \in YStateCells : slice.cells[d].id # NoId =>
          slice.cells[d].id \in PatchIds /\ slice'.cache[slice.cells[d].id] = d
    BY <1>3, <2>4 DEF YStatesInv
  <2>6. \A j \in borrowed : slice'.cache[j] = slice.cache[j]
    BY <1>3, <2>4
  <2> QED
    BY <1>4, <2>2, <2>3, <2>5, <2>6 DEF YStatesInv
<1>9. Good(slice)'
  BY <1>3
<1> QED
  BY <1>1, <1>3, <1>5, <1>6, <1>7, <1>8, <1>9

\* Nor does a turn without a state concern what is on the lattice.
LEMMA IdleTurnKeeps ==
  ASSUME LatticeInv, UNCHANGED <<slice, magic_states, ystates_available, busy, program>>
  PROVE  Good(slice)' /\ RegionsInv' /\ IdsInv' /\ MagicInv' /\ YStatesInv'
<1>1. UNCHANGED <<alive, borrowed>>
  BY DEF program
<1>2. Good(slice)'
  BY DEF LatticeInv
<1>3. RegionsInv' /\ IdsInv' /\ MagicInv' /\ YStatesInv'
  BY <1>1 DEF LatticeInv, RegionsInv, IdsInv, MagicInv, YStatesInv, Rotating
<1> QED
  BY <1>2, <1>3

LEMMA TurnKeepsHomes ==
  ASSUME LatticeInv, LatticeInv', UNCHANGED <<busy, program>>,
         \A i \in PatchIds : slice'.cache[i] = slice.cache[i]
  PROVE  PlacementStep
<1>1. UNCHANGED alive /\ alive \subseteq PatchIds
  BY DEF program, LatticeInv, IdsInv
<1> QED
  BY <1>1, HomesStay DEF Rotating

\* A factory counts down, and never with a timer that has run out.
LEMMA DistilSteps ==
  ASSUME LatticeInv, Distil
  PROVE  LatticeInv' /\ PlacementStep
<1> USE DEF LatticeInv
<1>1. /\ turn > 0 /\ ~magic_states_reserved /\ turn' = NextTurn
      /\ time_to_next' = [time_to_next EXCEPT ![turn] = FactoryTime(turn)]
      /\ UNCHANGED <<ystates_available, busy, program>>
  BY DEF Distil
<1>2. /\ turn \in Factories /\ Factories = DOMAIN distilled_state_locations
      /\ NextTurn \in 0 .. Len(distillation_times)
      /\ \A k \in Factories : distillation_times[k] \in 0 .. TimestepValues - 1
  <2>1. turn \in 0 .. Len(distillation_times)
    BY DEF TimersInv
  <2>2. Factories = DOMAIN distilled_state_locations
    BY <1>1, InstancesAssumption
  <2>3. turn # 0
    BY <1>1
  <2> QED
    BY <2>1, <2>2, <2>3, NextTurnIs
<1>3. TimersInv'
  <2>1. /\ time_to_next[turn] \in 0 .. TimestepValues - 1 /\ TimestepValues \in Nat
        /\ distillation_times[turn] # 0 =>
             time_to_next[turn] # 0 /\ time_to_next[turn] <= distillation_times[turn]
    BY <1>1, <1>2, InstancesAssumption DEF TimersInv
  <2>2. /\ FactoryTime(turn) \in 0 .. TimestepValues - 1
        /\ distillation_times[turn] # 0 =>
             FactoryTime(turn) # 0 /\ FactoryTime(turn) <= distillation_times[turn]
    BY <1>2, <2>1, DecrementedIs DEF FactoryTime
  <2>3. time_to_next' \in [Factories -> 0 .. TimestepValues - 1]
    BY <1>1, <2>2 DEF TimersInv
  <2>4. \A k \in Factories : distillation_times[k] # 0 =>
          time_to_next'[k] <= distillation_times[k] /\ time_to_next'[k] # 0
    BY <1>1, <1>2, <2>2 DEF TimersInv
  <2> QED
    BY <1>1, <1>2, <2>3, <2>4 DEF TimersInv
<1>4. TilesInv'
  BY <1>1 DEF TilesInv
<1>5. CASE time_to_next[turn] = 1 /\ FreePlaces(turn) # {}
  <2> DEFINE n == Min(FreePlaces(turn))
             c == distilled_state_locations[turn][n]
  <2>1. distilled_state_locations[turn] \in Seq(Cells)
    BY <1>2, InstancesAssumption
  <2>2. n \in FreePlaces(turn)
    <3>1. FreePlaces(turn) \subseteq Nat
      BY <2>1 DEF FreePlaces
    <3> QED
      BY <1>5, <3>1, MinIsIn
  <2> HIDE DEF n
  <2>3. c \in Cells /\ IsFree(slice, c)
    BY <2>1, <2>2 DEF FreePlaces
  <2>4. slice' = place_dense_patch_at(slice, c, MagicState) /\ magic_states' = magic_states \cup {c}
    BY <1>5 DEF Distil, SpawnAt, n
  <2> HIDE DEF c
  <2>5. MagicState \in Patch /\ MagicState.type = "PreparedState" /\ MagicState.id = NoId
        /\ MagicState.activity = "None" /\ Shaped(c, MagicState)
    BY <2>3, SpawnedPatch
  <2>6. Becomes(slice, slice', c, MagicState)
    BY <2>3, <2>4, <2>5, PlacingBecomes
  <2>7. slice.cells[c] = Free /\ c \notin YStateCells
    BY <2>3, FreeCell
  <2>8. \A r \in busy : c \notin Region(r)
    BY <2>7 DEF RegionsInv, InRotation, Region
  <2>9. Spawns(c, MagicState)
    BY <1>1, <2>4, <2>5, <2>6, <2>7, <2>8 DEF Spawns, Done
  <2>10. /\ Good(slice)' /\ RegionsInv' /\ IdsInv' /\ MagicInv' /\ YStatesInv'
         /\ \A i \in PatchIds : slice'.cache[i] = slice.cache[i]
    BY <2>3, <2>9, SpawningKeeps
  <2>11. LatticeInv'
    BY <1>3, <1>4, <2>10
  <2> QED
    BY <1>1, <2>10, <2>11, TurnKeepsHomes
<1>6. CASE ~(time_to_next[turn] = 1 /\ FreePlaces(turn) # {})
  <2>1. UNCHANGED <<slice, magic_states>>
    BY <1>6 DEF Distil
  <2>2. LatticeInv'
    BY <1>1, <1>3, <1>4, <2>1, IdleTurnKeeps
  <2> QED
    BY <1>1, <2>1, <2>2, TurnKeepsHomes
<1> QED
  BY <1>5, <1>6

(***************************************************************************)
(* The turn of a tile leaves something on it, the other tiles as they are, *)
(* and a timer that has run out only if no state is on its way.            *)
(***************************************************************************)
LEMMA TileTurnKeeps ==
  ASSUME LatticeInv, magic_states_reserved, turn # 0, turn' = NextTurn,
         time_to_next' = [time_to_next EXCEPT ![turn] = TileTime(turn)],
         UNCHANGED <<busy, program>>,
         \A i \in PatchIds : slice'.cache[i] = slice.cache[i],
         \A d \in Cells : d # reserved_for_magic_states[turn]
                            => slice'.cells[d] = slice.cells[d],
         slice'.cells[reserved_for_magic_states[turn]] # Free,
         TileTime(turn) \in 0 .. TimestepValues - 1,
         distillation_times[turn] # 0 => TileTime(turn) <= distillation_times[turn],
         TileTime(turn) = 0 /\ distillation_times[turn] # 0
           => ~Distilling(slice'.cells[reserved_for_magic_states[turn]])
  PROVE  TilesInv' /\ TimersInv'
<1> USE DEF LatticeInv
<1>1. turn \in 0 .. Len(distillation_times)
  BY DEF TimersInv
<1>2. /\ turn \in Factories /\ Factories = 1 .. Len(distillation_times)
      /\ NextTurn \in 0 .. Len(distillation_times)
      /\ turn # Len(distillation_times) => NextTurn = turn + 1
      /\ \A k \in Factories : distillation_times[k] \in 0 .. TimestepValues - 1
  BY <1>1, NextTurnIs
<1>3. /\ \A k \in Factories : reserved_for_magic_states[k] \in Cells
      /\ \A k \in Factories : k # turn =>
           reserved_for_magic_states[k] # reserved_for_magic_states[turn]
  <2>1. Factories = DOMAIN reserved_for_magic_states
    BY InstancesAssumption
  <2> QED
    BY <1>2, <2>1, YStatesAreCells, InstancesAssumption DEF Tiles, Elements
<1>4. ASSUME NEW k \in Factories, slice'.cells[reserved_for_magic_states[k]] = Free
      PROVE  turn' \in 1 .. k
  <2>1. k # turn
    BY <1>4
  <2>2. slice.cells[reserved_for_magic_states[k]] = Free
    BY <1>3, <1>4, <2>1
  <2>3. turn \in 1 .. k
    BY <2>2 DEF TilesInv
  <2> QED
    BY <1>1, <1>2, <2>1, <2>3
<1>5. UNCHANGED borrowed /\ DOMAIN CoreHome \cup borrowed \subseteq PatchIds
  BY LayoutAssumption DEF program, IdsInv
<1>6. TilesInv'
  <2>1. \A i \in DOMAIN CoreHome \cup borrowed' : slice'.cache[i] \notin Tiles
    BY <1>5 DEF TilesInv
  <2>2. \A r \in busy' : r.cell \notin Tiles /\ r.neighbour \notin Tiles
    BY DEF TilesInv
  <2> QED
    BY <1>4, <2>1, <2>2 DEF TilesInv
<1>7. TimersInv'
  <2>1. time_to_next' \in [Factories -> 0 .. TimestepValues - 1]
    BY <1>2 DEF TimersInv
  <2>2. ASSUME NEW k \in Factories, distillation_times[k] # 0
        PROVE  /\ time_to_next'[k] <= distillation_times[k]
               /\ time_to_next'[k] = 0 =>
                    ~Distilling(slice'.cells[reserved_for_magic_states[k]])
    <3>1. CASE k = turn
      BY <1>2, <2>2, <3>1 DEF TimersInv
    <3>2. CASE k # turn
      BY <1>2, <1>3, <2>2, <3>2 DEF TimersInv
    <3> QED
      BY <3>1, <3>2
  <2> QED
    BY <1>2, <2>1, <2>2 DEF TimersInv
<1> QED
  BY <1>6, <1>7

\* A tile is made ready, counts down, or gets its next state.
LEMMA RespawnSteps ==
  ASSUME LatticeInv, Respawn
  PROVE  LatticeInv' /\ PlacementStep
<1> USE DEF LatticeInv
<1> DEFINE c == reserved_for_magic_states[turn]
           tile == Tile("Distillation", Uniform("Connected"))
<1>1. /\ turn # 0 /\ magic_states_reserved /\ turn' = NextTurn
      /\ time_to_next' = [time_to_next EXCEPT ![turn] = TileTime(turn)]
      /\ UNCHANGED <<ystates_available, busy, program>>
  BY DEF Respawn, TimersInv
<1>2. turn \in 0 .. Len(distillation_times)
  BY DEF TimersInv
<1>3. /\ turn \in Factories
      /\ distillation_times[turn] \in 0 .. TimestepValues - 1 /\ TimestepValues \in Nat
  BY <1>1, <1>2, NextTurnIs, InstancesAssumption
<1>4. c \in Cells /\ c \in Tiles /\ c \notin YStateCells
  <2>1. Factories = DOMAIN reserved_for_magic_states
    BY <1>1, InstancesAssumption
  <2>2. c \in Tiles
    BY <1>3, <2>1 DEF Tiles, Elements
  <2> QED
    BY <2>2, YStatesAreCells
<1>5. \A r \in busy : c \notin Region(r)
  BY <1>1, <1>4 DEF TilesInv, Region
<1>6. /\ time_to_next[turn] \in 0 .. TimestepValues - 1
      /\ distillation_times[turn] # 0 =>
           /\ time_to_next[turn] <= distillation_times[turn]
           /\ Distilling(slice.cells[c]) => time_to_next[turn] # 0
  BY <1>3 DEF TimersInv
<1>7. MagicState \in Patch /\ MagicState.type = "PreparedState" /\ MagicState.id = NoId
      /\ MagicState.activity = "None" /\ Shaped(c, MagicState)
  BY <1>4, SpawnedPatch
<1>8. tile \in Patch /\ tile.type = "Distillation" /\ tile.id = NoId
      /\ tile.activity = "Distillation" /\ Shaped(c, tile)
  BY <1>4, SpawnedPatch
<1>9. Good(slice)
  OBVIOUS
<1> HIDE DEF tile
<1>10. CASE IsFree(slice, c) /\ distillation_times[turn] # 0
  <2>1. TileTime(turn) = distillation_times[turn]
    BY <1>10 DEF TileTime
  <2>2. slice' = place_dense_patch_at(slice, c, tile) /\ magic_states' = magic_states
    BY <1>3, <1>10, <2>1 DEF Respawn, tile
  <2> HIDE DEF c
  <2>3. Becomes(slice, slice', c, tile)
    BY <1>4, <1>8, <1>9, <2>2, PlacingBecomes
  <2>4. Spawns(c, tile)
    BY <1>1, <1>4, <1>5, <1>8, <1>10, <2>2, <2>3 DEF Spawns, Done, IsFree
  <2>5. /\ Good(slice)' /\ RegionsInv' /\ IdsInv' /\ MagicInv' /\ YStatesInv'
        /\ \A i \in PatchIds : slice'.cache[i] = slice.cache[i]
        /\ slice'.cells[c] # Free
        /\ \A d \in Cells : d # c => slice'.cells[d] = slice.cells[d]
    BY <1>4, <2>4, SpawningKeeps
  <2>6. TilesInv' /\ TimersInv'
    BY <1>1, <1>3, <2>1, <2>5, TileTurnKeeps DEF c
  <2>7. LatticeInv'
    BY <2>5, <2>6
  <2> QED
    BY <1>1, <2>5, <2>7, TurnKeepsHomes
<1>11. CASE IsFree(slice, c) /\ distillation_times[turn] = 0
  <2> DEFINE made == place_dense_patch_at(slice, c, tile)
  <2>1. TileTime(turn) = 0
    BY <1>11 DEF TileTime
  <2>2. Becomes(slice, made, c, tile)
    BY <1>4, <1>8, <1>9, PlacingBecomes
  <2>3. made.cells[c] = tile /\ Good(made) /\ Spent(made.cells[c])
    BY <1>8, <2>2 DEF Becomes, Spent
  <2>4. slice' = place_dense_patch_at(made, c, MagicState)
        /\ magic_states' = magic_states \cup {c}
    BY <1>11, <2>1, <2>3 DEF Respawn, SpawnAt, tile
  <2> HIDE DEF c, made
  <2>5. Becomes(made, slice', c, MagicState)
    BY <1>4, <1>7, <2>3, <2>4, PlacingBecomes
  <2>6. IdOf(tile) = NoId
    BY <1>8, PatchParts DEF IdOf
  <2>7. Becomes(slice, slice', c, MagicState)
    BY <1>4, <1>7, <1>8, <2>2, <2>5, <2>6, BecomesTwice
  <2>8. Spawns(c, MagicState)
    BY <1>1, <1>4, <1>5, <1>7, <1>11, <2>4, <2>7 DEF Spawns, Done, IsFree
  <2>9. /\ Good(slice)' /\ RegionsInv' /\ IdsInv' /\ MagicInv' /\ YStatesInv'
        /\ \A i \in PatchIds : slice'.cache[i] = slice.cache[i]
        /\ slice'.cells[c] = MagicState /\ slice'.cells[c] # Free
        /\ \A d \in Cells : d # c => slice'.cells[d] = slice.cells[d]
    BY <1>4, <2>8, SpawningKeeps
  <2>10. TileTime(turn) \in 0 .. TimestepValues - 1
    BY <1>3, <2>1
  <2>11. TilesInv' /\ TimersInv'
    BY <1>1, <1>3, <1>11, <2>9, <2>10, TileTurnKeeps DEF c
  <2>12. LatticeInv'
    BY <2>9, <2>11
  <2> QED
    BY <1>1, <2>9, <2>12, TurnKeepsHomes
<1>12. CASE ~IsFree(slice, c) /\ TileTime(turn) = 0 /\ Spent(slice.cells[c])
  <2>1. slice' = place_dense_patch_at(slice, c, MagicState)
        /\ magic_states' = magic_states \cup {c}
    BY <1>12 DEF Respawn, SpawnAt
  <2> HIDE DEF c
  <2>2. Becomes(slice, slice', c, MagicState)
    BY <1>4, <1>7, <1>9, <2>1, PlacingBecomes
  <2>3. slice.cells[c].id = NoId /\ slice.cells[c].type # "PreparedState"
    BY <1>4, <1>12 DEF IdsInv, Spent, IsFree
  <2>4. Spawns(c, MagicState)
    BY <1>1, <1>4, <1>5, <1>7, <2>1, <2>2, <2>3 DEF Spawns, Done
  <2>5. /\ Good(slice)' /\ RegionsInv' /\ IdsInv' /\ MagicInv' /\ YStatesInv'
        /\ \A i \in PatchIds : slice'.cache[i] = slice.cache[i]
        /\ slice'.cells[c] = MagicState /\ slice'.cells[c] # Free
        /\ \A d \in Cells : d # c => slice'.cells[d] = slice.cells[d]
    BY <1>4, <2>4, SpawningKeeps
  <2>6. ~Distilling(slice'.cells[c])
    BY <1>7, <2>5 DEF Distilling
  <2>7. TilesInv' /\ TimersInv'
    BY <1>1, <1>3, <1>12, <2>5, <2>6, TileTurnKeeps DEF c
  <2>8. LatticeInv'
    BY <2>5, <2>7
  <2> QED
    BY <1>1, <2>5, <2>8, TurnKeepsHomes
<1>13. CASE ~IsFree(slice, c) /\ ~(TileTime(turn) = 0 /\ Spent(slice.cells[c]))
  <2>1. slice' = slice /\ magic_states' = magic_states
    BY <1>13 DEF Respawn
  <2>2. slice'.cells[c] # Free
    BY <1>13, <2>1 DEF IsFree
  <2>3. /\ TileTime(turn) \in 0 .. TimestepValues - 1
        /\ distillation_times[turn] # 0 =>
             /\ TileTime(turn) <= distillation_times[turn]
             /\ TileTime(turn) = 0 => ~Distilling(slice'.cells[c])
    <3>1. CASE slice.cells[c].type = "Distillation"
      <4>1. Distilling(slice.cells[c]) /\ Spent(slice.cells[c])
        BY <1>13, <3>1 DEF Distilling, Spent, IsFree
      <4>2. TileTime(turn) = decremented(time_to_next[turn])
        BY <1>13, <3>1 DEF TileTime
      <4> QED
        BY <1>3, <1>6, <1>13, <4>1, <4>2, DecrementedIs
    <3>2. CASE slice.cells[c].type # "Distillation"
      <4>1. TileTime(turn) = time_to_next[turn]
        BY <1>13, <3>2 DEF TileTime
      <4> QED
        BY <1>6, <2>1, <3>2, <4>1 DEF Distilling
    <3> QED
      BY <3>1, <3>2
  <2>4. TilesInv' /\ TimersInv'
    BY <1>1, <2>1, <2>2, <2>3, TileTurnKeeps
  <2>5. LatticeInv'
    BY <1>1, <2>1, <2>4, IdleTurnKeeps
  <2> QED
    BY <1>1, <2>1, <2>5, TurnKeepsHomes
<1> QED
  BY <1>10, <1>12, <1>13, <1>11

-----------------------------------------------------------------------------
(* Rotations. *)

\* The patch that a rotation lifts.
LEMMA LiftedPatch ==
  ASSUME NEW p \in Patch, NEW c \in Cells, Shaped(c, p), ~Done(p), NEW q,
         q = [p EXCEPT !.activity = IF p.activity = "Unitary" THEN "None" ELSE p.activity,
                       !.boundaries = instant_rotate(p.boundaries)]
  PROVE  q \in Patch /\ q.type = p.type /\ q.id = p.id /\ ~Done(q) /\ Shaped(c, q)
<1> DEFINE a == IF p.activity = "Unitary" THEN "None" ELSE p.activity
           b == instant_rotate(p.boundaries)
<1>1. /\ p.type \in PatchTypes /\ p.activity \in PatchActivities
      /\ p.id \in PatchIds \cup {NoId} /\ p.boundaries \in CellBoundaries
  BY PatchChanges
<1>2. b \in CellBoundaries
  BY <1>1, RotatedSides
<1>3. a \in PatchActivities
  BY <1>1 DEF PatchActivities
<1>4. a \notin {"MultiPatchMeasurement", "Measurement"}
  BY DEF Done
<1>5. q = [p EXCEPT !.activity = a, !.boundaries = b]
  OBVIOUS
<1> HIDE DEF a, b
<1>6. q \in Patch /\ q.type = p.type /\ q.id = p.id /\ q.activity = a /\ q.boundaries = b
  BY <1>1, <1>2, <1>3, <1>5 DEF Patch
<1>7. ~Done(q)
  BY <1>4, <1>6 DEF Done
<1>8. Shaped(c, q)
  BY <1>6, RotatedIsShaped DEF b
<1> QED
  BY <1>6, <1>7, <1>8

\* A patch is lifted, and its cell and a free one beside it become a region.
LEMMA RotatePatchSteps ==
  ASSUME LatticeInv, RespawnIsSafe, NEW i \in PatchIds, RotatePatch(i)
  PROVE  LatticeInv' /\ PlacementStep
<1> USE DEF LatticeInv
<1> DEFINE c == get_cell_by_id(slice, i)
           n == Beyond(c, LastSide(FreeSides(slice, c)))
           p == slice.cells[c]
           lifted == [p EXCEPT
             !.activity = IF p.activity = "Unitary" THEN "None" ELSE p.activity,
             !.boundaries = instant_rotate(p.boundaries)]
           t == clear_patch_at(slice, c)
           patches == [d \in {c, n} |-> RoutingPatch(d, "Rotation", {c, n})]
           rot == [cell |-> c, neighbour |-> n, patch |-> lifted,
                   steps_to_clear |-> 2, due |-> FALSE]
<1>1. /\ c \in Cells /\ ~IsFree(slice, c) /\ p \in Patch /\ Shaped(c, p) /\ p.id # NoId
      /\ p.id = i /\ p.type = "Qubit" /\ slice.cache[i] = c
  BY FoundPatch DEF RotatePatch
<1>2. ~Done(p)
  BY ReadyIsFound DEF RotatePatch, On
<1>3. /\ FreeSides(slice, c) # {} /\ slice' = mark_routing_region(t, patches)
      /\ busy' = busy \cup {rot}
      /\ MayRotate(i) /\ turn = 0 /\ i \in alive /\ ~Rotating(i)
      /\ UNCHANGED <<stores, turn, program>>
  BY DEF RotatePatch, Ready
<1>4. n \in Cells /\ IsFree(slice, n) /\ n # c
  <2>1. FreeSides(slice, c) \subseteq Directions
    BY DEF FreeSides
  <2>2. LastSide(FreeSides(slice, c)) \in FreeSides(slice, c)
    BY <1>3, <2>1, LastSideIsIn
  <2> QED
    BY <1>1, <2>1, <2>2, BeyondIsAnother DEF FreeSides
<1>5. lifted \in Patch /\ lifted.type = "Qubit" /\ lifted.id = i /\ ~Done(lifted)
      /\ Shaped(c, lifted)
  <2>1. lifted = [p EXCEPT
          !.activity = IF p.activity = "Unitary" THEN "None" ELSE p.activity,
          !.boundaries = instant_rotate(p.boundaries)]
    OBVIOUS
  <2> HIDE DEF lifted, p
  <2> QED
    BY <1>1, <1>2, <2>1, LiftedPatch
<1> HIDE DEF n, lifted
<1>6. Becomes(slice, t, c, Free)
  BY <1>1, ClearingBecomes
<1>7. \A j \in PatchIds : j # NoId /\ (j # i => slice.cache[j] # c) /\ slice.cache[j] # n
  <2>1. Good(slice)
    OBVIOUS
  <2> QED
    BY <1>1, <1>4, <2>1, CacheContent, OptionalsAssumption
<1> HIDE DEF t, c, p
<1>8. /\ Good(t) /\ t.cells[c] = Free /\ t.cells[n] = Free
      /\ \A d \in Cells : d # c => t.cells[d] = slice.cells[d]
      /\ t.cache[i] = Nowhere /\ \A j \in PatchIds : j # i => t.cache[j] = slice.cache[j]
  BY <1>1, <1>4, <1>6, <1>7 DEF Becomes, IdOf, IsFree
<1>9. DOMAIN patches = {c, n}
      /\ \A d \in {c, n} : /\ patches[d] \in Patch /\ patches[d].type = "Routing"
                           /\ patches[d].activity = "Rotation" /\ patches[d].id = NoId
  <2>1. "Rotation" \in PatchActivities
    BY DEF PatchActivities
  <2> QED
    BY <2>1, RoutingPatchIs
<1> HIDE DEF patches
<1>10. /\ Good(slice') /\ slice'.cache = t.cache
       /\ \A d \in Cells : slice'.cells[d] = IF d \in {c, n} THEN patches[d] ELSE t.cells[d]
  <2>1. \A d \in Cells \cap DOMAIN patches :
          Bears(t, d) = NoId /\ patches[d] \in Patch /\ patches[d].type = "Routing"
          /\ patches[d].id = NoId
    BY <1>8, <1>9 DEF Bears, IsFree
  <2> QED
    BY <1>3, <1>8, <1>9, <2>1, MarkedRegion
<1>11. /\ InRotation(slice'.cells[c]) /\ InRotation(slice'.cells[n])
       /\ ~Done(slice'.cells[c]) /\ ~Done(slice'.cells[n])
  BY <1>1, <1>4, <1>9, <1>10, PatchParts DEF InRotation, Done
<1>12. \A d \in Cells : d # c /\ d # n => slice'.cells[d] = slice.cells[d]
  BY <1>8, <1>10
<1>13. slice'.cache[i] = Nowhere
       /\ \A j \in PatchIds : j # i => slice'.cache[j] = slice.cache[j]
  BY <1>8, <1>10
<1>14. /\ rot.cell = c /\ rot.neighbour = n /\ rot.patch = lifted
       /\ rot \in Rotations
  BY <1>1, <1>4, <1>5 DEF Rotations
<1> HIDE DEF rot
<1>15. UNCHANGED <<magic_states, time_to_next, ystates_available, alive, borrowed>>
  BY <1>3 DEF stores, program
<1>16. ~InRotation(slice.cells[c]) /\ ~InRotation(slice.cells[n])
  BY <1>1, <1>4 DEF InRotation, IsFree, p
<1>17. RegionsInv'
  <2>1. \A r \in busy : /\ r.cell \in Cells /\ r.neighbour \in Cells
                        /\ r.cell # c /\ r.neighbour # c /\ r.cell # n /\ r.neighbour # n
                        /\ r.patch.id \in PatchIds /\ r.patch.id # i
    BY <1>3, <1>16 DEF RegionsInv, Rotations, IdsInv, Rotating
  <2>2. busy' \subseteq Rotations
    BY <1>3, <1>14 DEF RegionsInv
  <2>3. \A r \in busy' :
          /\ r.cell # r.neighbour
          /\ r.patch.type = "Qubit" /\ r.patch.id \in alive' /\ ~Done(r.patch)
          /\ Shaped(r.cell, r.patch) /\ slice'.cache[r.patch.id] = Nowhere
          /\ InRotation(slice'.cells[r.cell]) /\ InRotation(slice'.cells[r.neighbour])
    <3> SUFFICES ASSUME NEW r \in busy'
                 PROVE  /\ r.cell # r.neighbour
                        /\ r.patch.type = "Qubit" /\ r.patch.id \in alive' /\ ~Done(r.patch)
                        /\ Shaped(r.cell, r.patch) /\ slice'.cache[r.patch.id] = Nowhere
                        /\ InRotation(slice'.cells[r.cell])
                        /\ InRotation(slice'.cells[r.neighbour])
      OBVIOUS
    <3>1. CASE r = rot
      BY <1>3, <1>4, <1>5, <1>11, <1>13, <1>14, <1>15, <3>1
    <3>2. CASE r \in busy
      BY <1>12, <1>13, <1>15, <2>1, <3>2 DEF RegionsInv
    <3> QED
      BY <1>3, <3>1, <3>2
  <2>4. \A r, q \in busy' :
          r.patch.id = q.patch.id \/ Region(r) \cap Region(q) # {} => r = q
    <3>1. \A r \in busy : Region(r) \cap Region(rot) = {} /\ r.patch.id # rot.patch.id
      BY <1>5, <1>14, <2>1 DEF Region
    <3>2. \A r, q \in busy :
            r.patch.id = q.patch.id \/ Region(r) \cap Region(q) # {} => r = q
      BY DEF RegionsInv
    <3> QED
      BY <1>3, <3>1, <3>2
  <2> QED
    BY <2>2, <2>3, <2>4 DEF RegionsInv
<1>18. Rotating(i)' /\ \A j \in PatchIds : j # i => (Rotating(j)' <=> Rotating(j))
  BY <1>3, <1>5, <1>14 DEF Rotating
<1>19. IdsInv'
  <2>1. \A d \in Cells : slice'.cells[d] # Free /\ slice'.cells[d].id # NoId
                           => slice'.cells[d].type = "Qubit"
    BY <1>11, <1>12 DEF IdsInv, InRotation
  <2>2. \A j \in alive' :
          Rotating(j)' \/ (slice'.cache[j] \in Cells /\ ~Done(slice'.cells[slice'.cache[j]]))
    <3> SUFFICES ASSUME NEW j \in alive, ~Rotating(j)'
                 PROVE  slice'.cache[j] \in Cells /\ ~Done(slice'.cells[slice'.cache[j]])
      BY <1>15
    <3>1. j \in PatchIds /\ j # i /\ ~Rotating(j)
      BY <1>18 DEF IdsInv
    <3>2. slice.cache[j] \in Cells /\ ~Done(slice.cells[slice.cache[j]])
      BY <3>1 DEF IdsInv
    <3> QED
      BY <1>7, <1>12, <1>13, <3>1, <3>2
  <2> QED
    BY <1>15, <2>1, <2>2 DEF IdsInv
<1>20. MagicInv'
  <2>1. /\ ~Prepared(slice.cells[c]) /\ ~Prepared(slice.cells[n])
        /\ ~Prepared(slice'.cells[c]) /\ ~Prepared(slice'.cells[n])
    BY <1>1, <1>4, <1>11 DEF Prepared, InRotation, IsFree, p
  <2> QED
    BY <1>12, <1>15, <2>1 DEF MagicInv
<1>21. YStatesInv'
  <2>1. YStateCells \subseteq Cells /\ n \notin YStateCells
    BY <1>4, FreeCell, YStatesAreCells
  <2>2. c \in YStateCells => i \in borrowed
    BY <1>1 DEF YStatesInv, p
  <2>3. \A d \in YStateCells :
          /\ slice'.cells[d] # Free /\ ~Done(slice'.cells[d])
          /\ slice'.cells[d].type = "Qubit" \/ \E r \in busy' : r.cell = d
          /\ slice'.cells[d].id # NoId =>
               /\ slice'.cells[d].id \in borrowed'
               /\ slice'.cache[slice'.cells[d].id] = d
    <3> SUFFICES ASSUME NEW d \in YStateCells
                 PROVE  /\ slice'.cells[d] # Free /\ ~Done(slice'.cells[d])
                        /\ slice'.cells[d].type = "Qubit" \/ \E r \in busy' : r.cell = d
                        /\ slice'.cells[d].id # NoId =>
                             /\ slice'.cells[d].id \in borrowed'
                             /\ slice'.cache[slice'.cells[d].id] = d
      OBVIOUS
    <3>1. CASE d = c
      BY <1>3, <1>11, <1>14, <3>1 DEF InRotation
    <3>2. CASE d # c
      <4>1. slice'.cells[d] = slice.cells[d]
        BY <1>12, <2>1, <3>2
      <4>2. slice.cells[d].id # NoId => slice.cells[d].id \in PatchIds /\ slice.cells[d].id # i
        BY <1>1, <3>2 DEF YStatesInv, IdsInv
      <4> QED
        BY <1>3, <1>13, <1>15, <4>1, <4>2 DEF YStatesInv
    <3> QED
      BY <3>1, <3>2
  <2>4. \A r \in busy' : r.neighbour \notin YStateCells
                         /\ (r.cell \in YStateCells => r.patch.id \in borrowed')
    BY <1>3, <1>5, <1>14, <1>15, <2>1, <2>2 DEF YStatesInv
  <2>5. ASSUME ~allow_twists
        PROVE  /\ \A j \in borrowed' : slice'.cache[j] # Nowhere => slice'.cache[j] \in YStateCells
               /\ \A r \in busy' : r.patch.id \in borrowed' => r.cell \in YStateCells
    <3>1. \A j \in borrowed : j \in PatchIds
                              /\ (slice.cache[j] # Nowhere => slice.cache[j] \in YStateCells)
      BY <2>5 DEF YStatesInv, IdsInv
    <3>2. i \in borrowed => c \in YStateCells
      BY <1>1, <3>1, OptionalsAssumption
    <3>3. \A r \in busy : r.patch.id \in borrowed => r.cell \in YStateCells
      BY <2>5 DEF YStatesInv
    <3> QED
      BY <1>3, <1>5, <1>13, <1>14, <1>15, <3>1, <3>2, <3>3
  <2>6. {d \in YStateCells : Unborrowed(slice.cells[d])}
          = {d \in YStateCells : Unborrowed(slice'.cells[d])}
    <3>1. ~Unborrowed(slice.cells[c]) /\ ~Unborrowed(slice'.cells[c])
      BY <1>1, <1>11 DEF Unborrowed, InRotation, p
    <3> QED
      BY <1>12, <2>1, <3>1
  <2> QED
    BY <1>15, <2>3, <2>4, <2>5, <2>6 DEF YStatesInv
<1>22. magic_states_reserved => \A k \in Factories : reserved_for_magic_states[k] \in Cells
  BY YStatesAreCells, InstancesAssumption DEF Tiles, Elements
<1>23. TilesInv'
  <2> SUFFICES ASSUME magic_states_reserved
               PROVE  TilesInv'
    BY DEF TilesInv
  <2>1. i \in DOMAIN CoreHome \cup borrowed
    BY <1>3 DEF RespawnIsSafe, MayRotate
  <2>2. c \notin Tiles /\ n \notin Tiles
    BY <1>1, <1>3, <1>4, <2>1, FreeCell DEF TilesInv
  <2>3. Nowhere \notin Tiles /\ DOMAIN CoreHome \cup borrowed \subseteq PatchIds
    BY YStatesAreCells, OptionalsAssumption, LayoutAssumption DEF IdsInv
  <2>4. \A j \in DOMAIN CoreHome \cup borrowed' : slice'.cache[j] \notin Tiles
    BY <1>13, <1>15, <2>3 DEF TilesInv
  <2>5. \A r \in busy' : r.cell \notin Tiles /\ r.neighbour \notin Tiles
    BY <1>3, <1>14, <2>2 DEF TilesInv
  <2>6. \A d \in Cells : slice'.cells[d] = Free => slice.cells[d] = Free
    BY <1>11, <1>12 DEF InRotation
  <2> QED
    BY <1>3, <1>22, <2>4, <2>5, <2>6 DEF TilesInv
<1>24. TimersInv'
  <2>1. \A d \in Cells : Distilling(slice'.cells[d]) => Distilling(slice.cells[d])
    BY <1>11, <1>12 DEF Distilling, InRotation
  <2> QED
    BY <1>3, <1>15, <1>22, <2>1 DEF TimersInv
<1>25. Good(slice)'
  BY <1>10
<1>26. LatticeInv'
  BY <1>17, <1>19, <1>20, <1>21, <1>23, <1>24, <1>25
<1>27. \A j \in alive : \/ Rotating(j) /\ \E r \in busy, q \in busy' :
                             r.patch.id = j /\ q.patch.id = j /\ q.cell = r.cell
                        \/ ~Rotating(j) /\ ~Rotating(j)' /\ slice'.cache[j] = slice.cache[j]
                        \/ ~Rotating(j) /\ \E q \in busy' :
                             q.patch.id = j /\ q.cell = slice.cache[j]
                        \/ ~Rotating(j)' /\ \E r \in busy :
                             r.patch.id = j /\ slice'.cache[j] = r.cell
  <2> SUFFICES ASSUME NEW j \in alive
               PROVE  \/ Rotating(j) /\ \E r \in busy, q \in busy' :
                           r.patch.id = j /\ q.patch.id = j /\ q.cell = r.cell
                      \/ ~Rotating(j) /\ ~Rotating(j)' /\ slice'.cache[j] = slice.cache[j]
                      \/ ~Rotating(j) /\ \E q \in busy' :
                           q.patch.id = j /\ q.cell = slice.cache[j]
    OBVIOUS
  <2>1. CASE j = i
    BY <1>1, <1>3, <1>5, <1>14, <2>1
  <2>2. CASE j # i /\ Rotating(j)
    BY <1>3, <2>2 DEF Rotating
  <2>3. CASE j # i /\ ~Rotating(j)
    BY <1>13, <1>18, <2>3 DEF IdsInv
  <2> QED
    BY <2>1, <2>2, <2>3
<1>28. UNCHANGED alive
  BY <1>15
<1> QED
  BY <1>26, <1>27, <1>28, HomesStay

(***************************************************************************)
(* Only the bookkeeping of rotations changes: each is followed by one of   *)
(* the same region and patch.                                              *)
(***************************************************************************)
Follows(q, r) == q.cell = r.cell /\ q.neighbour = r.neighbour /\ q.patch = r.patch

LEMMA FollowingKeepsRegions ==
  ASSUME RegionsInv, IdsInv, UNCHANGED alive, busy' \subseteq Rotations,
         \A c \in Cells : InRotation(slice.cells[c]) => InRotation(slice'.cells[c]),
         \A i \in PatchIds : slice.cache[i] = Nowhere => slice'.cache[i] = Nowhere,
         \A q \in busy' : \E r \in busy : Follows(q, r),
         \A q1, q2 \in busy' : \A r \in busy : Follows(q1, r) /\ Follows(q2, r) => q1 = q2
  PROVE  RegionsInv'
<1>1. \A q \in busy' :
        /\ q.cell # q.neighbour
        /\ q.patch.type = "Qubit" /\ q.patch.id \in alive' /\ ~Done(q.patch)
        /\ Shaped(q.cell, q.patch) /\ slice'.cache[q.patch.id] = Nowhere
        /\ InRotation(slice'.cells[q.cell]) /\ InRotation(slice'.cells[q.neighbour])
  BY DEF RegionsInv, IdsInv, Rotations, Follows
<1>2. ASSUME NEW q1 \in busy', NEW q2 \in busy',
             q1.patch.id = q2.patch.id \/ Region(q1) \cap Region(q2) # {}
      PROVE  q1 = q2
  <2>1. PICK r1 \in busy : Follows(q1, r1)
    OBVIOUS
  <2>2. PICK r2 \in busy : Follows(q2, r2)
    OBVIOUS
  <2>3. r1 = r2
    BY <1>2, <2>1, <2>2 DEF RegionsInv, Region, Follows
  <2> QED
    BY <2>1, <2>2, <2>3
<1> QED
  BY <1>1, <1>2 DEF RegionsInv

\* What a rotation still waits for is nobody else's business.
LEMMA ContinueRotationSteps ==
  ASSUME LatticeInv, NEW r \in busy, ContinueRotation(r)
  PROVE  LatticeInv' /\ PlacementStep
<1> DEFINE s == [r EXCEPT !.steps_to_clear = @ - 1, !.due = FALSE]
<1>1. /\ r.steps_to_clear > 0 /\ busy' = (busy \ {r}) \cup {s}
      /\ UNCHANGED <<slice, magic_states, time_to_next, ystates_available, turn, alive, borrowed>>
  BY DEF ContinueRotation, stores, program
<1>2. busy \subseteq Rotations
  BY DEF LatticeInv, RegionsInv
<1>3. s \in Rotations /\ Follows(s, r)
  <2>1. r \in Rotations
    BY <1>2
  <2>2. r.steps_to_clear - 1 \in 0 .. 2
    BY <1>1, <2>1 DEF Rotations
  <2>3. s = [r EXCEPT !.steps_to_clear = r.steps_to_clear - 1, !.due = FALSE]
    BY <2>1 DEF Rotations
  <2>4. s \in Rotations /\ s.cell = r.cell /\ s.neighbour = r.neighbour /\ s.patch = r.patch
    BY <2>1, <2>2, <2>3 DEF Rotations
  <2> QED
    BY <2>4 DEF Follows
<1> HIDE DEF s
<1>4. \A q1, q2 \in busy : q1.patch.id = q2.patch.id => q1 = q2
  BY DEF LatticeInv, RegionsInv
<1>5. RegionsInv'
  <2>1. \A q \in busy' : \E q1 \in busy : Follows(q, q1)
    BY <1>1, <1>3 DEF Follows
  <2>2. \A q1, q2 \in busy' : \A q \in busy : Follows(q1, q) /\ Follows(q2, q) => q1 = q2
    <3> SUFFICES ASSUME NEW q1 \in busy', NEW q2 \in busy', q1.patch.id = q2.patch.id
                 PROVE  q1 = q2
      BY DEF Follows
    <3> QED
      BY <1>1, <1>3, <1>4 DEF Follows
  <2> QED
    BY <1>1, <1>2, <1>3, <2>1, <2>2, FollowingKeepsRegions DEF LatticeInv
<1>6. \A i \in PatchIds : Rotating(i)' <=> Rotating(i)
  BY <1>1, <1>3 DEF Rotating, Follows
<1>7. Good(slice)' /\ MagicInv' /\ TimersInv'
  BY <1>1 DEF LatticeInv, MagicInv, TimersInv
<1>8. IdsInv'
  BY <1>1, <1>6 DEF LatticeInv, IdsInv
<1>9. YStatesInv' /\ TilesInv'
  <2>1. \A q \in busy' : \E q1 \in busy : Follows(q, q1)
    BY <1>1, <1>3 DEF Follows
  <2>2. \A q1 \in busy : \E q \in busy' : Follows(q, q1)
    BY <1>1, <1>3 DEF Follows
  <2>3. YStatesInv'
    <3>1. \A c \in YStateCells :
            slice.cells[c].type = "Qubit" \/ \E q \in busy' : q.cell = c
      BY <2>2 DEF LatticeInv, YStatesInv, Follows
    <3>2. \A q \in busy' : /\ q.neighbour \notin YStateCells
                           /\ q.cell \in YStateCells => q.patch.id \in borrowed
                           /\ ~allow_twists /\ q.patch.id \in borrowed => q.cell \in YStateCells
      BY <2>1 DEF LatticeInv, YStatesInv, Follows
    <3> QED
      BY <1>1, <3>1, <3>2 DEF LatticeInv, YStatesInv
  <2>4. TilesInv'
    BY <1>1, <2>1 DEF LatticeInv, TilesInv, Follows
  <2> QED
    BY <2>3, <2>4
<1>10. LatticeInv'
  BY <1>5, <1>7, <1>8, <1>9 DEF LatticeInv
<1>11. alive \subseteq PatchIds
  BY DEF LatticeInv, IdsInv
<1>12. \A i \in alive : \/ Rotating(i) /\ \E q1 \in busy, q2 \in busy' :
                             q1.patch.id = i /\ q2.patch.id = i /\ q2.cell = q1.cell
                        \/ ~Rotating(i) /\ ~Rotating(i)' /\ slice'.cache[i] = slice.cache[i]
  <2> SUFFICES ASSUME NEW i \in alive, Rotating(i)
               PROVE  \E q1 \in busy, q2 \in busy' :
                        q1.patch.id = i /\ q2.patch.id = i /\ q2.cell = q1.cell
    BY <1>1, <1>6, <1>11
  <2>1. PICK q \in busy : q.patch.id = i
    BY DEF Rotating
  <2>2. CASE q = r
    BY <1>1, <1>3, <2>1, <2>2 DEF Follows
  <2>3. CASE q # r
    BY <1>1, <2>1, <2>3
  <2> QED
    BY <2>2, <2>3
<1>13. UNCHANGED alive
  BY <1>1
<1> QED
  BY <1>10, <1>12, <1>13, HomesStay

\* A patch is put back where it was lifted.
LEMMA EndRotationSteps ==
  ASSUME LatticeInv, NEW r \in busy, EndRotation(r)
  PROVE  LatticeInv' /\ PlacementStep
<1> USE DEF LatticeInv
<1> DEFINE c == r.cell
           n == r.neighbour
           p == r.patch
           i == r.patch.id
           t1 == clear_patch_at(slice, c)
           t2 == clear_patch_at(t1, n)
<1>1. /\ slice' = place_dense_patch_at(t2, c, p) /\ busy' = busy \ {r} /\ turn = 0
      /\ UNCHANGED <<magic_states, time_to_next, ystates_available, turn, alive, borrowed>>
  BY DEF EndRotation, stores, program
<1>2. /\ c \in Cells /\ n \in Cells /\ c # n /\ p \in Patch /\ p.id = i /\ Shaped(c, p)
      /\ p.type = "Qubit" /\ ~Done(p) /\ i \in alive /\ i \in PatchIds /\ i # NoId
      /\ slice.cache[i] = Nowhere
      /\ InRotation(slice.cells[c]) /\ InRotation(slice.cells[n])
  BY OptionalsAssumption DEF RegionsInv, Rotations, IdsInv
<1>3. Good(slice)
  OBVIOUS
<1>4. \A j \in PatchIds : j # NoId /\ slice.cache[j] # c /\ slice.cache[j] # n
  BY <1>2, <1>3, CacheContent, OptionalsAssumption DEF InRotation
<1> HIDE DEF c, n, p, i
<1>5. Becomes(slice, t1, c, Free)
  BY <1>2, <1>3, ClearingBecomes
<1>6. Good(t1)
  BY <1>5 DEF Becomes
<1> HIDE DEF t1
<1>7. Becomes(t1, t2, n, Free)
  BY <1>2, <1>6, ClearingBecomes
<1>8. Good(t2)
  BY <1>7 DEF Becomes
<1> HIDE DEF t2
<1>9. Becomes(t2, slice', c, p)
  BY <1>1, <1>2, <1>8, PlacingBecomes
<1>10. p # Free /\ IdOf(p) = i /\ IdOf(Free) = NoId
  BY <1>2, PatchParts DEF IdOf
<1>11. \A j \in PatchIds : t2.cache[j] = slice.cache[j]
  BY <1>4, <1>5, <1>7, <1>10 DEF Becomes
<1>12. /\ slice'.cells[c] = p /\ slice'.cells[n] = Free
       /\ \A d \in Cells : d # c /\ d # n => slice'.cells[d] = slice.cells[d]
  BY <1>2, <1>5, <1>7, <1>9 DEF Becomes
<1>13. /\ Good(slice') /\ slice'.cache[i] = c
       /\ \A j \in PatchIds : j # i => slice'.cache[j] = slice.cache[j]
  BY <1>2, <1>4, <1>9, <1>10, <1>11 DEF Becomes
<1>14. \A q \in busy' : /\ q \in busy /\ q.cell \in Cells /\ q.neighbour \in Cells
                        /\ q.cell # c /\ q.cell # n /\ q.neighbour # c /\ q.neighbour # n
                        /\ q.patch.id \in PatchIds /\ q.patch.id # i
  <2> SUFFICES ASSUME NEW q \in busy, q # r
               PROVE  /\ q.cell \in Cells /\ q.neighbour \in Cells
                      /\ q.cell # c /\ q.cell # n /\ q.neighbour # c /\ q.neighbour # n
                      /\ q.patch.id \in PatchIds /\ q.patch.id # i
    BY <1>1
  <2>1. q.patch.id # i /\ Region(q) \cap Region(r) = {}
    BY DEF RegionsInv, i
  <2> QED
    BY <2>1 DEF RegionsInv, Rotations, IdsInv, Region, c, n
<1>15. ~Rotating(i)' /\ \A j \in PatchIds : j # i => (Rotating(j)' <=> Rotating(j))
  <2>1. ~Rotating(i)'
    BY <1>14 DEF Rotating
  <2>2. ASSUME NEW j \in PatchIds, j # i
        PROVE  Rotating(j)' <=> Rotating(j)
    BY <1>1, <2>2 DEF Rotating, i
  <2> QED
    BY <2>1, <2>2
<1>16. RegionsInv'
  <2>1. busy' \subseteq Rotations
    BY <1>14 DEF RegionsInv
  <2>2. \A q \in busy' :
          /\ q.cell # q.neighbour
          /\ q.patch.type = "Qubit" /\ q.patch.id \in alive' /\ ~Done(q.patch)
          /\ Shaped(q.cell, q.patch) /\ slice'.cache[q.patch.id] = Nowhere
          /\ InRotation(slice'.cells[q.cell]) /\ InRotation(slice'.cells[q.neighbour])
    BY <1>1, <1>12, <1>13, <1>14 DEF RegionsInv
  <2>3. \A q1, q2 \in busy' :
          q1.patch.id = q2.patch.id \/ Region(q1) \cap Region(q2) # {} => q1 = q2
    BY <1>14 DEF RegionsInv
  <2> QED
    BY <2>1, <2>2, <2>3 DEF RegionsInv
<1>17. IdsInv'
  <2>1. \A d \in Cells : slice'.cells[d] # Free /\ slice'.cells[d].id # NoId
                           => slice'.cells[d].type = "Qubit"
    BY <1>2, <1>12 DEF IdsInv
  <2>2. \A j \in alive' :
          Rotating(j)' \/ (slice'.cache[j] \in Cells /\ ~Done(slice'.cells[slice'.cache[j]]))
    <3> SUFFICES ASSUME NEW j \in alive, ~Rotating(j)'
                 PROVE  slice'.cache[j] \in Cells /\ ~Done(slice'.cells[slice'.cache[j]])
      BY <1>1
    <3>1. CASE j = i
      BY <1>2, <1>12, <1>13, <3>1
    <3>2. CASE j # i
      <4>1. j \in PatchIds /\ ~Rotating(j)
        BY <1>15, <3>2 DEF IdsInv
      <4>2. slice.cache[j] \in Cells /\ ~Done(slice.cells[slice.cache[j]])
        BY <4>1 DEF IdsInv
      <4> QED
        BY <1>4, <1>12, <1>13, <3>2, <4>1, <4>2
    <3> QED
      BY <3>1, <3>2
  <2> QED
    BY <1>1, <2>1, <2>2 DEF IdsInv
<1>18. MagicInv'
  <2>1. /\ ~Prepared(slice.cells[c]) /\ ~Prepared(slice.cells[n])
        /\ ~Prepared(slice'.cells[c]) /\ ~Prepared(slice'.cells[n])
    BY <1>2, <1>12 DEF Prepared, InRotation
  <2> QED
    BY <1>1, <1>12, <2>1 DEF MagicInv
<1>19. YStatesInv'
  <2>1. YStateCells \subseteq Cells /\ n \notin YStateCells /\ (c \in YStateCells => i \in borrowed)
    BY YStatesAreCells DEF YStatesInv, c, n, i
  <2>2. \A d \in YStateCells :
          /\ slice'.cells[d] # Free /\ ~Done(slice'.cells[d])
          /\ slice'.cells[d].type = "Qubit" \/ \E q \in busy' : q.cell = d
          /\ slice'.cells[d].id # NoId =>
               /\ slice'.cells[d].id \in borrowed'
               /\ slice'.cache[slice'.cells[d].id] = d
    <3> SUFFICES ASSUME NEW d \in YStateCells
                 PROVE  /\ slice'.cells[d] # Free /\ ~Done(slice'.cells[d])
                        /\ slice'.cells[d].type = "Qubit" \/ \E q \in busy' : q.cell = d
                        /\ slice'.cells[d].id # NoId =>
                             /\ slice'.cells[d].id \in borrowed'
                             /\ slice'.cache[slice'.cells[d].id] = d
      OBVIOUS
    <3>1. CASE d = c
      BY <1>1, <1>2, <1>10, <1>12, <1>13, <2>1, <3>1
    <3>2. CASE d # c
      <4>1. d \in Cells /\ d # Nowhere /\ slice'.cells[d] = slice.cells[d]
        BY <1>12, <2>1, <3>2, OptionalsAssumption
      <4>2. slice.cells[d].id # NoId => slice.cells[d].id \in PatchIds /\ slice.cells[d].id # i
        BY <1>2, <4>1 DEF YStatesInv, IdsInv
      <4>3. slice.cells[d].type = "Qubit" \/ \E q \in busy' : q.cell = d
        BY <1>1, <3>2 DEF YStatesInv, c
      <4> QED
        BY <1>1, <1>13, <4>1, <4>2, <4>3 DEF YStatesInv
    <3> QED
      BY <3>1, <3>2
  <2>3. \A q \in busy' : q.neighbour \notin YStateCells
                         /\ (q.cell \in YStateCells => q.patch.id \in borrowed')
    BY <1>1, <1>14 DEF YStatesInv
  <2>4. ASSUME ~allow_twists
        PROVE  /\ \A j \in borrowed' : slice'.cache[j] # Nowhere => slice'.cache[j] \in YStateCells
               /\ \A q \in busy' : q.patch.id \in borrowed' => q.cell \in YStateCells
    <3>1. \A j \in borrowed : j \in PatchIds
                              /\ (slice.cache[j] # Nowhere => slice.cache[j] \in YStateCells)
      BY <2>4 DEF YStatesInv, IdsInv
    <3>2. i \in borrowed => c \in YStateCells
      BY <2>4 DEF YStatesInv, c, i
    <3>3. \A q \in busy : q.patch.id \in borrowed => q.cell \in YStateCells
      BY <2>4 DEF YStatesInv
    <3> QED
      BY <1>1, <1>13, <1>14, <3>1, <3>2, <3>3
  <2>5. {d \in YStateCells : Unborrowed(slice.cells[d])}
          = {d \in YStateCells : Unborrowed(slice'.cells[d])}
    <3>1. ~Unborrowed(slice.cells[c]) /\ ~Unborrowed(slice'.cells[c])
      BY <1>2, <1>12 DEF Unborrowed, InRotation
    <3> QED
      BY <1>12, <2>1, <3>1
  <2> QED
    BY <1>1, <2>2, <2>3, <2>4, <2>5 DEF YStatesInv
<1>20. magic_states_reserved => \A k \in Factories : reserved_for_magic_states[k] \in Cells
                                                     /\ reserved_for_magic_states[k] \in Tiles
  BY YStatesAreCells, InstancesAssumption DEF Tiles, Elements
<1>21. TilesInv'
  <2> SUFFICES ASSUME magic_states_reserved
               PROVE  TilesInv'
    BY DEF TilesInv
  <2>1. c \notin Tiles /\ n \notin Tiles
    BY DEF TilesInv, c, n
  <2>2. DOMAIN CoreHome \cup borrowed \subseteq PatchIds
    BY LayoutAssumption DEF IdsInv
  <2>3. \A j \in DOMAIN CoreHome \cup borrowed' : slice'.cache[j] \notin Tiles
    BY <1>1, <1>13, <2>1, <2>2 DEF TilesInv
  <2>4. \A q \in busy' : q.cell \notin Tiles /\ q.neighbour \notin Tiles
    BY <1>14 DEF TilesInv
  <2>5. \A k \in Factories : slice'.cells[reserved_for_magic_states[k]]
                               = slice.cells[reserved_for_magic_states[k]]
    BY <1>12, <1>20, <2>1
  <2> QED
    BY <1>1, <2>3, <2>4, <2>5 DEF TilesInv
<1>22. TimersInv'
  <2>1. \A d \in Cells : Distilling(slice'.cells[d]) => Distilling(slice.cells[d])
    BY <1>2, <1>12 DEF Distilling
  <2> QED
    BY <1>1, <1>20, <2>1 DEF TimersInv
<1>23. Good(slice)'
  BY <1>13
<1>24. LatticeInv'
  BY <1>16, <1>17, <1>18, <1>19, <1>21, <1>22, <1>23
<1>25. \A j \in alive : \/ Rotating(j) /\ \E q1 \in busy, q2 \in busy' :
                             q1.patch.id = j /\ q2.patch.id = j /\ q2.cell = q1.cell
                        \/ ~Rotating(j) /\ ~Rotating(j)' /\ slice'.cache[j] = slice.cache[j]
                        \/ ~Rotating(j)' /\ \E q1 \in busy :
                             q1.patch.id = j /\ slice'.cache[j] = q1.cell
  <2> SUFFICES ASSUME NEW j \in alive
               PROVE  \/ Rotating(j) /\ \E q1 \in busy, q2 \in busy' :
                           q1.patch.id = j /\ q2.patch.id = j /\ q2.cell = q1.cell
                      \/ ~Rotating(j) /\ ~Rotating(j)' /\ slice'.cache[j] = slice.cache[j]
                      \/ ~Rotating(j)' /\ \E q1 \in busy :
                           q1.patch.id = j /\ slice'.cache[j] = q1.cell
    OBVIOUS
  <2>1. CASE j = i
    BY <1>13, <1>15, <2>1 DEF i, c
  <2>2. CASE j # i /\ Rotating(j)
    BY <1>1, <2>2 DEF Rotating, i
  <2>3. CASE j # i /\ ~Rotating(j)
    BY <1>13, <1>15, <2>3 DEF IdsInv
  <2> QED
    BY <2>1, <2>2, <2>3
<1>26. UNCHANGED alive
  BY <1>1
<1> QED
  BY <1>24, <1>25, <1>26, HomesStay

-----------------------------------------------------------------------------
(* The end of a slice. *)

\* What the traversal of advance_slice leaves of a patch.
LEMMA SettledPatch ==
  ASSUME NEW p \in Patch, NEW c \in Cells, Shaped(c, p)
  PROVE  /\ Settled(p) \in Patch /\ Settled(p).type = p.type /\ Settled(p).id = p.id
         /\ Shaped(c, Settled(p)) /\ (Done(Settled(p)) => Done(p))
         /\ p.activity = "Rotation" => Settled(p).activity = "Rotation"
<1> DEFINE a == CASE p.activity = "Unitary" -> "None"
                  [] p.activity = "EDPC" -> "Reserved"
                  [] OTHER -> p.activity
           b == IF a \in {"Rotation", "Reserved"} THEN p.boundaries ELSE Deactivated(p.boundaries)
<1>1. /\ p.type \in PatchTypes /\ p.activity \in PatchActivities
      /\ p.id \in PatchIds \cup {NoId} /\ p.boundaries \in CellBoundaries
  BY PatchChanges
<1>2. a \in PatchActivities
  BY <1>1 DEF PatchActivities
<1>3. /\ a \in {"MultiPatchMeasurement", "Measurement"} => Done(p)
      /\ p.activity = "Rotation" => a = "Rotation"
  BY DEF Done
<1>4. /\ Deactivated(p.boundaries) \in CellBoundaries
      /\ Square(p.boundaries) => Square(Deactivated(p.boundaries))
  BY <1>1 DEF Deactivated, CellBoundaries, Boundary, boundary, Square
<1>5. Settled(p) = [p EXCEPT !.activity = a, !.boundaries = b]
  BY <1>1 DEF Settled, Patch
<1>6. b \in CellBoundaries /\ (Square(p.boundaries) => Square(b))
  BY <1>1, <1>4
<1> HIDE DEF a, b
<1>7. /\ Settled(p) \in Patch /\ Settled(p).type = p.type /\ Settled(p).id = p.id
      /\ Settled(p).activity = a /\ Settled(p).boundaries = b
  BY <1>1, <1>2, <1>5, <1>6 DEF Patch
<1> QED
  BY <1>3, <1>6, <1>7 DEF Shaped, Done

\* What is measured is cleared, and nothing that is alive, waits or rotates.
LEMMA AdvanceSliceSteps ==
  ASSUME LatticeInv, AdvanceSlice
  PROVE  LatticeInv' /\ PlacementStep
<1> USE DEF LatticeInv
<1> DEFINE left == [c \in Cells |-> IF IsFree(slice, c) THEN Free ELSE Settled(slice.cells[c])]
           cleared == {c \in Cells : ~IsFree(slice, c) /\ Done(slice.cells[c])}
           later(r) == [r EXCEPT !.due = TRUE]
<1>1. /\ turn = 0 /\ turn' = NextTurn
      /\ slice' = traverse_cells_mut(slice, left, cleared)
      /\ busy' = {later(r) : r \in busy}
      /\ UNCHANGED <<magic_states, time_to_next, ystates_available, alive, borrowed>>
  BY DEF AdvanceSlice, stores, program
<1>2. \A c \in Cells : IsFree(slice, c) => left[c] = Free
  OBVIOUS
<1>3. \A c \in Cells : ~IsFree(slice, c) =>
        /\ left[c] \in Patch /\ left[c] # Free /\ Shaped(c, left[c])
        /\ left[c].type = slice.cells[c].type /\ left[c].id = slice.cells[c].id
        /\ Done(left[c]) => Done(slice.cells[c])
        /\ slice.cells[c].activity = "Rotation" => left[c].activity = "Rotation"
        /\ Bears(slice, c) = slice.cells[c].id
  <2> SUFFICES ASSUME NEW c \in Cells, ~IsFree(slice, c)
               PROVE  /\ left[c] \in Patch /\ left[c] # Free /\ Shaped(c, left[c])
                      /\ left[c].type = slice.cells[c].type /\ left[c].id = slice.cells[c].id
                      /\ Done(left[c]) => Done(slice.cells[c])
                      /\ slice.cells[c].activity = "Rotation" => left[c].activity = "Rotation"
                      /\ Bears(slice, c) = slice.cells[c].id
    OBVIOUS
  <2>1. slice.cells[c] \in Patch /\ Shaped(c, slice.cells[c])
        /\ Bears(slice, c) = slice.cells[c].id
    BY CellContent
  <2>2. left[c] = Settled(slice.cells[c])
    OBVIOUS
  <2> QED
    BY <2>1, <2>2, SettledPatch, PatchParts
<1>4. left \in [Cells -> Patch \cup {Free}]
  <2>1. \A c \in Cells : left[c] \in Patch \cup {Free}
    BY <1>2, <1>3
  <2> QED
    BY <2>1
<1>5. \A c \in Cells : IdOf(left[c]) = Bears(slice, c)
  BY <1>2, <1>3 DEF IdOf, Bears
<1>6. \A c \in Cells : left[c] # Free => Shaped(c, left[c])
  BY <1>2, <1>3
<1>7. cleared \in SUBSET Cells /\ \A c \in cleared : ~IsFree(slice, c) /\ Done(slice.cells[c])
  OBVIOUS
<1>8. \A c \in Cells : ~Done(slice.cells[c]) => c \notin cleared
  OBVIOUS
<1> HIDE DEF left, cleared
<1>9. /\ Good(slice')
      /\ slice'.cache = [j \in PatchIds |-> IF slice.cache[j] \in cleared THEN Nowhere
                                            ELSE slice.cache[j]]
  <2>1. Good(slice)
    OBVIOUS
  <2> QED
    BY <1>1, <1>4, <1>5, <1>6, <1>7, <2>1, TraversedIsGood
<1>10. \A c \in Cells : slice'.cells[c] =
         IF IsFree(slice, c) \/ c \in cleared THEN Free ELSE left[c]
  BY <1>1 DEF traverse_cells_mut
<1>11. \A c \in Cells : slice'.cells[c] # Free =>
         /\ slice.cells[c] # Free
         /\ slice'.cells[c].type = slice.cells[c].type /\ slice'.cells[c].id = slice.cells[c].id
         /\ Done(slice'.cells[c]) => Done(slice.cells[c])
         /\ slice.cells[c].activity = "Rotation" => slice'.cells[c].activity = "Rotation"
  BY <1>3, <1>10 DEF IsFree
<1>12. \A c \in Cells : slice.cells[c] # Free /\ ~Done(slice.cells[c]) => slice'.cells[c] # Free
  BY <1>3, <1>8, <1>10 DEF IsFree
<1>13. \A j \in PatchIds : /\ slice'.cache[j] = slice.cache[j] \/ slice'.cache[j] = Nowhere
                           /\ slice.cache[j] \in Cells /\ ~Done(slice.cells[slice.cache[j]])
                                => slice'.cache[j] = slice.cache[j]
  BY <1>8, <1>9
<1>14. busy \subseteq Rotations
  BY DEF RegionsInv
<1>15. \A r \in busy : later(r) \in Rotations /\ Follows(later(r), r) /\ later(r) \in busy'
  BY <1>1, <1>14 DEF Rotations, Follows
<1>16. \A q \in busy' : \E r \in busy : q = later(r)
  BY <1>1
<1> HIDE DEF later
<1>17. \A q \in busy' : q \in Rotations /\ \E r \in busy : Follows(q, r)
  BY <1>15, <1>16
<1>18. RegionsInv'
  <2>1. \A c \in Cells : InRotation(slice.cells[c]) => InRotation(slice'.cells[c])
    <3> SUFFICES ASSUME NEW c \in Cells, InRotation(slice.cells[c])
                 PROVE  InRotation(slice'.cells[c])
      OBVIOUS
    <3>1. slice'.cells[c] # Free
      BY <1>12 DEF InRotation, Done
    <3> QED
      BY <1>11, <3>1 DEF InRotation
  <2>2. \A j \in PatchIds : slice.cache[j] = Nowhere => slice'.cache[j] = Nowhere
    BY <1>13
  <2>3. \A q1, q2 \in busy' : \A r \in busy : Follows(q1, r) /\ Follows(q2, r) => q1 = q2
    <3> SUFFICES ASSUME NEW q1 \in busy', NEW q2 \in busy', q1.patch = q2.patch
                 PROVE  q1 = q2
      BY DEF Follows
    <3>1. PICK r1 \in busy : q1 = later(r1)
      BY <1>16
    <3>2. PICK r2 \in busy : q2 = later(r2)
      BY <1>16
    <3>3. r1.patch.id = r2.patch.id
      BY <1>15, <3>1, <3>2 DEF Follows
    <3> QED
      BY <3>1, <3>2, <3>3 DEF RegionsInv
  <2>4. \A q \in busy' : \E r \in busy : Follows(q, r)
    BY <1>17
  <2>5. busy' \subseteq Rotations
    BY <1>17
  <2> QED
    BY <1>1, <2>1, <2>2, <2>3, <2>4, <2>5, FollowingKeepsRegions
<1>19. \A i \in PatchIds : Rotating(i)' <=> Rotating(i)
  BY <1>15, <1>17 DEF Rotating, Follows
<1>20. \A i \in alive : ~Rotating(i) =>
         i \in PatchIds /\ slice'.cache[i] = slice.cache[i] /\ slice.cache[i] \in Cells
         /\ slice.cells[slice.cache[i]] # Free /\ ~Done(slice.cells[slice.cache[i]])
  <2> SUFFICES ASSUME NEW i \in alive, ~Rotating(i)
               PROVE  i \in PatchIds /\ slice'.cache[i] = slice.cache[i] /\ slice.cache[i] \in Cells
                      /\ slice.cells[slice.cache[i]] # Free /\ ~Done(slice.cells[slice.cache[i]])
    OBVIOUS
  <2>1. i \in PatchIds /\ slice.cache[i] \in Cells /\ ~Done(slice.cells[slice.cache[i]])
    BY DEF IdsInv
  <2>2. Good(slice)
    OBVIOUS
  <2>3. ~IsFree(slice, slice.cache[i])
    BY <2>1, <2>2, CacheContent, OptionalsAssumption
  <2> QED
    BY <1>13, <2>1, <2>3 DEF IsFree
<1>21. IdsInv'
  <2>1. \A c \in Cells : slice'.cells[c] # Free /\ slice'.cells[c].id # NoId
                           => slice'.cells[c].type = "Qubit"
    BY <1>11 DEF IdsInv
  <2>2. \A i \in alive' :
          Rotating(i)' \/ (slice'.cache[i] \in Cells /\ ~Done(slice'.cells[slice'.cache[i]]))
    <3> SUFFICES ASSUME NEW i \in alive, ~Rotating(i)'
                 PROVE  slice'.cache[i] \in Cells /\ ~Done(slice'.cells[slice'.cache[i]])
      BY <1>1
    <3>1. ~Rotating(i)
      BY <1>19 DEF IdsInv
    <3> QED
      BY <1>11, <1>12, <1>20, <3>1
  <2> QED
    BY <1>1, <2>1, <2>2 DEF IdsInv
<1>22. MagicInv'
  <2>1. \A c \in Cells : Prepared(slice'.cells[c]) => Prepared(slice.cells[c])
    BY <1>11 DEF Prepared
  <2>2. \A c \in magic_states : c \in Cells /\ Prepared(slice'.cells[c]) /\ ~Done(slice'.cells[c])
    BY <1>11, <1>12 DEF MagicInv, Prepared
  <2> QED
    BY <1>1, <2>1, <2>2 DEF MagicInv
<1>23. YStatesInv'
  <2>1. YStateCells \subseteq Cells
    BY YStatesAreCells
  <2>2. \A d \in YStateCells :
          /\ slice'.cells[d] # Free /\ ~Done(slice'.cells[d])
          /\ slice'.cells[d].type = slice.cells[d].type /\ slice'.cells[d].id = slice.cells[d].id
    BY <1>11, <1>12, <2>1 DEF YStatesInv
  <2>3. \A d \in YStateCells : slice.cells[d].id # NoId =>
          slice'.cache[slice.cells[d].id] = d
    <3> SUFFICES ASSUME NEW d \in YStateCells, slice.cells[d].id # NoId
                 PROVE  slice'.cache[slice.cells[d].id] = d
      OBVIOUS
    <3>1. slice.cells[d].id \in PatchIds /\ slice.cache[slice.cells[d].id] = d
          /\ ~Done(slice.cells[d])
      BY DEF YStatesInv, IdsInv
    <3> QED
      BY <1>13, <2>1, <3>1
  <2>4. \A d \in YStateCells : slice.cells[d].type = "Qubit" \/ \E q \in busy' : q.cell = d
    <3>1. \A r \in busy : \E q \in busy' : q.cell = r.cell
      BY <1>15 DEF Follows
    <3> QED
      BY <3>1 DEF YStatesInv
  <2>5. \A q \in busy' : /\ q.neighbour \notin YStateCells
                         /\ q.cell \in YStateCells => q.patch.id \in borrowed
                         /\ ~allow_twists /\ q.patch.id \in borrowed => q.cell \in YStateCells
    BY <1>17 DEF YStatesInv, Follows
  <2>6. ~allow_twists => \A i \in borrowed : slice'.cache[i] # Nowhere
                                               => slice'.cache[i] \in YStateCells
    BY <1>13 DEF YStatesInv, IdsInv
  <2>7. {d \in YStateCells : Unborrowed(slice.cells[d])}
          = {d \in YStateCells : Unborrowed(slice'.cells[d])}
    BY <2>2 DEF Unborrowed
  <2>8. \A d \in YStateCells : slice.cells[d].id # NoId => slice.cells[d].id \in borrowed
    BY DEF YStatesInv
  <2>9. ystates_available' = Cardinality({d \in YStateCells : Unborrowed(slice'.cells[d])})
    BY <1>1, <2>7 DEF YStatesInv
  <2> HIDE DEF LatticeInv
  <2> QED
    BY <1>1, <2>2, <2>3, <2>4, <2>5, <2>6, <2>8, <2>9 DEF YStatesInv
<1>24. /\ turn' \in 0 .. Len(distillation_times)
       /\ \A k \in Factories : turn' \in 1 .. k
  <2>1. turn \in 0 .. Len(distillation_times)
    BY DEF TimersInv
  <2>2. /\ NextTurn \in 0 .. Len(distillation_times)
        /\ Factories = 1 .. Len(distillation_times)
        /\ turn # Len(distillation_times) => NextTurn = turn + 1
    BY <2>1, NextTurnIs
  <2> QED
    BY <1>1, <2>1, <2>2
<1>25. TilesInv'
  <2> SUFFICES ASSUME magic_states_reserved
               PROVE  TilesInv'
    BY DEF TilesInv
  <2>1. Nowhere \notin Tiles /\ DOMAIN CoreHome \cup borrowed \subseteq PatchIds
    BY YStatesAreCells, OptionalsAssumption, LayoutAssumption DEF IdsInv
  <2>2. \A j \in DOMAIN CoreHome \cup borrowed' : slice'.cache[j] \notin Tiles
    BY <1>1, <1>13, <2>1 DEF TilesInv
  <2>3. \A q \in busy' : q.cell \notin Tiles /\ q.neighbour \notin Tiles
    BY <1>17 DEF TilesInv, Follows
  <2> QED
    BY <1>24, <2>2, <2>3 DEF TilesInv
<1>26. TimersInv'
  <2>1. magic_states_reserved => \A k \in Factories : reserved_for_magic_states[k] \in Cells
    BY YStatesAreCells, InstancesAssumption DEF Tiles, Elements
  <2>2. \A d \in Cells : Distilling(slice'.cells[d]) => Distilling(slice.cells[d])
    BY <1>11 DEF Distilling
  <2> QED
    BY <1>1, <1>24, <2>1, <2>2 DEF TimersInv
<1>27. Good(slice)'
  BY <1>9
<1>28. LatticeInv'
  BY <1>18, <1>21, <1>22, <1>23, <1>25, <1>26, <1>27
<1>29. \A i \in alive : \/ Rotating(i) /\ \E r \in busy, q \in busy' :
                             r.patch.id = i /\ q.patch.id = i /\ q.cell = r.cell
                        \/ ~Rotating(i) /\ ~Rotating(i)' /\ slice'.cache[i] = slice.cache[i]
  <2> SUFFICES ASSUME NEW i \in alive
               PROVE  \/ Rotating(i) /\ \E r \in busy, q \in busy' :
                           r.patch.id = i /\ q.patch.id = i /\ q.cell = r.cell
                      \/ ~Rotating(i) /\ ~Rotating(i)' /\ slice'.cache[i] = slice.cache[i]
    OBVIOUS
  <2>1. CASE Rotating(i)
    <3>1. PICK r \in busy : r.patch.id = i
      BY <2>1 DEF Rotating
    <3> QED
      BY <1>15, <2>1, <3>1 DEF Follows
  <2>2. CASE ~Rotating(i)
    BY <1>19, <1>20, <2>2
  <2> QED
    BY <2>1, <2>2
<1>30. UNCHANGED alive
  BY <1>1
<1> QED
  BY <1>28, <1>29, <1>30, HomesStay

-----------------------------------------------------------------------------
(* The invariant of every program on every layout. *)

\* What the constructor puts on a cell.
LEMMA InitialPatchIs ==
  ASSUME NEW c \in Cells
  PROVE  /\ InitialPatch(c) # Free =>
              /\ ~Done(InitialPatch(c)) /\ InitialPatch(c).type # "PreparedState"
              /\ InitialPatch(c).id # NoId => InitialPatch(c).type = "Qubit"
         /\ c \in YStateCells =>
              InitialPatch(c) # Free /\ InitialPatch(c).type = "Qubit" /\ InitialPatch(c).id = NoId
         /\ c \in FactoryCells => InitialPatch(c) # Free
<1>1. InitialPatch(c) \in Patch \cup {Free}
  BY InitialPatchIsShaped
<1>2. \A i \in PatchIds \cup {NoId} :
        /\ basic_square_patch(i) # Free /\ ~Done(basic_square_patch(i))
        /\ basic_square_patch(i).type = "Qubit" /\ basic_square_patch(i).id = i
  BY BasicSquarePatch, PatchParts DEF Done
<1>3. \A b : \A kind \in {"Dead", "Distillation"} :
        LET q == Tile(kind, b)
        IN q.type = kind /\ q.id = NoId /\ ~Done(q)
  BY DEF Tile, Named, Done
<1>4. CASE \E i \in DOMAIN CoreHome : CoreHome[i] = c
  <2> DEFINE owner == CHOOSE i \in DOMAIN CoreHome : CoreHome[i] = c
  <2>1. owner \in DOMAIN CoreHome /\ CoreHome[owner] = c
    BY <1>4
  <2>2. owner \in PatchIds /\ c \notin YStateCells
    BY <2>1, LayoutAssumption
  <2>3. InitialPatch(c) = basic_square_patch(owner)
    BY <1>4 DEF InitialPatch
  <2> HIDE DEF owner
  <2> QED
    BY <1>2, <2>2, <2>3
<1>5. CASE ~(\E i \in DOMAIN CoreHome : CoreHome[i] = c) /\ c \in DeadCells
  <2>1. InitialPatch(c) = Tile("Dead", Uniform("Connected"))
    BY <1>5 DEF InitialPatch
  <2>2. Tile("Dead", Uniform("Connected")) \in Patch
    BY DEF Tile, Uniform, Named, Patch, PatchTypes, PatchActivities, CellBoundaries,
           Boundary, BoundaryTypes, boundary
  <2>3. c \notin YStateCells
    BY <1>5, InstancesAssumption
  <2> QED
    BY <1>3, <2>1, <2>2, <2>3, PatchParts
<1>6. CASE ~(\E i \in DOMAIN CoreHome : CoreHome[i] = c) /\ c \notin DeadCells
           /\ c \in FactoryCells
  <2>1. InitialPatch(c) = Tile("Distillation", FactoryTiles[c])
    BY <1>6 DEF InitialPatch
  <2>2. FactoryTiles[c] \in CellBoundaries
    BY <1>6, LayoutAssumption
  <2>3. Tile("Distillation", FactoryTiles[c]) \in Patch
    BY <2>2 DEF Tile, Named, Patch, PatchTypes, PatchActivities
  <2>4. c \notin YStateCells
    BY <1>6, InstancesAssumption
  <2> QED
    BY <1>3, <2>1, <2>3, <2>4, PatchParts
<1>7. CASE ~(\E i \in DOMAIN CoreHome : CoreHome[i] = c) /\ c \notin DeadCells
           /\ c \notin FactoryCells
  <2>1. InitialPatch(c) = IF c \in YStateCells THEN basic_square_patch(NoId) ELSE Free
    BY <1>7 DEF InitialPatch
  <2> QED
    BY <1>2, <1>7, <2>1
<1> QED
  BY <1>4, <1>5, <1>6, <1>7

LEMMA LatticeStarts ==
  ASSUME LatticeInit
  PROVE  LatticeInv /\ Placement!Init
<1>1. /\ SliceInit /\ magic_states = {} /\ time_to_next = distillation_times
      /\ ystates_available = Cardinality(YStateCells) /\ busy = {} /\ turn = 0
      /\ alive = DOMAIN CoreHome /\ borrowed = {}
  BY DEF LatticeInit
<1>2. Good(slice) /\ \A i \in PatchIds, c \in Cells : slice.cache[i] = c <=> Bears(slice, c) = i
  BY <1>1, ConstructedIsGood
<1>3. /\ \A c \in Cells : slice.cells[c] = InitialPatch(c)
      /\ \A i \in PatchIds : slice.cache[i] = IF i \in DOMAIN CoreHome THEN CoreHome[i]
                                              ELSE Nowhere
  BY <1>1 DEF SliceInit
<1>4. /\ DOMAIN CoreHome \subseteq PatchIds
      /\ \A i \in DOMAIN CoreHome : CoreHome[i] \in Cells /\ CoreHome[i] \notin FactoryCells
      /\ \A i, j \in DOMAIN CoreHome : CoreHome[i] = CoreHome[j] => i = j
  BY LayoutAssumption
<1>5. \A i \in DOMAIN CoreHome :
        slice.cache[i] = CoreHome[i] /\ slice.cells[CoreHome[i]] # Free
  <2> SUFFICES ASSUME NEW i \in DOMAIN CoreHome
               PROVE  slice.cache[i] = CoreHome[i] /\ slice.cells[CoreHome[i]] # Free
    OBVIOUS
  <2>1. i \in PatchIds /\ slice.cache[i] = CoreHome[i] /\ CoreHome[i] # Nowhere
    BY <1>3, <1>4, OptionalsAssumption
  <2> QED
    BY <1>2, <2>1, CacheContent DEF IsFree
<1>6. RegionsInv
  BY <1>1 DEF RegionsInv
<1>7. IdsInv
  BY <1>1, <1>3, <1>4, <1>5, InitialPatchIs DEF IdsInv
<1>8. MagicInv
  BY <1>1, <1>3, InitialPatchIs DEF MagicInv, Prepared
<1>9. YStatesInv
  <2>1. YStateCells \subseteq Cells
    BY YStatesAreCells
  <2>2. \A c \in YStateCells : /\ slice.cells[c] # Free /\ ~Done(slice.cells[c])
                               /\ slice.cells[c].type = "Qubit" /\ slice.cells[c].id = NoId
    BY <1>3, <2>1, InitialPatchIs
  <2>3. {c \in YStateCells : Unborrowed(slice.cells[c])} = YStateCells
    BY <2>2 DEF Unborrowed
  <2> QED
    BY <1>1, <2>2, <2>3 DEF YStatesInv
<1>10. \A k \in Factories : magic_states_reserved =>
         /\ reserved_for_magic_states[k] \in Cells
         /\ slice.cells[reserved_for_magic_states[k]] # Free
  <2>1. \A c \in Tiles : c \in Cells /\ slice.cells[c] # Free
    BY <1>3, YStatesAreCells, InitialPatchIs
  <2> QED
    BY <2>1, InstancesAssumption DEF Tiles, Elements
<1>11. TilesInv
  BY <1>1, <1>3, <1>4, <1>5, <1>10, YStatesAreCells DEF TilesInv
<1>12. TimersInv
  <2>1. distillation_times \in Seq(0 .. TimestepValues - 1) /\ TimestepValues \in Nat
    BY InstancesAssumption
  <2>2. distillation_times \in [Factories -> 0 .. TimestepValues - 1]
    BY <2>1 DEF Factories
  <2>3. 0 \in 0 .. Len(distillation_times)
    BY <2>1
  <2> QED
    BY <1>1, <2>2, <2>3 DEF TimersInv
<1>13. LatticeInv
  BY <1>2, <1>6, <1>7, <1>8, <1>9, <1>11, <1>12 DEF LatticeInv
<1>14. \A i \in PatchIds : Home(i) = IF i \in DOMAIN CoreHome THEN CoreHome[i] ELSE Nowhere
  <2>1. \A i \in PatchIds : ~Rotating(i)
    BY <1>1 DEF Rotating
  <2> QED
    BY <1>1, <1>5, <1>13, <2>1, HomeIs DEF LatticeInv
<1>15. Placement!Init
  <2>1. Homes \in [PatchIds -> Cells \cup {Nowhere}]
    BY <1>4, <1>14 DEF Homes
  <2>2. \A i, j \in PatchIds : Homes[i] = Homes[j] /\ Homes[i] # Nowhere => i = j
    BY <1>4, <1>14 DEF Homes
  <2>3. alive = {i \in PatchIds : Homes[i] # Nowhere}
    BY <1>1, <1>4, <1>14, OptionalsAssumption DEF Homes
  <2> QED
    BY <2>1, <2>2, <2>3 DEF Placement!Init, Placement!Exclusive, Homes
<1> QED
  BY <1>13, <1>15

LEMMA LatticeSteps ==
  ASSUME RespawnIsSafe, YStatesStay, LatticeInv, [LatticeNext]_vars
  PROVE  LatticeInv' /\ PlacementStep
<1>1. ASSUME NEW i \in PatchIds,
             \/ MeasureSinglePatch(i) \/ Hadamard(i) \/ SGate(i)
             \/ PatchInit(i) \/ RotatePatch(i) \/ GiveBackYState(i)
      PROVE  LatticeInv' /\ PlacementStep
  <2>1. CASE MeasureSinglePatch(i)
    BY <2>1, MeasureSinglePatchSteps
  <2>2. CASE Hadamard(i)
    BY <2>2, HadamardSteps
  <2>3. CASE SGate(i)
    BY <2>3, SGateSteps
  <2>4. CASE PatchInit(i)
    BY <2>4, PatchInitSteps
  <2>5. CASE RotatePatch(i)
    BY <2>5, RotatePatchSteps
  <2>6. CASE GiveBackYState(i)
    BY <2>6, GiveBackYStateSteps
  <2> QED
    BY <1>1, <2>1, <2>2, <2>3, <2>4, <2>5, <2>6
<1>2. ASSUME NEW i \in PatchIds, NEW near \in PatchIds,
             \/ \E op \in {"X", "Z"} : PatchInitNextTo(i, near, op)
             \/ RequestMagicState(i, near)
             \/ BorrowYState(i, near)
             \/ PrepareYState(i, near)
             \/ \E op1, op2 \in {"X", "Z"} : MeasureMultiPatch(i, op1, near, op2)
      PROVE  LatticeInv' /\ PlacementStep
  <2>1. ASSUME NEW op \in {"X", "Z"}, PatchInitNextTo(i, near, op)
        PROVE  LatticeInv' /\ PlacementStep
    BY <2>1, PatchInitNextToSteps
  <2>2. CASE RequestMagicState(i, near)
    BY <2>2, RequestMagicStateSteps
  <2>3. CASE BorrowYState(i, near)
    BY <2>3, BorrowYStateSteps
  <2>4. CASE PrepareYState(i, near)
    BY <2>4, PrepareYStateSteps
  <2>5. ASSUME NEW op1 \in {"X", "Z"}, NEW op2 \in {"X", "Z"},
               MeasureMultiPatch(i, op1, near, op2)
        PROVE  LatticeInv' /\ PlacementStep
    BY <2>5, MeasureMultiPatchSteps
  <2> QED
    BY <1>2, <2>1, <2>2, <2>3, <2>4, <2>5
<1>3. ASSUME NEW r \in busy, ContinueRotation(r) \/ EndRotation(r)
      PROVE  LatticeInv' /\ PlacementStep
  BY <1>3, ContinueRotationSteps, EndRotationSteps
<1>4. CASE AdvanceSlice
  BY <1>4, AdvanceSliceSteps
<1>5. CASE Distil
  BY <1>5, DistilSteps
<1>6. CASE Respawn
  BY <1>6, RespawnSteps
<1>7. CASE UNCHANGED vars
  <2>1. /\ UNCHANGED <<slice, magic_states, time_to_next, ystates_available, busy, turn,
                       alive, borrowed>>
    BY <1>7 DEF vars
  <2>2. Good(slice)' /\ RegionsInv' /\ IdsInv' /\ MagicInv' /\ YStatesInv'
    BY <2>1, IdleTurnKeeps DEF program
  <2>3. TilesInv' /\ TimersInv'
    BY <2>1 DEF LatticeInv, TilesInv, TimersInv
  <2>4. LatticeInv'
    BY <2>2, <2>3 DEF LatticeInv
  <2> QED
    BY <2>1, <2>4, TurnKeepsHomes DEF program
<1> QED
  BY <1>1, <1>2, <1>3, <1>4, <1>5, <1>6, <1>7 DEF LatticeNext

LEMMA LatticeCorrect ==
  ASSUME RespawnIsSafe, YStatesStay
  PROVE  LatticeSpec => []LatticeInv
<1>1. LatticeInit => LatticeInv
  BY LatticeStarts
<1>2. LatticeInv /\ [LatticeNext]_vars => LatticeInv'
  BY LatticeSteps
<1> QED
  BY <1>1, <1>2, PTL DEF LatticeSpec

(***************************************************************************)
(* Patches are whole under whole instructions, and the counter of Y states *)
(* stays between none and all.  No timer exceeds its time or runs below    *)
(* its last value, except those with a time of zero, which wrap.           *)
(***************************************************************************)
THEOREM LatticeIsTyped ==
  ASSUME RespawnIsSafe, YStatesStay
  PROVE  LatticeSpec => []LatticeTypeOK
<1>1. LatticeInv => LatticeTypeOK
  <2> SUFFICES ASSUME LatticeInv PROVE LatticeTypeOK
    OBVIOUS
  <2>1. SliceTypeOK
    BY DEF LatticeInv, Good, ShapedCells, SliceTypeOK
  <2>2. magic_states \subseteq Cells /\ busy \subseteq Rotations
        /\ turn \in 0 .. Len(distillation_times)
        /\ borrowed \subseteq alive /\ alive \subseteq PatchIds
    BY DEF LatticeInv, MagicInv, RegionsInv, TimersInv, IdsInv
  <2>3. \A k \in Factories : distillation_times[k] # 0 =>
          time_to_next[k] \in (IF magic_states_reserved THEN 0 ELSE 1) .. distillation_times[k]
    <3>1. turn \in 0 .. Len(distillation_times)
      BY <2>2
    <3>2. TimestepValues \in Nat
          /\ \A k \in Factories : distillation_times[k] \in 0 .. TimestepValues - 1
      BY <3>1, NextTurnIs, InstancesAssumption
    <3> QED
      BY <3>2 DEF LatticeInv, TimersInv
  <2>4. ystates_available \in 0 .. Cardinality(YStateCells)
    <3> DEFINE idle == {c \in YStateCells : Unborrowed(slice.cells[c])}
    <3>1. IsFiniteSet(YStateCells) /\ idle \in SUBSET YStateCells
      BY YStatesAreCells
    <3>2. ystates_available = Cardinality(idle)
      BY DEF LatticeInv, YStatesInv
    <3> HIDE DEF idle
    <3>3. IsFiniteSet(idle) /\ Cardinality(idle) <= Cardinality(YStateCells)
      BY <3>1, FS_Subset
    <3>4. Cardinality(idle) \in Nat /\ Cardinality(YStateCells) \in Nat
      BY <3>1, <3>3, FS_CardinalityType
    <3> QED
      BY <3>2, <3>3, <3>4
  <2> QED
    BY <2>1, <2>2, <2>3, <2>4 DEF LatticeTypeOK, Rotations, LatticeInv, TimersInv
<1> QED
  BY <1>1, LatticeCorrect, PTL

(***************************************************************************)
(* The set of magic states is what is on the lattice, whatever factories,  *)
(* requests and routes do in whatever order.                               *)
(***************************************************************************)
THEOREM MagicStatesAreKnown ==
  ASSUME RespawnIsSafe, YStatesStay
  PROVE  LatticeSpec => []MagicStatesKnown
<1>1. LatticeInv => MagicStatesKnown
  BY DEF LatticeInv, MagicInv, Prepared, MagicStatesKnown, IsFree
<1> QED
  BY <1>1, LatticeCorrect, PTL

(***************************************************************************)
(* The counter of Y states is the number of those that nobody has, and     *)
(* none is ever missing where a request looks for it.                      *)
(***************************************************************************)
THEOREM YStatesAreCounted ==
  ASSUME RespawnIsSafe, YStatesStay
  PROVE  LatticeSpec => []YStatesCounted
<1>1. LatticeInv => YStatesCounted
  BY DEF LatticeInv, YStatesInv, Unborrowed, YStatesCounted, IsFree
<1> QED
  BY <1>1, LatticeCorrect, PTL

(***************************************************************************)
(* The cells of a rotation are its own until it ends: what the BusyRegion  *)
(* case and clear_routing_region assert.                                   *)
(***************************************************************************)
THEOREM RotationsAreIntact ==
  ASSUME RespawnIsSafe, YStatesStay
  PROVE  LatticeSpec => []RotationsIntact
<1>1. LatticeInv => RotationsIntact
  BY DEF LatticeInv, RegionsInv, InRotation, RotationsIntact, IsFree
<1> QED
  BY <1>1, LatticeCorrect, PTL

(***************************************************************************)
(* The application of instructions keeps what PatchPlacement promises: a   *)
(* patch that came to life has a cell of its own until the program gives   *)
(* it up.                                                                  *)
(***************************************************************************)
THEOREM LatticeKeepsPatches ==
  ASSUME RespawnIsSafe, YStatesStay
  PROVE  LatticeSpec => KeepsPatches
<1>1. LatticeInit => Placement!Init
  BY LatticeStarts
<1>2. LatticeInv /\ [LatticeNext]_vars =>
        [Placement!Next]_<<[i \in PatchIds |-> Home(i)], alive>>
  BY LatticeSteps DEF PlacementStep, Homes
<1> QED
  BY <1>1, <1>2, LatticeCorrect, PTL DEF LatticeSpec, KeepsPatches, Placement!Spec

-----------------------------------------------------------------------------
(* Routes. *)

\* Sides of a cell lead to different cells, and back.
LEMMA SidesLeadApart ==
  ASSUME NEW c \in Cells, NEW d \in Directions
  PROVE  /\ \A e \in Directions : Beyond(c, d) = Beyond(c, e) => d = e
         /\ Opposite(d) \in Directions /\ Opposite(Opposite(d)) = d
         /\ Beyond(Beyond(c, d), Opposite(d)) = c
         /\ Between(c, Beyond(c, d)) = d
<1>1. c[1] \in Int /\ c[2] \in Int /\ c = <<c[1], c[2]>>
  BY CellParts
<1>2. \A e \in Directions : Beyond(c, d) = Beyond(c, e) => d = e
  BY <1>1 DEF Beyond, Directions
<1>3. Opposite(d) \in Directions /\ Opposite(Opposite(d)) = d
  BY DEF Opposite, Directions
<1>4. Beyond(Beyond(c, d), Opposite(d)) = c
  BY <1>1 DEF Beyond, Opposite, Directions
<1>5. Between(c, Beyond(c, d)) = d
  BY <1>2 DEF Between
<1> QED
  BY <1>2, <1>3, <1>4, <1>5

\* A lattice has finitely many cells.
LEMMA FiniteLattice == IsFiniteSet(Cells) /\ Cardinality(Cells) \in Nat
<1>1. 0 \in Int /\ furthest_cell[1] \in Int /\ furthest_cell[2] \in Int
  BY LayoutAssumption
<1>2. IsFiniteSet(0 .. furthest_cell[1]) /\ IsFiniteSet(0 .. furthest_cell[2])
  BY <1>1, FS_Interval
<1>3. IsFiniteSet(Cells)
  BY <1>2, FS_Product DEF Cells
<1> QED
  BY <1>3, FS_CardinalityType

\* The paths of n cells, without recursion.
PathsOf(n) ==
  {p \in [1 .. n -> Cells] :
     /\ \A j, k \in 1 .. n : p[j] = p[k] => j = k
     /\ \A k \in 1 .. (n - 1) : Adjacent(p[k], p[k + 1])}

\* A path of n cells, and a cell beside its last one that is not on it.
Longer(paths, n) ==
  {q \in paths \X Cells : Adjacent(q[1][n - 1], q[2]) /\ q[2] \notin Elements(q[1])}

Lengthened(paths, n) == {Append(p[1], p[2]) : p \in Longer(paths, n)}

\* The paths of n + 1 cells are those of n with one more cell.
LEMMA PathsGrow ==
  ASSUME NEW n \in Nat \ {0}
  PROVE  PathsOf(n + 1) = Lengthened(PathsOf(n), n + 1)
<1> DEFINE More == Longer(PathsOf(n), n + 1)
<1>1. ASSUME NEW v \in PathsOf(n + 1)
      PROVE  \E w \in More : v = Append(w[1], w[2])
  <2> DEFINE u == [k \in 1 .. n |-> v[k]]
  <2>1. v \in [1 .. n + 1 -> Cells]
    BY DEF PathsOf
  <2>2. u \in [1 .. n -> Cells] /\ v[n + 1] \in Cells
    BY <2>1
  <2>3. u \in PathsOf(n)
    BY <2>2 DEF PathsOf
  <2>4. v[n + 1] \notin Elements(u)
    BY DEF PathsOf, Elements
  <2>5. Adjacent(u[n], v[n + 1])
    BY DEF PathsOf
  <2>6. <<u, v[n + 1]>> \in More
    <3> HIDE DEF u
    <3>1. <<u, v[n + 1]>> \in PathsOf(n) \X Cells
      BY <2>2, <2>3
    <3>2. <<u, v[n + 1]>>[1] = u /\ <<u, v[n + 1]>>[2] = v[n + 1] /\ n + 1 - 1 = n
      OBVIOUS
    <3> QED
      BY <2>4, <2>5, <3>1, <3>2 DEF Longer
  <2>7. v = Append(u, v[n + 1])
    <3>1. u \in Seq(Cells) /\ Len(u) = n
      BY <2>2
    <3>2. Append(u, v[n + 1]) = [k \in 1 .. n + 1 |-> IF k <= n THEN u[k] ELSE v[n + 1]]
      BY <2>2, <3>1
    <3>3. v = [k \in 1 .. n + 1 |-> v[k]]
      BY <2>1
    <3>4. \A k \in 1 .. n + 1 : v[k] = IF k <= n THEN u[k] ELSE v[n + 1]
      OBVIOUS
    <3> HIDE DEF u
    <3> QED
      BY <3>2, <3>3, <3>4
  <2> HIDE DEF u, More
  <2> QED
    BY <2>6, <2>7
<1>2. ASSUME NEW w \in More
      PROVE  Append(w[1], w[2]) \in PathsOf(n + 1)
  <2> DEFINE a == w[1]
             b == w[2]
             v == Append(a, b)
  <2>1. /\ a \in [1 .. n -> Cells] /\ b \in Cells
        /\ \A j, k \in 1 .. n : a[j] = a[k] => j = k
        /\ \A k \in 1 .. (n - 1) : Adjacent(a[k], a[k + 1])
        /\ \A k \in 1 .. n : a[k] # b
        /\ Adjacent(a[n], b)
    <3>1. w[1] \in PathsOf(n) /\ w[2] \in Cells /\ Adjacent(w[1][n], w[2])
          /\ w[2] \notin Elements(w[1])
      BY DEF Longer
    <3>2. DOMAIN w[1] = 1 .. n
      BY <3>1 DEF PathsOf
    <3> QED
      BY <3>1, <3>2 DEF PathsOf, Elements
  <2> HIDE DEF a, b, More
  <2>2. a \in Seq(Cells) /\ Len(a) = n
    BY <2>1
  <2>3. /\ v \in Seq(Cells) /\ Len(v) = n + 1
        /\ \A k \in 1 .. n : v[k] = a[k]
        /\ v[n + 1] = b
    BY <2>1, <2>2, AppendProperties
  <2> HIDE DEF v
  <2>4. v \in [1 .. n + 1 -> Cells]
    BY <2>3, LenProperties
  <2>5. \A j, k \in 1 .. n + 1 : v[j] = v[k] => j = k
    <3> SUFFICES ASSUME NEW j \in 1 .. n + 1, NEW k \in 1 .. n + 1, v[j] = v[k]
                 PROVE  j = k
      OBVIOUS
    <3>1. CASE j <= n /\ k <= n
      BY <2>1, <2>3, <3>1
    <3>2. CASE j = n + 1 \/ k = n + 1
      BY <2>1, <2>3, <3>2
    <3> QED
      BY <3>1, <3>2
  <2>6. \A k \in 1 .. n : Adjacent(v[k], v[k + 1])
    <3> TAKE k \in 1 .. n
    <3>1. CASE k < n
      BY <2>1, <2>3, <3>1
    <3>2. CASE k = n
      BY <2>1, <2>3, <3>2
    <3> QED
      BY <3>1, <3>2
  <2>7. v \in PathsOf(n + 1)
    BY <2>4, <2>5, <2>6 DEF PathsOf
  <2> QED
    BY <2>7 DEF v, a, b
<1> QED
  BY <1>1, <1>2 DEF Lengthened

\* A function on 1 .. n is a sequence of n elements.
LEMMA FunctionIsSequence ==
  ASSUME NEW n \in Nat, NEW p \in [1 .. n -> Cells]
  PROVE  p \in Seq(Cells) /\ Len(p) = n
OBVIOUS

\* The paths of one cell.
LEMMA ShortestPaths == PathsOf(1) = {<<c>> : c \in Cells}
<1>1. ASSUME NEW p \in PathsOf(1)
      PROVE  p[1] \in Cells /\ p = <<p[1]>>
  <2>1. p \in [1 .. 1 -> Cells]
    BY DEF PathsOf
  <2>2. p \in Seq(Cells) /\ Len(p) = 1
    BY <2>1, 1 \in Nat, FunctionIsSequence
  <2>3. <<p[1]>> \in Seq(Cells) /\ Len(<<p[1]>>) = 1 /\ <<p[1]>>[1] = p[1]
    BY <2>1
  <2> QED
    BY <2>1, <2>2, <2>3, SeqEqual
<1>2. ASSUME NEW c \in Cells
      PROVE  <<c>> \in PathsOf(1)
  <2>1. <<c>> \in [1 .. 1 -> Cells]
    OBVIOUS
  <2>2. \A j \in 1 .. 1 : j = 1
    OBVIOUS
  <2> QED
    BY <2>1, <2>2 DEF PathsOf
<1> QED
  BY <1>1, <1>2

\* The paths of the model are these.
LEMMA PathsAre ==
  ASSUME NEW p \in AllPaths
  PROVE  \E n \in Nat \ {0} : p \in PathsOf(n)
<1> DEFINE C == Cardinality(Cells)
           Solves(f) == f = [n \in 1 .. C |-> IF n = 1 THEN {<<c>> : c \in Cells}
                                              ELSE Lengthened(f[n - 1], n)]
           P == [n \in 1 .. C |-> PathsOf(n)]
<1>1. C \in Nat
  BY FiniteLattice
<1>2. Paths = CHOOSE f : Solves(f)
  BY DEF Paths, Lengthened, Longer
<1> HIDE DEF C
<1>3. Solves(P)
  <2>1. \A n \in 1 .. C : P[n] = IF n = 1 THEN {<<c>> : c \in Cells}
                                 ELSE Lengthened(P[n - 1], n)
    <3> TAKE n \in 1 .. C
    <3>1. CASE n = 1
      BY <1>1, <3>1, ShortestPaths
    <3>2. CASE n # 1
      <4>1. n - 1 \in 1 .. C /\ n - 1 \in Nat \ {0} /\ n - 1 + 1 = n
        BY <1>1, <3>2
      <4>2. PathsOf(n) = Lengthened(PathsOf(n - 1), n)
        BY <4>1, PathsGrow
      <4> QED
        BY <3>2, <4>1, <4>2
    <3> QED
      BY <3>1, <3>2
  <2> QED
    BY <2>1
<1> HIDE DEF Solves, P
<1>4. Solves(Paths)
  BY <1>2, <1>3
<1>5. DOMAIN Paths = 1 .. C
      /\ \A n \in 1 .. C : Paths[n] = IF n = 1 THEN {<<c>> : c \in Cells}
                                      ELSE Lengthened(Paths[n - 1], n)
  BY <1>4 DEF Solves
<1>6. \A n \in Nat : n \in 1 .. C => Paths[n] = PathsOf(n)
  <2> DEFINE T == {n \in Nat : n \in 1 .. C /\ Paths[n] # PathsOf(n)}
  <2> SUFFICES ASSUME T # {} PROVE FALSE
    OBVIOUS
  <2>1. PICK m \in T : \A n \in T : m <= n
    BY LeastNumber
  <2> HIDE DEF T
  <2>2. m \in Nat /\ m \in 1 .. C /\ Paths[m] # PathsOf(m)
    BY DEF T
  <2>3. m # 1
    BY <1>5, <2>2, ShortestPaths
  <2>4. m - 1 \in Nat \ {0} /\ m - 1 \in 1 .. C /\ m - 1 + 1 = m /\ ~ (m <= m - 1)
    BY <1>1, <2>2, <2>3
  <2>5. Paths[m - 1] = PathsOf(m - 1)
    BY <2>1, <2>4 DEF T
  <2>6. PathsOf(m) = Lengthened(PathsOf(m - 1), m)
    BY <2>4, PathsGrow
  <2> QED
    BY <1>5, <2>2, <2>3, <2>5, <2>6
<1>7. PICK n \in DOMAIN Paths : p \in Paths[n]
  BY DEF AllPaths
<1> QED
  BY <1>1, <1>5, <1>6, <1>7
(***************************************************************************)
(* A cell of a route is joined to two others, and each of them to it, or   *)
(* it is a patch that was lifted since.                                    *)
(***************************************************************************)
OnRoute(s, c) == s.cells[c] # Free /\ s.cells[c].activity = "MultiPatchMeasurement"

\* The sides by which a patch is joined.
Joined(p) == {d \in Directions : p.boundaries[d].is_active}

\* There is a patch that is not being rotated.
Stands(p) == p # Free /\ p.activity # "Rotation"

\* The patch at c is joined by its side d, or was lifted from c for a rotation.
Holds(s, rotations, c, d) ==
  \/ Stands(s.cells[c]) /\ s.cells[c].boundaries[d].is_active
  \/ \E r \in rotations : r.cell = c /\ ~r.due

\* What is said of a single cell of a route.
WholeAt(s, rotations, c) ==
  LET p == s.cells[c]
  IN /\ p.type = "Routing" /\ p.id = NoId
     /\ Cardinality(Joined(p)) = 2
     /\ \A d \in Joined(p) :
          Beyond(c, d) \in Cells /\ Holds(s, rotations, Beyond(c, d), Opposite(d))

\* There are routes within a slice only.
RoutesAt(s, rotations, at) ==
  \A c \in Cells : OnRoute(s, c) => at = 0 /\ WholeAt(s, rotations, c)

RoutesInv == RoutesAt(slice, busy, turn)

\* A patch keeps the sides by which it is joined.
Embraces(p, q) ==
  Stands(q) /\ \A d \in Directions : p.boundaries[d].is_active => q.boundaries[d].is_active

\* The sides of a cell of a region.
LEMMA RoutingPatchSides ==
  ASSUME NEW c, NEW a \in PatchActivities, NEW joined, NEW d \in Directions
  PROVE  RoutingPatch(c, a, joined).boundaries[d].is_active <=> Beyond(c, d) \in joined
<1>1. boundary("None").is_active = FALSE
      /\ [boundary_type |-> "Connected", is_active |-> TRUE].is_active = TRUE
  BY DEF boundary
<1>2. CASE d = "top"
  BY <1>1, <1>2 DEF RoutingPatch, Named
<1>3. CASE d = "bottom"
  BY <1>1, <1>3 DEF RoutingPatch, Named
<1>4. CASE d = "left"
  BY <1>1, <1>4 DEF RoutingPatch, Named
<1>5. CASE d = "right"
  BY <1>1, <1>5 DEF RoutingPatch, Named
<1> QED
  BY <1>2, <1>3, <1>4, <1>5 DEF Directions

\* A side that becomes active, and the others.
LEMMA ActivatedSide ==
  ASSUME NEW b \in CellBoundaries, NEW d \in Directions,
         NEW e, e = [b EXCEPT ![d].is_active = TRUE]
  PROVE  /\ e[d].is_active
         /\ \A f \in Directions : b[f].is_active => e[f].is_active
<1>1. CASE d = "top"
  BY <1>1 DEF CellBoundaries, Boundary, Directions
<1>2. CASE d = "bottom"
  BY <1>2 DEF CellBoundaries, Boundary, Directions
<1>3. CASE d = "left"
  BY <1>3 DEF CellBoundaries, Boundary, Directions
<1>4. CASE d = "right"
  BY <1>4 DEF CellBoundaries, Boundary, Directions
<1> QED
  BY <1>1, <1>2, <1>3, <1>4 DEF Directions

\* Joining a side of one cell changes that side only.
LEMMA ActivatingCells ==
  ASSUME NEW s, Good(s), NEW c \in Cells, ~IsFree(s, c), NEW d \in Directions,
         Stands(s.cells[c]), NEW t, t = Activate(s, c, Beyond(c, d))
  PROVE  /\ Good(t) /\ Works(s, t)
         /\ \A e \in Cells : e # c => t.cells[e] = s.cells[e]
         /\ Embraces(s.cells[c], t.cells[c]) /\ t.cells[c].boundaries[d].is_active
<1> DEFINE p == s.cells[c]
           b == [p.boundaries EXCEPT ![d].is_active = TRUE]
           q == [p EXCEPT !.boundaries = b]
<1>1. Works(s, t)
  BY ActivatingWorks
<1>2. s.cells \in [Cells -> Patch \cup {Free}] /\ s = [cells |-> s.cells, cache |-> s.cache]
  BY SliceParts DEF Good
<1>3. p \in Patch /\ p.boundaries \in CellBoundaries
  BY CellContent, PatchChanges
<1>4. b \in CellBoundaries /\ b[d].is_active
      /\ \A f \in Directions : p.boundaries[f].is_active => b[f].is_active
  <2>1. b = [p.boundaries EXCEPT ![d].is_active = TRUE]
    OBVIOUS
  <2> HIDE DEF b, p
  <2>2. b \in CellBoundaries
    BY <1>3, <2>1, ActivatedSides
  <2>3. b[d].is_active
    BY <1>3, <2>1, ActivatedSide
  <2>4. \A f \in Directions : p.boundaries[f].is_active => b[f].is_active
    BY <1>3, <2>1, ActivatedSide
  <2> QED
    BY <2>2, <2>3, <2>4
<1> HIDE DEF b
<1>5. q \in Patch /\ q.activity = p.activity /\ q.boundaries = b
  BY <1>3, <1>4, PatchChanges
<1>6. t.cells = [s.cells EXCEPT ![c] = q]
  <2>1. Between(c, Beyond(c, d)) = d
    BY SidesLeadApart
  <2>2. t = [s EXCEPT !.cells[c] = q]
    BY <1>3, <2>1 DEF Activate, b
  <2> QED
    BY <1>2, <2>2
<1> HIDE DEF q
<1>7. t.cells[c] = q /\ \A e \in Cells : e # c => t.cells[e] = s.cells[e]
  BY <1>2, <1>6
<1>8. Stands(q)
  BY <1>5, OptionalsAssumption DEF Stands
<1>9. Embraces(p, q) /\ q.boundaries[d].is_active
  BY <1>4, <1>5, <1>8 DEF Embraces
<1> QED
  BY <1>1, <1>7, <1>9 DEF Works
\* Keeping the joined sides, twice.
LEMMA EmbracesTwice ==
  ASSUME NEW p, NEW q, NEW r, Embraces(p, q), Embraces(q, r)
  PROVE  Embraces(p, r)
BY DEF Embraces

\* Both patches open their sides to the route.
LEMMA StitchedCells ==
  ASSUME NEW s, Good(s), NEW a \in Cells, NEW b \in Cells,
         Stands(s.cells[a]), Stands(s.cells[b]),
         NEW d \in Directions, NEW e \in Directions,
         NEW t, t = Activate(Activate(s, a, Beyond(a, d)), b, Beyond(b, e))
  PROVE  /\ Good(t)
         /\ \A c \in Cells : c # a /\ c # b => t.cells[c] = s.cells[c]
         /\ Embraces(s.cells[a], t.cells[a]) /\ t.cells[a].boundaries[d].is_active
         /\ Embraces(s.cells[b], t.cells[b]) /\ t.cells[b].boundaries[e].is_active
<1> DEFINE s1 == Activate(s, a, Beyond(a, d))
<1>1. ~IsFree(s, a)
  BY DEF Stands, IsFree
<1>2. /\ Good(s1)
      /\ \A c \in Cells : c # a => s1.cells[c] = s.cells[c]
      /\ Embraces(s.cells[a], s1.cells[a]) /\ s1.cells[a].boundaries[d].is_active
  BY <1>1, ActivatingCells
<1> HIDE DEF s1
<1>3. Stands(s1.cells[b]) /\ Embraces(s.cells[b], s1.cells[b])
  BY <1>2 DEF Embraces
<1>4. ~IsFree(s1, b)
  BY <1>3 DEF Stands, IsFree
<1>5. /\ Good(t)
      /\ \A c \in Cells : c # b => t.cells[c] = s1.cells[c]
      /\ Embraces(s1.cells[b], t.cells[b]) /\ t.cells[b].boundaries[e].is_active
  <2>1. t = Activate(s1, b, Beyond(b, e))
    BY DEF s1
  <2> QED
    BY <1>2, <1>3, <1>4, <2>1, ActivatingCells
<1>6. Embraces(s1.cells[a], t.cells[a])
  BY <1>2, <1>5 DEF Embraces
<1>7. Embraces(s.cells[a], t.cells[a]) /\ Embraces(s.cells[b], t.cells[b])
  BY <1>2, <1>3, <1>5, <1>6, EmbracesTwice
<1>8. t.cells[a].boundaries[d].is_active
  BY <1>2, <1>6 DEF Embraces
<1> QED
  BY <1>2, <1>5, <1>7, <1>8

\* A cell and what it faces on two sides.
LEMMA PairOfSides ==
  ASSUME NEW d \in Directions, NEW e \in Directions, d # e
  PROVE  Cardinality({d, e}) = 2
<1>1. IsFiniteSet({d}) /\ Cardinality({d}) = 1
  BY FS_Singleton
<1>2. Cardinality({d} \cup {e}) = 2
  BY <1>1, FS_AddElement
<1>3. {d, e} = {d} \cup {e}
  OBVIOUS
<1> QED
  BY <1>2, <1>3

\* Faces of different types are different sides.
LEMMA FacingTwice ==
  ASSUME NEW s, NEW c \in Cells, NEW n, NEW op1 \in {"X", "Z"}, NEW op2 \in {"X", "Z"},
         Facing(s, c, n, op1), Facing(s, c, n, op2)
  PROVE  op1 = op2
<1>1. PICK d \in Directions : s.cells[c].boundaries[d].boundary_type = boundary_for_operator(op1)
                              /\ Beyond(c, d) = n
  BY DEF Facing, SidesOfType
<1>2. PICK e \in Directions : s.cells[c].boundaries[e].boundary_type = boundary_for_operator(op2)
                              /\ Beyond(c, e) = n
  BY DEF Facing, SidesOfType
<1>3. d = e
  BY <1>1, <1>2, SidesLeadApart
<1> QED
  BY <1>1, <1>2, <1>3 DEF boundary_for_operator

\* A route with what it leads from and to.
LEMMA EndsOfRoute ==
  ASSUME NEW n \in Nat \ {0}, NEW route \in PathsOf(n), NEW a \in Cells, NEW b \in Cells
  PROVE  LET ends == <<a>> \o route \o <<b>>
         IN /\ Len(route) = n /\ DOMAIN route = 1 .. n
            /\ \A k \in 1 .. n :
                 /\ ends[k] = IF k = 1 THEN a ELSE route[k - 1]
                 /\ ends[k + 2] = IF k = n THEN b ELSE route[k + 1]
                 /\ (CHOOSE j \in DOMAIN route : route[j] = route[k]) = k
<1> DEFINE ends == <<a>> \o route \o <<b>>
<1>1. route \in [1 .. n -> Cells] /\ \A j, k \in 1 .. n : route[j] = route[k] => j = k
  BY DEF PathsOf
<1>2. route \in Seq(Cells) /\ Len(route) = n
  BY <1>1, FunctionIsSequence
<1>3. <<a>> \in Seq(Cells) /\ Len(<<a>>) = 1 /\ <<a>>[1] = a
      /\ <<b>> \in Seq(Cells) /\ Len(<<b>>) = 1 /\ <<b>>[1] = b
  OBVIOUS
<1> DEFINE u == <<a>>
           w == <<b>>
           v == u \o route
<1> HIDE DEF u, w
<1>4. /\ v \in Seq(Cells) /\ Len(v) = n + 1
      /\ \A i \in 1 .. n + 1 : v[i] = IF i <= 1 THEN u[i] ELSE route[i - 1]
  <2>1. /\ v \in Seq(Cells) /\ Len(v) = 1 + n
        /\ \A i \in 1 .. 1 + n : v[i] = IF i <= 1 THEN u[i] ELSE route[i - 1]
    BY <1>2, <1>3, ConcatProperties DEF u
  <2> QED
    BY <2>1
<1> HIDE DEF v
<1>5. \A i \in 1 .. n + 2 : ends[i] = IF i <= n + 1 THEN v[i] ELSE w[i - (n + 1)]
  <2>1. \A i \in 1 .. n + 1 + 1 : (v \o w)[i] = IF i <= n + 1 THEN v[i] ELSE w[i - (n + 1)]
    BY <1>3, <1>4, ConcatProperties DEF w
  <2>2. ends = v \o w
    BY DEF v, u, w
  <2>3. n + 2 = n + 1 + 1
    OBVIOUS
  <2> HIDE DEF ends
  <2> QED
    BY <2>1, <2>2, <2>3
<1> HIDE DEF ends
<1>6. ASSUME NEW k \in 1 .. n
      PROVE  /\ ends[k] = IF k = 1 THEN a ELSE route[k - 1]
             /\ ends[k + 2] = IF k = n THEN b ELSE route[k + 1]
             /\ (CHOOSE j \in DOMAIN route : route[j] = route[k]) = k
  <2>1. u[1] = a /\ w[1] = b
    BY <1>3 DEF u, w
  <2>2. ends[k] = v[k] /\ v[k] = IF k <= 1 THEN u[k] ELSE route[k - 1]
    BY <1>4, <1>5
  <2>3. ends[k + 2] = IF k = n THEN b ELSE route[k + 1]
    <3>1. CASE k = n
      <4>1. n + 2 - (n + 1) = 1
        OBVIOUS
      <4> QED
        BY <1>5, <2>1, <3>1, <4>1
    <3>2. CASE k # n
      <4>1. k + 2 \in 1 .. n + 1 /\ k + 2 - 1 = k + 1 /\ ~(k + 2 <= 1)
        BY <3>2
      <4> QED
        BY <1>4, <1>5, <3>2, <4>1
    <3> QED
      BY <3>1, <3>2
  <2> QED
    BY <1>1, <2>1, <2>2, <2>3
<1> QED
  BY <1>1, <1>2, <1>6 DEF ends
\* The first n cells of a route from a to b are drawn, and nothing else.
Drawn(t, n, route, a, b) ==
  \A k \in 1 .. n : t.cells[route[k]] =
    RoutingPatch(route[k], "MultiPatchMeasurement",
                 {IF k = 1 THEN a ELSE route[k - 1], IF k = n THEN b ELSE route[k + 1]})

(***************************************************************************)
(* When the cells of a path are joined to those before and after them, and *)
(* the patches at its ends to the first and the last, the route is whole.  *)
(***************************************************************************)
LEMMA RouteJoins ==
  ASSUME NEW n \in Nat \ {0}, NEW route \in PathsOf(n), NEW a \in Cells, NEW b \in Cells,
         a # b \/ n # 1,
         \A k \in 1 .. n : route[k] # a /\ route[k] # b,
         NEW d \in Directions, Beyond(a, d) = route[1],
         NEW e \in Directions, Beyond(b, e) = route[n],
         NEW t,
         Stands(t.cells[a]), t.cells[a].boundaries[d].is_active,
         Stands(t.cells[b]), t.cells[b].boundaries[e].is_active,
         Drawn(t, n, route, a, b)
  PROVE  \A k \in 1 .. n : \A rotations : WholeAt(t, rotations, route[k])
<1> DEFINE prev(k) == IF k = 1 THEN a ELSE route[k - 1]
           next(k) == IF k = n THEN b ELSE route[k + 1]
<1>1. /\ route \in [1 .. n -> Cells]
      /\ \A j, k \in 1 .. n : route[j] = route[k] => j = k
      /\ \A k \in 1 .. (n - 1) : Adjacent(route[k], route[k + 1])
  BY DEF PathsOf
<1>2. \A k \in 1 .. n :
        LET p == t.cells[route[k]]
        IN /\ Stands(p) /\ p.type = "Routing" /\ p.id = NoId
           /\ \A f \in Directions : p.boundaries[f].is_active
                                      <=> Beyond(route[k], f) \in {prev(k), next(k)}
  <2> SUFFICES ASSUME NEW k \in 1 .. n
               PROVE  LET p == t.cells[route[k]]
                      IN /\ Stands(p) /\ p.type = "Routing" /\ p.id = NoId
                         /\ \A f \in Directions : p.boundaries[f].is_active
                              <=> Beyond(route[k], f) \in {prev(k), next(k)}
    OBVIOUS
  <2> DEFINE q == RoutingPatch(route[k], "MultiPatchMeasurement", {prev(k), next(k)})
  <2>1. "MultiPatchMeasurement" \in PatchActivities
    BY DEF PatchActivities
  <2>2. t.cells[route[k]] = q
    BY DEF Drawn
  <2>3. /\ q \in Patch /\ q.type = "Routing" /\ q.activity = "MultiPatchMeasurement"
        /\ q.id = NoId
    BY <2>1, RoutingPatchIs
  <2>4. \A f \in Directions : q.boundaries[f].is_active
                                <=> Beyond(route[k], f) \in {prev(k), next(k)}
    BY <2>1, RoutingPatchSides
  <2> HIDE DEF q, prev, next
  <2>5. Stands(q)
    BY <2>3, OptionalsAssumption DEF Stands
  <2> QED
    BY <2>2, <2>3, <2>4, <2>5
<1> SUFFICES ASSUME NEW k \in 1 .. n, NEW rotations
             PROVE  WholeAt(t, rotations, route[k])
  OBVIOUS
<1> DEFINE c == route[k]
           p == t.cells[c]
<1>3. c \in Cells /\ prev(k) \in Cells /\ next(k) \in Cells
  BY <1>1
<1>4. \E f \in Directions : /\ Beyond(c, f) = prev(k) /\ Stands(t.cells[prev(k)])
                            /\ t.cells[prev(k)].boundaries[Opposite(f)].is_active
  <2>1. CASE k = 1
    BY <2>1, SidesLeadApart
  <2>2. CASE k # 1
    <3>1. k - 1 \in 1 .. (n - 1) /\ k - 1 \in 1 .. n /\ k - 1 + 1 = k /\ k - 1 # n
      BY <2>2
    <3>2. PICK g \in Directions : Beyond(route[k - 1], g) = c
      BY <1>1, <3>1 DEF Adjacent
    <3>3. next(k - 1) = c
      BY <3>1
    <3>4. Stands(t.cells[route[k - 1]]) /\ t.cells[route[k - 1]].boundaries[g].is_active
      BY <1>2, <3>1, <3>2, <3>3
    <3>5. Opposite(g) \in Directions /\ Opposite(Opposite(g)) = g
          /\ Beyond(c, Opposite(g)) = route[k - 1]
      BY <1>1, <3>1, <3>2, SidesLeadApart
    <3> QED
      BY <2>2, <3>4, <3>5
  <2> QED
    BY <2>1, <2>2
<1>5. \E f \in Directions : /\ Beyond(c, f) = next(k) /\ Stands(t.cells[next(k)])
                            /\ t.cells[next(k)].boundaries[Opposite(f)].is_active
  <2>1. CASE k = n
    BY <2>1, SidesLeadApart
  <2>2. CASE k # n
    <3>1. k \in 1 .. (n - 1) /\ k + 1 \in 1 .. n /\ k + 1 - 1 = k /\ k + 1 # 1
      BY <2>2
    <3>2. PICK g \in Directions : Beyond(c, g) = route[k + 1]
      BY <1>1, <3>1 DEF Adjacent
    <3>3. prev(k + 1) = c
      BY <3>1
    <3>4. Opposite(g) \in Directions /\ Beyond(route[k + 1], Opposite(g)) = c
      BY <1>3, <3>2, SidesLeadApart
    <3>5. Stands(t.cells[route[k + 1]]) /\ t.cells[route[k + 1]].boundaries[Opposite(g)].is_active
      BY <1>2, <3>1, <3>3, <3>4
    <3> QED
      BY <2>2, <3>2, <3>5
  <2> QED
    BY <2>1, <2>2
<1>6. prev(k) # next(k)
  BY <1>1
<1>7. /\ Stands(p) /\ p.type = "Routing" /\ p.id = NoId
      /\ \A f \in Directions : p.boundaries[f].is_active <=> Beyond(c, f) \in {prev(k), next(k)}
  BY <1>2
<1> HIDE DEF prev, next, c, p
<1>8. PICK f \in Directions : /\ Beyond(c, f) = prev(k) /\ Stands(t.cells[prev(k)])
                              /\ t.cells[prev(k)].boundaries[Opposite(f)].is_active
  BY <1>4
<1>9. PICK g \in Directions : /\ Beyond(c, g) = next(k) /\ Stands(t.cells[next(k)])
                              /\ t.cells[next(k)].boundaries[Opposite(g)].is_active
  BY <1>5
<1>10. f # g
  BY <1>6, <1>8, <1>9
<1>11. Joined(p) = {f, g}
  BY <1>3, <1>7, <1>8, <1>9, SidesLeadApart DEF Joined
<1>12. Cardinality(Joined(p)) = 2
  BY <1>10, <1>11, PairOfSides
<1>13. \A x \in Joined(p) : Beyond(c, x) \in Cells /\ Holds(t, rotations, Beyond(c, x), Opposite(x))
  BY <1>3, <1>8, <1>9, <1>11 DEF Holds
<1> QED
  BY <1>7, <1>12, <1>13 DEF WholeAt, c, p
\* What merge_patches leaves at the cells.
LEMMA MergedRoute ==
  ASSUME NEW s, Good(s), NEW a \in Cells, NEW b \in Cells,
         Stands(s.cells[a]), Stands(s.cells[b]),
         NEW op1 \in {"X", "Z"}, NEW op2 \in {"X", "Z"}, a # b \/ op1 # op2,
         NEW route \in find_routing_ancilla(s, a, op1, b, op2),
         NEW t, t = Merged(s, a, b, route)
  PROVE  /\ \A c \in Cells : c # a /\ c # b /\ ~IsFree(s, c) => t.cells[c] = s.cells[c]
         /\ Embraces(s.cells[a], t.cells[a]) /\ Embraces(s.cells[b], t.cells[b])
         /\ \A c \in Cells : IsFree(s, c) /\ ~IsFree(t, c) =>
              \A rotations : WholeAt(t, rotations, c)
<1> DEFINE first == IF route = << >> THEN b ELSE route[1]
           last  == IF route = << >> THEN a ELSE route[Len(route)]
           s2 == Activate(Activate(s, a, first), b, last)
           ends == <<a>> \o route \o <<b>>
           at(c) == CHOOSE k \in DOMAIN route : route[k] = c
           patches == [c \in Elements(route) |->
                         RoutingPatch(c, "MultiPatchMeasurement", {ends[at(c)], ends[at(c) + 2]})]
           Open == /\ route \in AllPaths
                   /\ \A k \in DOMAIN route : IsFree(s, route[k])
                   /\ Facing(s, a, route[1], op1) /\ Facing(s, b, route[Len(route)], op2)
<1>1. \/ route = << >> /\ Facing(s, a, b, op1) /\ Facing(s, b, a, op2)
      \/ route # << >> /\ Open
  <2>1. CASE Facing(s, a, b, op1) /\ Facing(s, b, a, op2)
    <3>1. route = << >>
      BY <2>1 DEF find_routing_ancilla
    <3> QED
      BY <2>1, <3>1
  <2>2. CASE ~(Facing(s, a, b, op1) /\ Facing(s, b, a, op2))
    <3>1. route \in OpenPaths(s, a, op1, b, op2)
      BY <2>2 DEF find_routing_ancilla
    <3> QED
      BY <3>1 DEF OpenPaths
  <2> QED
    BY <2>1, <2>2
<1>2. PICK d \in Directions : first = Beyond(a, d)
  BY <1>1, FacingSide
<1>3. PICK e \in Directions : last = Beyond(b, e)
  BY <1>1, FacingSide
<1>4. /\ Good(s2)
      /\ \A c \in Cells : c # a /\ c # b => s2.cells[c] = s.cells[c]
      /\ Embraces(s.cells[a], s2.cells[a]) /\ s2.cells[a].boundaries[d].is_active
      /\ Embraces(s.cells[b], s2.cells[b]) /\ s2.cells[b].boundaries[e].is_active
  BY <1>2, <1>3, StitchedCells
<1>5. t = mark_routing_region(s2, patches)
  BY DEF Merged, stitch_boundaries
<1>6. /\ DOMAIN patches = Elements(route)
      /\ \A c \in Elements(route) :
           patches[c] \in Patch /\ patches[c].type = "Routing" /\ patches[c].id = NoId
  BY RoutingPatchIs DEF PatchActivities
<1>7. \A c \in Elements(route) : IsFree(s, c)
  BY <1>1 DEF Elements
<1>8. \A c \in Elements(route) : c # a /\ c # b
  BY <1>7 DEF Stands, IsFree
<1>9. \A c \in Elements(route) : patches[c] =
        RoutingPatch(c, "MultiPatchMeasurement", {ends[at(c)], ends[at(c) + 2]})
  OBVIOUS
<1> HIDE DEF s2, patches
<1>10. \A c \in Cells : t.cells[c] = IF c \in Elements(route) THEN patches[c] ELSE s2.cells[c]
  <2>1. \A c \in Cells \cap DOMAIN patches :
          Bears(s2, c) = NoId /\ patches[c] \in Patch /\ patches[c].type = "Routing"
          /\ patches[c].id = NoId
    BY <1>4, <1>6, <1>7, <1>8 DEF Bears, IsFree
  <2> QED
    BY <1>4, <1>5, <1>6, <2>1, MarkedRegion
<1>11. \A c \in Cells : c # a /\ c # b /\ ~IsFree(s, c) => t.cells[c] = s.cells[c]
  BY <1>4, <1>7, <1>10
<1>12. t.cells[a] = s2.cells[a] /\ t.cells[b] = s2.cells[b]
  BY <1>8, <1>10
<1>13. ASSUME NEW c \in Cells, IsFree(s, c), ~IsFree(t, c), NEW rotations
       PROVE  WholeAt(t, rotations, c)
  <2>1. c # a /\ c # b
    BY <1>13 DEF Stands, IsFree
  <2>2. c \in Elements(route)
    BY <1>4, <1>10, <1>13, <2>1 DEF IsFree
  <2>3. route # << >> /\ Open
    BY <1>1, <2>2 DEF Elements
  <2>4. PICK n \in Nat \ {0} : route \in PathsOf(n)
    BY <2>3, PathsAre
  <2> HIDE DEF ends
  <2>5. /\ Len(route) = n /\ DOMAIN route = 1 .. n
        /\ \A k \in 1 .. n :
             /\ ends[k] = IF k = 1 THEN a ELSE route[k - 1]
             /\ ends[k + 2] = IF k = n THEN b ELSE route[k + 1]
             /\ at(route[k]) = k
    BY <2>4, EndsOfRoute DEF ends
  <2>6. first = route[1] /\ last = route[n]
    BY <2>3, <2>5
  <2>7. \A k \in 1 .. n : route[k] \in Cells /\ route[k] \in Elements(route)
    BY <2>4, <2>5 DEF PathsOf, Elements
  <2>8. Drawn(t, n, route, a, b)
    <3> HIDE DEF at
    <3> SUFFICES ASSUME NEW k \in 1 .. n
                 PROVE  t.cells[route[k]] =
                   RoutingPatch(route[k], "MultiPatchMeasurement",
                     {IF k = 1 THEN a ELSE route[k - 1], IF k = n THEN b ELSE route[k + 1]})
      BY DEF Drawn
    <3>1. patches[route[k]] =
            RoutingPatch(route[k], "MultiPatchMeasurement",
                         {ends[at(route[k])], ends[at(route[k]) + 2]})
      BY <1>9, <2>7
    <3>2. at(route[k]) = k
      BY <2>5
    <3>3. t.cells[route[k]] = patches[route[k]]
      BY <1>10, <2>7
    <3> QED
      BY <2>5, <3>1, <3>2, <3>3
  <2>9. a # b \/ n # 1
    BY <2>3, <2>5, FacingTwice
  <2>10. PICK k \in 1 .. n : c = route[k]
    BY <2>2, <2>5 DEF Elements
  <2>11. Stands(t.cells[a]) /\ Stands(t.cells[b])
    BY <1>4, <1>12 DEF Embraces
  <2> HIDE DEF first, last, at, Open
  <2>12. WholeAt(t, rotations, route[k])
    <3>1. \A j \in 1 .. n : route[j] # a /\ route[j] # b
      BY <1>8, <2>7
    <3>2. t.cells[a].boundaries[d].is_active /\ t.cells[b].boundaries[e].is_active
      BY <1>4, <1>12
    <3>3. Beyond(a, d) = route[1] /\ Beyond(b, e) = route[n]
      BY <1>2, <1>3, <2>6
    <3> QED
      BY <2>4, <2>8, <2>9, <2>11, <3>1, <3>2, <3>3, RouteJoins
  <2> QED
    BY <2>10, <2>12
<1> QED
  BY <1>4, <1>11, <1>12, <1>13
(***************************************************************************)
(* Routes stay whole if their cells are left alone and the patches they    *)
(* lead to keep their sides or are lifted.                                 *)
(***************************************************************************)
LEMMA RoutesSurvive ==
  ASSUME NEW s, NEW t, NEW rotations, NEW later, NEW at, RoutesAt(s, rotations, at),
         \A c \in Cells : OnRoute(t, c) =>
           t.cells[c] = s.cells[c] \/ (at = 0 /\ WholeAt(t, later, c)),
         \A c \in Cells : Stands(s.cells[c]) =>
           \/ Embraces(s.cells[c], t.cells[c])
           \/ \E r \in later : r.cell = c /\ ~r.due
           \/ Joined(s.cells[c]) = {},
         \A r \in rotations : ~r.due => \E q \in later : q.cell = r.cell /\ ~q.due
  PROVE  RoutesAt(t, later, at)
<1> SUFFICES ASSUME NEW c \in Cells, OnRoute(t, c), t.cells[c] = s.cells[c]
             PROVE  at = 0 /\ WholeAt(t, later, c)
  BY DEF RoutesAt
<1>1. at = 0 /\ WholeAt(s, rotations, c)
  BY DEF RoutesAt, OnRoute
<1>2. ASSUME NEW d \in Joined(s.cells[c])
      PROVE  Holds(t, later, Beyond(c, d), Opposite(d))
  <2> DEFINE n == Beyond(c, d)
             e == Opposite(d)
  <2>1. n \in Cells /\ Holds(s, rotations, n, e)
    BY <1>1, <1>2 DEF WholeAt
  <2>2. e \in Directions
    BY SidesLeadApart DEF Joined
  <2> HIDE DEF n, e
  <2>3. ASSUME Stands(s.cells[n]), s.cells[n].boundaries[e].is_active
        PROVE  Holds(t, later, n, e)
    <3>1. Joined(s.cells[n]) # {}
      BY <2>2, <2>3 DEF Joined
    <3> QED
      BY <2>1, <2>2, <2>3, <3>1 DEF Holds, Embraces
  <2>4. ASSUME \E r \in rotations : r.cell = n /\ ~r.due
        PROVE  Holds(t, later, n, e)
    BY <2>4 DEF Holds
  <2>5. Holds(t, later, n, e)
    BY <2>1, <2>3, <2>4 DEF Holds
  <2> QED
    BY <2>5 DEF n, e
<1> QED
  BY <1>1, <1>2 DEF WholeAt

\* When one cell changes, which is on no route afterwards.
LEMMA OneCellKeepsRoutes ==
  ASSUME RoutesInv, NEW c \in Cells,
         \A d \in Cells : d # c => slice'.cells[d] = slice.cells[d],
         ~OnRoute(slice', c),
         Stands(slice.cells[c]) =>
           Embraces(slice.cells[c], slice'.cells[c]) \/ Joined(slice.cells[c]) = {},
         UNCHANGED <<busy, turn>>
  PROVE  RoutesInv'
<1>1. \A d \in Cells : OnRoute(slice', d) => slice'.cells[d] = slice.cells[d]
  OBVIOUS
<1>2. \A d \in Cells : Stands(slice.cells[d]) =>
        Embraces(slice.cells[d], slice'.cells[d]) \/ Joined(slice.cells[d]) = {}
  BY DEF Embraces
<1>3. RoutesAt(slice, busy, turn)
  BY DEF RoutesInv
<1>4. RoutesAt(slice', busy', turn')
  BY <1>1, <1>2, <1>3, RoutesSurvive
<1> QED
  BY <1>4 DEF RoutesInv

\* What is set of a patch, and what stays.
LEMMA SetActivityCells ==
  ASSUME NEW s, Good(s), NEW c \in Cells, ~IsFree(s, c), NEW a \in PatchActivities,
         NEW t, t = set_patch_activity(s, c, a)
  PROVE  /\ t.cells[c] \in Patch /\ t.cells[c].activity = a
         /\ t.cells[c].boundaries = s.cells[c].boundaries
         /\ \A d \in Cells : d # c => t.cells[d] = s.cells[d]
<1>1. s.cells \in [Cells -> Patch \cup {Free}] /\ s = [cells |-> s.cells, cache |-> s.cache]
  BY SliceParts DEF Good
<1>2. s.cells[c] \in Patch
  BY CellContent
<1> DEFINE q == [s.cells[c] EXCEPT !.activity = a]
<1>3. q \in Patch /\ q.activity = a /\ q.boundaries = s.cells[c].boundaries
  BY <1>2, PatchChanges
<1> HIDE DEF q
<1>4. t.cells = [s.cells EXCEPT ![c] = q]
  BY <1>1 DEF set_patch_activity, q
<1> QED
  BY <1>1, <1>3, <1>4

\* A patch that keeps its sides, and is neither measured nor lifted.
LEMMA StandingEmbraces ==
  ASSUME NEW p, NEW q \in Patch, q.boundaries = p.boundaries, q.activity # "Rotation"
  PROVE  Embraces(p, q)
BY OptionalsAssumption DEF Embraces, Stands

\* Measuring a patch in place, or a route away, cuts no route.
LEMMA MeasureSinglePatchRoutes ==
  ASSUME LatticeInv, RoutesInv, NEW i \in PatchIds, MeasureSinglePatch(i)
  PROVE  RoutesInv'
<1> DEFINE c == get_cell_by_id(slice, i)
<1>1. c \in Cells /\ ~IsFree(slice, c) /\ Good(slice)
  BY FoundPatch DEF MeasureSinglePatch, LatticeInv
<1>2. slice' = set_patch_activity(slice, c, "Measurement") /\ UNCHANGED <<busy, turn>>
  BY DEF MeasureSinglePatch
<1> HIDE DEF c
<1>3. "Measurement" \in PatchActivities
  BY DEF PatchActivities
<1>4. /\ slice'.cells[c] \in Patch /\ slice'.cells[c].activity = "Measurement"
      /\ slice'.cells[c].boundaries = slice.cells[c].boundaries
      /\ \A d \in Cells : d # c => slice'.cells[d] = slice.cells[d]
  BY <1>1, <1>2, <1>3, SetActivityCells
<1>5. Embraces(slice.cells[c], slice'.cells[c])
  BY <1>4, StandingEmbraces
<1>6. ~OnRoute(slice', c)
  BY <1>4 DEF OnRoute
<1> QED
  BY <1>1, <1>2, <1>4, <1>5, <1>6, OneCellKeepsRoutes

\* A gate turns a patch that is joined to nothing.
LEMMA HadamardRoutes ==
  ASSUME LatticeInv, RoutesInv, NEW i \in PatchIds, Hadamard(i)
  PROVE  RoutesInv'
<1> DEFINE c == get_cell_by_id(slice, i)
           t == set_patch_activity(slice, c, "Unitary")
           q == [t.cells[c] EXCEPT !.boundaries = instant_rotate(t.cells[c].boundaries)]
<1>1. c \in Cells /\ ~IsFree(slice, c) /\ Good(slice)
  BY FoundPatch DEF Hadamard, LatticeInv
<1>2. /\ slice' = rotate_patch_boundaries(t, c) /\ UNCHANGED <<busy, turn>>
      /\ ~is_active(slice.cells[c])
  BY DEF Hadamard, On
<1>3. Joined(slice.cells[c]) = {}
  BY <1>2 DEF is_active, Joined
<1>4. slice.cells \in [Cells -> Patch \cup {Free}] /\ slice = [cells |-> slice.cells, cache |-> slice.cache]
  BY <1>1, SliceParts DEF Good
<1>5. "Unitary" \in PatchActivities
  BY DEF PatchActivities
<1> HIDE DEF c
<1>6. /\ t.cells[c] \in Patch /\ t.cells[c].activity = "Unitary"
      /\ \A d \in Cells : d # c => t.cells[d] = slice.cells[d]
  BY <1>1, <1>5, SetActivityCells
<1>7. DOMAIN t.cells = Cells /\ t = [cells |-> t.cells, cache |-> t.cache]
  BY <1>4 DEF set_patch_activity
<1> HIDE DEF t
<1>8. q.activity = "Unitary"
  BY <1>6 DEF Patch
<1>9. slice'.cells = [t.cells EXCEPT ![c] = q]
  BY <1>2, <1>7 DEF rotate_patch_boundaries
<1> HIDE DEF q
<1>10. slice'.cells[c] = q /\ \A d \in Cells : d # c => slice'.cells[d] = slice.cells[d]
  BY <1>1, <1>6, <1>7, <1>9
<1>11. ~OnRoute(slice', c)
  BY <1>8, <1>10 DEF OnRoute
<1> QED
  BY <1>1, <1>2, <1>3, <1>10, <1>11, OneCellKeepsRoutes
\* A merge draws one route, whole, and cuts none.
LEMMA MergingRoutes ==
  ASSUME LatticeInv, RoutesInv, NEW i \in PatchIds, NEW j \in PatchIds,
         OnLattice(i), OnLattice(j), turn = 0,
         NEW op1 \in {"X", "Z"}, NEW op2 \in {"X", "Z"}, i # j \/ op1 # op2,
         merge_patches(i, op1, j, op2), UNCHANGED <<busy, turn>>
  PROVE  RoutesInv'
<1> DEFINE a == get_cell_by_id(slice, i)
           b == get_cell_by_id(slice, j)
<1>1. PICK route \in find_routing_ancilla(slice, a, op1, b, op2) :
        slice' = Merged(slice, a, b, route)
  BY DEF merge_patches
<1>2. /\ a \in Cells /\ ~IsFree(slice, a) /\ slice.cells[a].id = i
      /\ b \in Cells /\ ~IsFree(slice, b) /\ slice.cells[b].id = j
      /\ Good(slice)
  BY FoundPatch DEF LatticeInv
<1>3. slice.cells[a].activity = "None" /\ slice.cells[b].activity = "None"
  BY DEF merge_patches, is_active, On
<1> HIDE DEF a, b
<1>4. Stands(slice.cells[a]) /\ Stands(slice.cells[b])
  BY <1>2, <1>3 DEF Stands, IsFree
<1>5. a # b \/ op1 # op2
  BY <1>2
<1>6. /\ \A c \in Cells : c # a /\ c # b /\ ~IsFree(slice, c) => slice'.cells[c] = slice.cells[c]
      /\ Embraces(slice.cells[a], slice'.cells[a]) /\ Embraces(slice.cells[b], slice'.cells[b])
      /\ \A c \in Cells : IsFree(slice, c) /\ ~IsFree(slice', c) => WholeAt(slice', busy, c)
  BY <1>1, <1>2, <1>4, <1>5, MergedRoute
<1>7. Works(slice, slice')
  BY <1>1, <1>2, MergingWorks
<1>8. ~OnRoute(slice', a) /\ ~OnRoute(slice', b)
  BY <1>2, <1>3, <1>7 DEF Works, WorkedOn, OnRoute, Done
<1>9. \A c \in Cells : OnRoute(slice', c) =>
        slice'.cells[c] = slice.cells[c] \/ (turn = 0 /\ WholeAt(slice', busy, c))
  BY <1>6, <1>8 DEF OnRoute, IsFree
<1>10. \A c \in Cells : Stands(slice.cells[c]) => Embraces(slice.cells[c], slice'.cells[c])
  BY <1>6 DEF Stands, Embraces, IsFree
<1>11. RoutesAt(slice, busy, turn)
  BY DEF RoutesInv
<1>12. RoutesAt(slice', busy, turn)
  BY <1>9, <1>10, <1>11, RoutesSurvive
<1> QED
  BY <1>12 DEF RoutesInv

\* An S gate joins a patch to itself by a route.
LEMMA SGateRoutes ==
  ASSUME LatticeInv, RoutesInv, NEW i \in PatchIds, SGate(i)
  PROVE  RoutesInv'
BY MergingRoutes DEF SGate, Ready

\* Measuring two patches joins them by a route.
LEMMA MeasureMultiPatchRoutes ==
  ASSUME LatticeInv, RoutesInv, NEW i \in PatchIds, NEW j \in PatchIds,
         NEW op1 \in {"X", "Z"}, NEW op2 \in {"X", "Z"}, MeasureMultiPatch(i, op1, j, op2)
  PROVE  RoutesInv'
BY MergingRoutes DEF MeasureMultiPatch, Ready

\* A patch comes to be on a cell that was free.
LEMMA FillingKeepsRoutes ==
  ASSUME RoutesInv, NEW c \in Cells, IsFree(slice, c), NEW q,
         q.activity # "MultiPatchMeasurement",
         slice'.cells[c] = q, \A d \in Cells : d # c => slice'.cells[d] = slice.cells[d],
         UNCHANGED <<busy, turn>>
  PROVE  RoutesInv'
<1>1. ~OnRoute(slice', c)
  BY DEF OnRoute
<1>2. ~Stands(slice.cells[c])
  BY DEF Stands, IsFree
<1> QED
  BY <1>1, <1>2, OneCellKeepsRoutes

\* A new patch is on no route, where it is placed at a given cell,
LEMMA InitAtRoutes ==
  ASSUME LatticeInv, RoutesInv, NEW i \in PatchIds, NEW c \in Cells,
         IsFree(slice, c), InitAt(i, c)
  PROVE  RoutesInv'
<1> DEFINE p == basic_square_patch(NoId)
           t == place_dense_patch_at(slice, c, p)
           q == [p EXCEPT !.id = i]
<1>1. p \in Patch /\ p.activity = "None" /\ Shaped(c, p) /\ Good(slice)
  BY BasicSquarePatch DEF LatticeInv
<1>2. slice' = assign_patch_id(t, c, i) /\ UNCHANGED <<busy, turn>>
  BY DEF InitAt
<1> HIDE DEF p
<1>3. Becomes(slice, t, c, p)
  BY <1>1, PlacingBecomes
<1>4. Good(t) /\ t.cells[c] = p /\ ~IsFree(t, c)
  BY <1>1, <1>3, PatchParts DEF Becomes, IsFree
<1> HIDE DEF t
<1>5. Becomes(t, slice', c, q)
  BY <1>2, <1>4, AssigningBecomes
<1>6. q.activity = "None"
  BY <1>1, PatchChanges
<1> HIDE DEF q
<1>7. slice'.cells[c] = q /\ \A d \in Cells : d # c => slice'.cells[d] = slice.cells[d]
  BY <1>3, <1>5 DEF Becomes
<1> QED
  BY <1>2, <1>6, <1>7, FillingKeepsRoutes

\* at a location for ancillas,
LEMMA PatchInitRoutes ==
  ASSUME LatticeInv, RoutesInv, NEW i \in PatchIds, PatchInit(i)
  PROVE  RoutesInv'
<1> DEFINE free == {k \in DOMAIN ancilla_location : IsFree(slice, ancilla_location[k])}
<1>1. free # {} /\ InitAt(i, ancilla_location[Min(free)])
  BY DEF PatchInit
<1>2. ancilla_location \in Seq(Cells)
  BY InstancesAssumption
<1>3. free \subseteq Nat
  BY <1>2
<1>4. Min(free) \in free
  BY <1>1, <1>3, MinIsIn
<1>5. ancilla_location[Min(free)] \in Cells /\ IsFree(slice, ancilla_location[Min(free)])
  BY <1>2, <1>4
<1> QED
  BY <1>1, <1>5, InitAtRoutes

\* or next to another patch.
LEMMA PatchInitNextToRoutes ==
  ASSUME LatticeInv, RoutesInv, NEW i \in PatchIds, NEW near \in PatchIds, NEW op,
         PatchInitNextTo(i, near, op)
  PROVE  RoutesInv'
<1> DEFINE c == get_cell_by_id(slice, near)
           sides == FreeSides(slice, c) \cap SidesOfType(slice.cells[c], boundary_for_operator(op))
<1>1. sides # {} /\ InitAt(i, Beyond(c, FirstSide(sides)))
  BY DEF PatchInitNextTo
<1>2. sides \subseteq Directions
  BY DEF FreeSides
<1>3. FirstSide(sides) \in sides
  BY <1>1, <1>2, FirstSideIsIn
<1>4. Beyond(c, FirstSide(sides)) \in Cells /\ IsFree(slice, Beyond(c, FirstSide(sides)))
  BY <1>3 DEF FreeSides
<1> QED
  BY <1>1, <1>4, InitAtRoutes

\* A Y state is prepared on a free cell.
LEMMA PrepareYStateRoutes ==
  ASSUME LatticeInv, RoutesInv, NEW i \in PatchIds, NEW near \in PatchIds,
         PrepareYState(i, near)
  PROVE  RoutesInv'
<1> DEFINE c == get_cell_by_id(slice, near)
           sides == FreeSides(slice, c) \cap SidesOfType(slice.cells[c], "Smooth")
           e == Beyond(c, LastSide(sides))
           p == basic_square_patch(i)
           t == place_dense_patch_at(slice, e, p)
<1>1. /\ sides # {} /\ slice' = set_patch_activity(t, e, "Unitary")
      /\ UNCHANGED <<busy, turn>>
  BY DEF PrepareYState
<1>2. sides \subseteq Directions
  BY DEF FreeSides
<1>3. LastSide(sides) \in sides
  BY <1>1, <1>2, LastSideIsIn
<1>4. e \in Cells /\ IsFree(slice, e)
  BY <1>3 DEF FreeSides
<1> HIDE DEF e
<1>5. p \in Patch /\ Shaped(e, p) /\ Good(slice)
  BY <1>4, BasicSquarePatch DEF LatticeInv
<1> HIDE DEF p
<1>6. Becomes(slice, t, e, p)
  BY <1>4, <1>5, PlacingBecomes
<1>7. Good(t) /\ ~IsFree(t, e)
  BY <1>5, <1>6, PatchParts DEF Becomes, IsFree
<1> HIDE DEF t
<1>8. "Unitary" \in PatchActivities
  BY DEF PatchActivities
<1>9. slice'.cells[e].activity = "Unitary"
      /\ \A d \in Cells : d # e => slice'.cells[d] = t.cells[d]
  BY <1>1, <1>4, <1>7, <1>8, SetActivityCells
<1>10. \A d \in Cells : d # e => slice'.cells[d] = slice.cells[d]
  BY <1>6, <1>9 DEF Becomes
<1> QED
  BY <1>1, <1>4, <1>9, <1>10, FillingKeepsRoutes
\* A magic state that is taken keeps its sides.
LEMMA RequestMagicStateRoutes ==
  ASSUME LatticeInv, RoutesInv, NEW i \in PatchIds, NEW near \in PatchIds,
         RequestMagicState(i, near)
  PROVE  RoutesInv'
<1> DEFINE c == Closest(get_cell_by_id(slice, near), magic_states)
<1>1. /\ magic_states # {} /\ slice' = Requested(slice, c, i)
      /\ UNCHANGED <<busy, turn>> /\ Ready(near)
  BY DEF RequestMagicState
<1>2. get_cell_by_id(slice, near) \in Cells
  BY <1>1, ReadyIsFound
<1>3. magic_states \subseteq Cells
  BY DEF LatticeInv, MagicInv
<1>4. c \in magic_states /\ c \in Cells
  BY <1>1, <1>2, <1>3, ClosestIsIn
<1> HIDE DEF c
<1>5. /\ slice.cells[c] # Free /\ slice.cells[c].type = "PreparedState"
      /\ slice.cells[c].id = NoId /\ Good(slice)
  BY <1>4 DEF LatticeInv, MagicInv, Prepared, IdsInv
<1>6. PICK q \in Patch : /\ q.activity = "None" /\ q.boundaries = slice.cells[c].boundaries
                         /\ Becomes(slice, slice', c, q)
  BY <1>1, <1>4, <1>5, RequestingBecomes DEF IsFree
<1>7. slice'.cells[c] = q /\ \A d \in Cells : d # c => slice'.cells[d] = slice.cells[d]
  BY <1>6 DEF Becomes
<1>8. Embraces(slice.cells[c], slice'.cells[c])
  BY <1>6, <1>7, StandingEmbraces
<1>9. ~OnRoute(slice', c)
  BY <1>6, <1>7 DEF OnRoute
<1> QED
  BY <1>1, <1>4, <1>7, <1>8, <1>9, OneCellKeepsRoutes

\* A patch that is not on a route gets or loses its id.
LEMMA AssigningRoutes ==
  ASSUME LatticeInv, RoutesInv, NEW c \in Cells, ~IsFree(slice, c), ~OnRoute(slice, c),
         NEW i \in PatchIds \cup {NoId}, slice' = assign_patch_id(slice, c, i),
         UNCHANGED <<busy, turn>>
  PROVE  RoutesInv'
<1> DEFINE p == slice.cells[c]
           q == [p EXCEPT !.id = i]
<1>1. Good(slice) /\ p \in Patch
  BY CellContent DEF LatticeInv
<1>2. Becomes(slice, slice', c, q)
  BY <1>1, AssigningBecomes
<1>3. q \in Patch /\ q.activity = p.activity /\ q.boundaries = p.boundaries
  BY <1>1, PatchChanges
<1> HIDE DEF q
<1>4. slice'.cells[c] = q /\ \A d \in Cells : d # c => slice'.cells[d] = slice.cells[d]
  BY <1>2 DEF Becomes
<1>5. ~OnRoute(slice', c)
  BY <1>3, <1>4 DEF OnRoute, IsFree
<1>6. Stands(p) => Embraces(p, slice'.cells[c])
  BY <1>3, <1>4, StandingEmbraces DEF Stands
<1> QED
  BY <1>4, <1>5, <1>6, OneCellKeepsRoutes

\* So does a Y state that is borrowed.
LEMMA BorrowYStateRoutes ==
  ASSUME LatticeInv, RoutesInv, NEW i \in PatchIds, NEW near \in PatchIds,
         BorrowYState(i, near)
  PROVE  RoutesInv'
<1> DEFINE c == Closest(get_cell_by_id(slice, near), IdleYStates)
<1>1. /\ IdleYStates # {} /\ slice' = assign_patch_id(slice, c, i)
      /\ UNCHANGED <<busy, turn>> /\ Ready(near)
  BY DEF BorrowYState
<1>2. get_cell_by_id(slice, near) \in Cells
  BY <1>1, ReadyIsFound
<1>3. IdleYStates \subseteq Cells
  BY YStatesAreCells DEF IdleYStates
<1>4. c \in IdleYStates /\ c \in Cells
  BY <1>1, <1>2, <1>3, ClosestIsIn
<1> HIDE DEF c
<1>5. c \in YStateCells /\ ~is_active(slice.cells[c])
  BY <1>4 DEF IdleYStates
<1>6. ~IsFree(slice, c)
  BY <1>5 DEF LatticeInv, YStatesInv, IsFree
<1>7. ~OnRoute(slice, c)
  BY <1>5 DEF is_active, OnRoute
<1> QED
  BY <1>1, <1>4, <1>6, <1>7, AssigningRoutes

\* And one that is given back.
LEMMA GiveBackYStateRoutes ==
  ASSUME LatticeInv, RoutesInv, NEW i \in PatchIds, GiveBackYState(i)
  PROVE  RoutesInv'
<1> DEFINE c == get_cell_by_id(slice, i)
<1>1. c \in Cells /\ ~IsFree(slice, c) /\ slice.cells[c].id # NoId
  BY FoundPatch DEF GiveBackYState
<1>2. slice' = assign_patch_id(slice, c, NoId) /\ UNCHANGED <<busy, turn>>
  BY DEF GiveBackYState
<1> HIDE DEF c
<1>3. ~OnRoute(slice, c)
  BY <1>1 DEF RoutesInv, RoutesAt, WholeAt
<1> QED
  BY <1>1, <1>2, <1>3, AssigningRoutes

\* A patch may be lifted while a route leads to it; the route is not touched.
LEMMA RotatePatchRoutes ==
  ASSUME LatticeInv, RoutesInv, NEW i \in PatchIds, RotatePatch(i)
  PROVE  RoutesInv'
<1> DEFINE c == get_cell_by_id(slice, i)
           n == Beyond(c, LastSide(FreeSides(slice, c)))
           p == slice.cells[c]
           lifted == [p EXCEPT
             !.activity = IF p.activity = "Unitary" THEN "None" ELSE p.activity,
             !.boundaries = instant_rotate(p.boundaries)]
           t == clear_patch_at(slice, c)
           patches == [d \in {c, n} |-> RoutingPatch(d, "Rotation", {c, n})]
           rot == [cell |-> c, neighbour |-> n, patch |-> lifted,
                   steps_to_clear |-> 2, due |-> FALSE]
<1>1. c \in Cells /\ ~IsFree(slice, c) /\ Good(slice)
  BY FoundPatch DEF RotatePatch, LatticeInv
<1>2. /\ FreeSides(slice, c) # {} /\ slice' = mark_routing_region(t, patches)
      /\ busy' = busy \cup {rot} /\ UNCHANGED turn
  BY DEF RotatePatch
<1>3. n \in Cells /\ IsFree(slice, n) /\ n # c
  <2>1. FreeSides(slice, c) \subseteq Directions
    BY DEF FreeSides
  <2>2. LastSide(FreeSides(slice, c)) \in FreeSides(slice, c)
    BY <1>2, <2>1, LastSideIsIn
  <2> QED
    BY <1>1, <2>1, <2>2, BeyondIsAnother DEF FreeSides
<1>4. rot \in busy' /\ rot.cell = c /\ rot.due = FALSE
  BY <1>2
<1> HIDE DEF n, lifted, rot
<1>5. Becomes(slice, t, c, Free)
  BY <1>1, ClearingBecomes
<1> HIDE DEF t, c, p
<1>6. /\ Good(t) /\ t.cells[c] = Free /\ t.cells[n] = Free
      /\ \A d \in Cells : d # c => t.cells[d] = slice.cells[d]
  BY <1>3, <1>5 DEF Becomes, IsFree
<1>7. DOMAIN patches = {c, n}
      /\ \A d \in {c, n} : /\ patches[d] \in Patch /\ patches[d].type = "Routing"
                           /\ patches[d].activity = "Rotation" /\ patches[d].id = NoId
  BY RoutingPatchIs DEF PatchActivities
<1> HIDE DEF patches
<1>8. \A d \in Cells : slice'.cells[d] = IF d \in {c, n} THEN patches[d] ELSE t.cells[d]
  <2>1. \A d \in Cells \cap DOMAIN patches :
          Bears(t, d) = NoId /\ patches[d] \in Patch /\ patches[d].type = "Routing"
          /\ patches[d].id = NoId
    BY <1>6, <1>7 DEF Bears, IsFree
  <2> QED
    BY <1>2, <1>6, <1>7, <2>1, MarkedRegion
<1>9. ~OnRoute(slice', c) /\ ~OnRoute(slice', n)
  BY <1>1, <1>3, <1>7, <1>8 DEF OnRoute
<1>10. \A d \in Cells : d # c /\ d # n => slice'.cells[d] = slice.cells[d]
  BY <1>6, <1>8
<1>11. \A d \in Cells : OnRoute(slice', d) => slice'.cells[d] = slice.cells[d]
  BY <1>9, <1>10
<1>12. \A d \in Cells : Stands(slice.cells[d]) =>
         Embraces(slice.cells[d], slice'.cells[d]) \/ \E r \in busy' : r.cell = d /\ ~r.due
  <2> TAKE d \in Cells
  <2>1. CASE d = c
    BY <1>4, <2>1
  <2>2. CASE d = n
    BY <1>3, <2>2 DEF Stands, IsFree
  <2>3. CASE d # c /\ d # n
    BY <1>10, <2>3 DEF Embraces
  <2> QED
    BY <2>1, <2>2, <2>3
<1>13. \A r \in busy : ~r.due => \E q \in busy' : q.cell = r.cell /\ ~q.due
  BY <1>2
<1>14. RoutesAt(slice, busy, turn)
  BY DEF RoutesInv
<1>15. RoutesAt(slice', busy', turn)
  BY <1>11, <1>12, <1>13, <1>14, RoutesSurvive
<1> QED
  BY <1>2, <1>15 DEF RoutesInv

\* A rotation under way changes its own cells only.
LEMMA ContinueRotationRoutes ==
  ASSUME LatticeInv, RoutesInv, NEW r \in busy, ContinueRotation(r)
  PROVE  RoutesInv'
<1> DEFINE next == [r EXCEPT !.steps_to_clear = @ - 1, !.due = FALSE]
<1>1. r.due /\ busy' = (busy \ {r}) \cup {next} /\ UNCHANGED <<slice, turn>>
  BY DEF ContinueRotation
<1>2. \A q \in busy : ~q.due => \E x \in busy' : x.cell = q.cell /\ ~x.due
  BY <1>1
<1>3. \A c \in Cells : Stands(slice.cells[c]) => Embraces(slice.cells[c], slice'.cells[c])
  BY <1>1 DEF Embraces
<1>4. RoutesAt(slice, busy, turn)
  BY DEF RoutesInv
<1>5. RoutesAt(slice', busy', turn)
  BY <1>1, <1>2, <1>3, <1>4, RoutesSurvive
<1> QED
  BY <1>1, <1>5 DEF RoutesInv

\* A rotation that is due ends before any route can lead to its patch.
LEMMA EndRotationRoutes ==
  ASSUME LatticeInv, RoutesInv, NEW r \in busy, EndRotation(r)
  PROVE  RoutesInv'
<1> DEFINE c == r.cell
           n == r.neighbour
           p == r.patch
           t1 == clear_patch_at(slice, c)
           t2 == clear_patch_at(t1, n)
<1>1. /\ slice' = place_dense_patch_at(t2, c, p) /\ busy' = busy \ {r}
      /\ r.due /\ UNCHANGED turn
  BY DEF EndRotation
<1>2. /\ c \in Cells /\ n \in Cells /\ c # n /\ p \in Patch /\ Shaped(c, p) /\ ~Done(p)
      /\ InRotation(slice.cells[c]) /\ InRotation(slice.cells[n]) /\ Good(slice)
  BY DEF LatticeInv, RegionsInv, Rotations
<1> HIDE DEF c, n, p
<1>3. Becomes(slice, t1, c, Free)
  BY <1>2, ClearingBecomes
<1>4. Good(t1)
  BY <1>3 DEF Becomes
<1> HIDE DEF t1
<1>5. Becomes(t1, t2, n, Free)
  BY <1>2, <1>4, ClearingBecomes
<1>6. Good(t2)
  BY <1>5 DEF Becomes
<1> HIDE DEF t2
<1>7. Becomes(t2, slice', c, p)
  BY <1>1, <1>2, <1>6, PlacingBecomes
<1>8. /\ slice'.cells[c] = p /\ slice'.cells[n] = Free
      /\ \A d \in Cells : d # c /\ d # n => slice'.cells[d] = slice.cells[d]
  BY <1>2, <1>3, <1>5, <1>7 DEF Becomes
<1>9. ~OnRoute(slice', c) /\ ~OnRoute(slice', n)
  BY <1>2, <1>8 DEF OnRoute, Done
<1>10. \A d \in Cells : OnRoute(slice', d) => slice'.cells[d] = slice.cells[d]
  BY <1>8, <1>9
<1>11. \A d \in Cells : Stands(slice.cells[d]) => Embraces(slice.cells[d], slice'.cells[d])
  BY <1>2, <1>8 DEF Stands, Embraces, InRotation
<1>12. \A q \in busy : ~q.due => \E x \in busy' : x.cell = q.cell /\ ~x.due
  BY <1>1
<1>13. RoutesAt(slice, busy, turn)
  BY DEF RoutesInv
<1>14. RoutesAt(slice', busy', turn)
  BY <1>10, <1>11, <1>12, <1>13, RoutesSurvive
<1> QED
  BY <1>1, <1>14 DEF RoutesInv
\* No route is left when the slice ends.
LEMMA AdvanceSliceRoutes ==
  ASSUME LatticeInv, AdvanceSlice
  PROVE  RoutesInv'
<1> DEFINE left == [c \in Cells |-> IF IsFree(slice, c) THEN Free ELSE Settled(slice.cells[c])]
           cleared == {c \in Cells : ~IsFree(slice, c) /\ Done(slice.cells[c])}
<1>1. slice' = traverse_cells_mut(slice, left, cleared)
  BY DEF AdvanceSlice
<1>2. ASSUME NEW c \in Cells, OnRoute(slice', c)
      PROVE  FALSE
  <2>1. slice'.cells[c] = IF IsFree(slice, c) \/ c \in cleared THEN Free ELSE left[c]
    BY <1>1 DEF traverse_cells_mut
  <2>2. ~IsFree(slice, c) /\ c \notin cleared /\ slice'.cells[c] = left[c]
    BY <1>2, <2>1 DEF OnRoute
  <2>3. slice'.cells[c] = Settled(slice.cells[c]) /\ ~Done(slice.cells[c])
    BY <2>2
  <2>4. slice.cells[c] \in Patch /\ Shaped(c, slice.cells[c])
    BY <2>2, CellContent DEF LatticeInv
  <2>5. ~Done(slice'.cells[c])
    BY <2>3, <2>4, SettledPatch
  <2> QED
    BY <1>2, <2>5 DEF OnRoute, Done
<1> QED
  BY <1>2 DEF RoutesInv, RoutesAt

\* States are put on the lattice when no route is on it.
LEMMA SpawningRoutes ==
  ASSUME LatticeInv, RoutesInv, turn # 0, NEW c, NEW q,
         q.activity # "MultiPatchMeasurement",
         slice' = slice \/ slice' = place_dense_patch_at(slice, c, q)
  PROVE  RoutesInv'
<1>1. DOMAIN slice.cells = Cells
  <2>1. slice.cells \in [Cells -> Patch \cup {Free}]
    BY SliceParts DEF LatticeInv, Good
  <2> QED
    BY <2>1
<1>2. \A d \in Cells : slice'.cells[d] = slice.cells[d] \/ slice'.cells[d] = q
  BY <1>1 DEF place_dense_patch_at
<1>3. \A d \in Cells : ~OnRoute(slice, d)
  BY DEF RoutesInv, RoutesAt
<1>4. \A d \in Cells : ~OnRoute(slice', d)
  BY <1>2, <1>3 DEF OnRoute
<1> QED
  BY <1>4 DEF RoutesInv, RoutesAt

\* Distilled states are put on free cells.
LEMMA DistilRoutes ==
  ASSUME LatticeInv, RoutesInv, Distil
  PROVE  RoutesInv'
<1> DEFINE c == distilled_state_locations[turn][Min(FreePlaces(turn))]
<1>1. turn # 0
  BY DEF Distil
<1>2. slice' = slice \/ slice' = place_dense_patch_at(slice, c, MagicState)
  BY DEF Distil, SpawnAt
<1>3. MagicState.activity = "None"
  <2>1. basic_square_patch(NoId) \in Patch /\ basic_square_patch(NoId).activity = "None"
    BY DEF basic_square_patch, basic_square_look, Named, Patch, PatchTypes, PatchActivities,
           CellBoundaries, Boundary, BoundaryTypes, boundary
  <2> QED
    BY <2>1, PatchChanges DEF MagicState, PatchTypes
<1> HIDE DEF c
<1> QED
  BY <1>1, <1>2, <1>3, SpawningRoutes

\* Respawned states are put on tiles that are free.
LEMMA RespawnRoutes ==
  ASSUME LatticeInv, RoutesInv, Respawn
  PROVE  RoutesInv'
<1> DEFINE c == reserved_for_magic_states[turn]
           tile == Tile("Distillation", Uniform("Connected"))
           s == IF IsFree(slice, c) THEN place_dense_patch_at(slice, c, tile) ELSE slice
<1>1. turn # 0 /\ Good(slice) /\ turn \in Factories /\ magic_states_reserved
  <2>1. turn > 0 /\ magic_states_reserved
    BY DEF Respawn
  <2> QED
    BY <2>1, NextTurnIs DEF LatticeInv, TimersInv
<1>2. c \in Cells
  BY <1>1, InstancesAssumption
<1>3. slice' = s \/ slice' = place_dense_patch_at(s, c, MagicState)
  BY DEF Respawn, SpawnAt
<1>4. MagicState.activity = "None" /\ tile.activity = "Distillation"
  BY <1>2, SpawnedPatch
<1>5. slice.cells \in [Cells -> Patch \cup {Free}]
  BY <1>1, SliceParts DEF Good
<1> HIDE DEF c, tile
<1>6. \A d \in Cells : slice'.cells[d] \in {slice.cells[d], tile, MagicState}
  <2>1. \A d \in Cells : s.cells[d] = slice.cells[d] \/ s.cells[d] = tile
    BY <1>2, <1>5 DEF place_dense_patch_at
  <2>2. DOMAIN s.cells = Cells
    BY <1>2, <1>5 DEF place_dense_patch_at
  <2> HIDE DEF s
  <2> QED
    BY <1>2, <1>3, <2>1, <2>2 DEF place_dense_patch_at
<1>7. \A d \in Cells : ~OnRoute(slice, d)
  BY <1>1 DEF RoutesInv, RoutesAt
<1>8. \A d \in Cells : ~OnRoute(slice', d)
  BY <1>4, <1>6, <1>7 DEF OnRoute
<1> QED
  BY <1>8 DEF RoutesInv, RoutesAt

\* No step cuts a route.
LEMMA RoutesSteps ==
  ASSUME LatticeInv, RoutesInv, [LatticeNext]_vars
  PROVE  RoutesInv'
<1>1. ASSUME NEW i \in PatchIds,
             \/ MeasureSinglePatch(i) \/ Hadamard(i) \/ SGate(i)
             \/ PatchInit(i) \/ RotatePatch(i) \/ GiveBackYState(i)
      PROVE  RoutesInv'
  <2>1. CASE MeasureSinglePatch(i)
    BY <2>1, MeasureSinglePatchRoutes
  <2>2. CASE Hadamard(i)
    BY <2>2, HadamardRoutes
  <2>3. CASE SGate(i)
    BY <2>3, SGateRoutes
  <2>4. CASE PatchInit(i)
    BY <2>4, PatchInitRoutes
  <2>5. CASE RotatePatch(i)
    BY <2>5, RotatePatchRoutes
  <2>6. CASE GiveBackYState(i)
    BY <2>6, GiveBackYStateRoutes
  <2> QED
    BY <1>1, <2>1, <2>2, <2>3, <2>4, <2>5, <2>6
<1>2. ASSUME NEW i \in PatchIds, NEW near \in PatchIds,
             \/ \E op \in {"X", "Z"} : PatchInitNextTo(i, near, op)
             \/ RequestMagicState(i, near)
             \/ BorrowYState(i, near)
             \/ PrepareYState(i, near)
             \/ \E op1, op2 \in {"X", "Z"} : MeasureMultiPatch(i, op1, near, op2)
      PROVE  RoutesInv'
  <2>1. ASSUME NEW op \in {"X", "Z"}, PatchInitNextTo(i, near, op)
        PROVE  RoutesInv'
    BY <2>1, PatchInitNextToRoutes
  <2>2. CASE RequestMagicState(i, near)
    BY <2>2, RequestMagicStateRoutes
  <2>3. CASE BorrowYState(i, near)
    BY <2>3, BorrowYStateRoutes
  <2>4. CASE PrepareYState(i, near)
    BY <2>4, PrepareYStateRoutes
  <2>5. ASSUME NEW op1 \in {"X", "Z"}, NEW op2 \in {"X", "Z"},
               MeasureMultiPatch(i, op1, near, op2)
        PROVE  RoutesInv'
    BY <2>5, MeasureMultiPatchRoutes
  <2> QED
    BY <1>2, <2>1, <2>2, <2>3, <2>4, <2>5
<1>3. ASSUME NEW r \in busy, ContinueRotation(r) \/ EndRotation(r)
      PROVE  RoutesInv'
  BY <1>3, ContinueRotationRoutes, EndRotationRoutes
<1>4. CASE AdvanceSlice \/ Distil \/ Respawn
  BY <1>4, AdvanceSliceRoutes, DistilRoutes, RespawnRoutes
<1>5. CASE UNCHANGED vars
  BY <1>5 DEF vars, RoutesInv
<1> QED
  BY <1>1, <1>2, <1>3, <1>4, <1>5 DEF LatticeNext

\* There are no routes to begin with.
LEMMA RoutesStart ==
  ASSUME LatticeInit
  PROVE  RoutesInv
<1>1. \A c \in Cells : slice.cells[c] = InitialPatch(c)
  BY DEF LatticeInit, SliceInit
<1>2. \A c \in Cells : ~OnRoute(slice, c)
  BY <1>1, InitialPatchIs DEF OnRoute, Done
<1> QED
  BY <1>2 DEF RoutesInv, RoutesAt

(***************************************************************************)
(* Within a slice no route is cut, whatever is merged, turned, lifted or   *)
(* prepared after it was drawn: every cell is joined to two others, and    *)
(* each of them to it, or it was lifted for a rotation (merge_patches,     *)
(* dense_patch_computation.cpp).                                           *)
(***************************************************************************)
THEOREM RoutesAreWhole ==
  ASSUME RespawnIsSafe, YStatesStay
  PROVE  LatticeSpec => []RoutesStayWhole
<1>1. LatticeInit => LatticeInv /\ RoutesInv
  BY LatticeStarts, RoutesStart
<1>2. LatticeInv /\ RoutesInv /\ [LatticeNext]_vars => LatticeInv' /\ RoutesInv'
  BY LatticeSteps, RoutesSteps
<1>3. RoutesInv => RoutesStayWhole
  BY DEF RoutesInv, RoutesAt, RoutesStayWhole, OnRoute, WholeAt, Joined, Holds, Stands, IsFree
<1> QED
  BY <1>1, <1>2, <1>3, PTL DEF LatticeSpec
=============================================================================
