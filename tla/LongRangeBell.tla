--------------------------- MODULE LongRangeBell ---------------------------
(***************************************************************************)
(* How operations along a route are compiled to local instructions, each   *)
(* on two neighbouring cells: compile_long_range_Bell and the callers that *)
(* put a CNOT together from its results (dense_patch_computation.cpp).     *)
(*                                                                         *)
(* A route is the sequence of its cells, the target's first; positions on  *)
(* it count from 0, as in the code.  The result has two layers, the local  *)
(* instructions of a layer are meant for one slice.                        *)
(***************************************************************************)
EXTENDS Integers, Sequences

CONSTANT NoSide               \* std::nullopt for the id of a Bell patch

Local(kind, from, to) == [kind |-> kind, cells |-> <<from, to>>,
                          ids |-> <<NoSide, NoSide>>]

BellPrepare(id1, id2, from, to) ==
  [Local("BellPrepare", from, to) EXCEPT !.ids = <<id1, id2>>]

Layers(layer1, layer2) == <<layer1, layer2>>

Both(a, b) == <<a[1] \o b[1], a[2] \o b[2]>>

(* Faulty: the step before the end is left out. *)
StepsBelow(first, end) ==
  [k \in 1 .. (IF first < end - 1 THEN (end - first) \div 2 ELSE 0) |-> first + 2 * (k - 1)]

(***************************************************************************)
(* first, first + 2, ... below end.                                        *)
(***************************************************************************)
Steps(first, end) ==
  [k \in 1 .. (IF first < end THEN (end - first + 1) \div 2 ELSE 0) |-> first + 2 * (k - 1)]

IsPreparing(type) == type \in {"Prep", "Split"}

(* Faulty: the patch stays where the chain ends. *)
NoMove(type, c, start, end, reverse) == Layers(<<>>, <<>>)

(***************************************************************************)
(* A route of odd length moves one patch, at the end away from the one     *)
(* where the chain is joined: once the chain is prepared, or before it is  *)
(* measured.                                                               *)
(***************************************************************************)
OddMove(type, c, start, end, reverse) ==
  LET moved == IF IsPreparing(type)
               THEN IF reverse THEN Local("Move", c[end - 1], c[end])
                               ELSE Local("Move", c[start + 1], c[start])
               ELSE IF reverse THEN Local("Move", c[end], c[end - 1])
                               ELSE Local("Move", c[start], c[start + 1])
  IN IF (end - start) % 2 # 0 THEN Layers(<<>>, <<>>)
     ELSE IF IsPreparing(type) THEN Layers(<<>>, <<moved>>) ELSE Layers(<<moved>>, <<>>)

(***************************************************************************)
(* A Split or a Merge joins the patch at one end of the route, near, to    *)
(* the chain; next and after are the cells that follow it.                 *)
(***************************************************************************)
Joined(type, near, next, after, short, side) ==
  CASE type = "Split" ->
         Layers(<<Local("ExtendSplit", near, next)>>,
                IF short THEN <<>> ELSE <<Local("BellMeasure", next, after)>>)
    [] type = "Merge" ->
         Layers(IF short THEN <<>> ELSE <<BellPrepare(side, NoSide, next, after)>>,
                <<Local("MergeContract", near, next)>>)
    [] OTHER -> Layers(<<>>, <<>>)

(***************************************************************************)
(* The chain between start and end, when the joined end is cut off: pairs  *)
(* of cells from the first cell on, and the pairs between these.           *)
(***************************************************************************)
Chain(type, c, start, end, odd, reverse, side1, side2) ==
  LET offset == IF odd /\ ~reverse THEN 1 ELSE 0
      last   == end - 1 - (IF odd /\ reverse THEN 1 ELSE 0)
      ends   == Steps(start + offset, end)
      links  == Steps(start + 2 + offset, end)
      Seq1(f(_)) == [k \in DOMAIN ends |-> f(ends[k])]
      Seq2(f(_)) == [k \in DOMAIN links |-> f(links[k])]
      id(here, side) == IF here THEN side ELSE NoSide
  IN IF IsPreparing(type)
     THEN Layers(Seq1(LAMBDA j : BellPrepare(id(j = start + offset, side2), id(j = last, side1),
                                             c[j], c[j + 1])),
                 Seq2(LAMBDA j : Local("BellMeasure", c[j - 1], c[j])))
     ELSE Layers(Seq2(LAMBDA j : BellPrepare(id(~reverse /\ j = start + 2 + offset, side2),
                                             id(reverse /\ j = last, side1), c[j - 1], c[j])),
                 Seq1(LAMBDA j : Local("BellMeasure", c[j], c[j + 1])))

(***************************************************************************)
(* The throw for an invalid range is not reached: start < end always, and  *)
(* end is a position on the route.                                         *)
(***************************************************************************)
compile_long_range_Bell(type, route, start, end, reverse, side1, side2) ==
  LET c == [k \in 0 .. (Len(route) - 1) |-> route[k + 1]]
      size  == end - start + 1
      odd   == size % 2 = 1
      joins == type \in {"Split", "Merge"}
      short == joins /\ size \in {2, 3}
      step  == IF reverse THEN 1 ELSE -1
      near  == IF reverse THEN start ELSE end
      after == IF short THEN near + step ELSE near + 2 * step
      moved == OddMove(type, c, start, end, reverse)
      joint == IF joins THEN Joined(type, c[near], c[near + step], c[after], short,
                                    IF reverse THEN side2 ELSE side1)
               ELSE Layers(<<>>, <<>>)
      from  == IF joins /\ reverse THEN start + 2 ELSE start
      to    == IF joins /\ ~reverse THEN end - 2 ELSE end
  IN Both(Both(moved, joint),
          IF short THEN Layers(<<>>, <<>>)
          ELSE Chain(type, c, from, to, odd, reverse, side1, side2))

(***************************************************************************)
(* A CNOT in two layers: both ends are joined to a chain between them.     *)
(***************************************************************************)
WholeCNOT(route, side1, side2) ==
  LET n == Len(route)
      Compile(type, start, end, reverse, s1, s2) ==
        compile_long_range_Bell(type, route, start, end, reverse, s1, s2)
  IN IF n % 2 = 0
     THEN Both(Both(Compile("Merge", n - 2, n - 1, FALSE, NoSide, NoSide),
                    Compile("Merge", 0, 1, TRUE, NoSide, NoSide)),
               Compile("Prep", 1, n - 2, TRUE, side1, side2))
     ELSE Both(Compile("Split", n - 2, n - 1, FALSE, NoSide, NoSide),
               Compile("Merge", 0, n - 2, TRUE, side1, side2))

(***************************************************************************)
(* With EDPC: a segment with the first label is prepared in the first      *)
(* phase, one with the second label is measured in the second.             *)
(***************************************************************************)
SegmentType(label, position, last) ==
  IF position \in {1, last}
  THEN IF label = "Reserved_Label1" THEN "Split" ELSE "Merge"
  ELSE IF label = "Reserved_Label1" THEN "Prep" ELSE "Measure"

(***************************************************************************)
(* The segments are [from, to, label].                                     *)
(***************************************************************************)
Segment(route, s, position, last, side1, side2) ==
  IF last = 1 THEN WholeCNOT(route, side1, side2)
  ELSE compile_long_range_Bell(
         SegmentType(s.label, position, last), route, s.from, s.to, position = 1,
         NoSide,
         IF s.label # "Reserved_Label1" THEN NoSide
         ELSE IF position = 1 THEN side2 ELSE IF position = last THEN side1 ELSE NoSide)
=============================================================================
