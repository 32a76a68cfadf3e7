--------------------------- MODULE CrossingRoutes ---------------------------
(***************************************************************************)
(* The routes of an EDPC wave, which share no edge but may cross: where a  *)
(* route may go (custom_graph_search.cpp), and how its cells are marked    *)
(* (mark_routing_region, dense_patch_computation.cpp; the methods of       *)
(* DenseSlice for crossing cells, dense_slice.cpp).                        *)
(*                                                                         *)
(* Sides of the cells of a route get one of two labels.  Where two routes  *)
(* cross their labels have to differ, so that a route may have to change   *)
(* its own on the way, and marking one may relabel others.                 *)
(***************************************************************************)
EXTENDS SliceGeometry

Labels == {"Reserved_Label1", "Reserved_Label2"}

Other(type) == CASE type = "Reserved_Label1" -> "Reserved_Label2"
                 [] type = "Reserved_Label2" -> "Reserved_Label1"
                 [] type = "Rough"           -> "Smooth"
                 [] type = "Smooth"          -> "Rough"
                 [] type = "None"            -> "Connected"
                 [] type = "Connected"       -> "None"

Side(s, c, n) == s.cells[c].boundaries[Between(c, n)]

is_boundary_reserved(s, c, n) ==
  ~IsFree(s, c) /\ Side(s, c, n).boundary_type \in Labels

-----------------------------------------------------------------------------
(* Where a route may go. *)

is_cell_free_or_activity(s, c, activities) ==
  IsFree(s, c) \/ s.cells[c].activity \in activities

(* Faulty: the cells of another route may be entered through its edges. *)
EdgeIgnoresLabels(s, a, b, source, source_op, target, target_op, EDPC) ==
  LET open(c) == is_cell_free_or_activity(s, c, IF EDPC THEN {"EDPC"} ELSE {})
  IN \/ open(a) /\ open(b)
     \/ a = source /\ (open(b) \/ b = target) /\ Facing(s, a, b, source_op)
          /\ (b = target => Facing(s, b, a, target_op))
     \/ open(a) /\ b = target /\ Facing(s, b, a, target_op)

have_directed_edge(s, a, b, source, source_op, target, target_op, EDPC) ==
  LET open(c) == is_cell_free_or_activity(s, c, IF EDPC THEN {"EDPC"} ELSE {})
  IN \/ open(a) /\ open(b) /\ ~(EDPC /\ is_boundary_reserved(s, a, b))
     \/ a = source /\ (open(b) \/ b = target) /\ Facing(s, a, b, source_op)
          /\ (b = target => Facing(s, b, a, target_op))
     \/ open(a) /\ b = target /\ Facing(s, b, a, target_op)

(***************************************************************************)
(* The shortest routes, from the target to the source: walks from the      *)
(* source, the last cell first, that grow by unseen cells.                 *)
(***************************************************************************)
Around(c) == {Beyond(c, d) : d \in Directions} \cap Cells

ShortestRoutes(s, source, source_op, target, target_op, EDPC) ==
  LET edge(a, b) == have_directed_edge(s, a, b, source, source_op, target, target_op, EDPC)
      Grown(walks, seen) ==
        UNION {{<<c>> \o w : c \in {n \in Around(w[1]) \ seen : edge(w[1], n)}} : w \in walks}
      search[n \in 0 .. Cardinality(Cells)] ==
        IF n = 0 THEN [walks |-> {<<source>>}, seen |-> {source}]
        ELSE LET last == search[n - 1]
                 walks == Grown(last.walks, last.seen)
             IN IF target \in last.seen THEN last
                ELSE [walks |-> walks, seen |-> last.seen \cup {w[1] : w \in walks}]
  IN {w \in search[Cardinality(Cells)].walks : w[1] = target}

-----------------------------------------------------------------------------
(* Marking.  A marking under way is the slice, the cells where two routes  *)
(* cross, the label that free cells get, and whether an error was thrown.  *)

Order == <<"top", "bottom", "left", "right">>

Label(s, c, d) == s.cells[c].boundaries[d].boundary_type

Set(s, c, d, label) ==
  IF IsFree(s, c) THEN s
  ELSE [s EXCEPT !.cells[c] = [@ EXCEPT !.boundaries[d].boundary_type = label]]

(* Faulty: the conjugate is left as it was. *)
SetOne(s, c, d, label) == Set(s, c, d, label)

(***************************************************************************)
(* Set a side of a cell and, if there is a patch beyond it, its conjugate. *)
(***************************************************************************)
SetBoth(s, c, d, label) == Set(Set(s, c, d, label), Beyond(c, d), Opposite(d), label)

Flipped(s, sides) ==
  LET flip(p, c) ==
        [p EXCEPT !.boundaries =
           [d \in Directions |-> IF <<c, d>> \in sides
                                 THEN [@[d] EXCEPT !.boundary_type = Other(@)] ELSE @[d]]]
  IN [s EXCEPT !.cells =
        [c \in Cells |-> IF IsFree(s, c) THEN Free ELSE flip(s.cells[c], c)]]

Conjugate(side) == <<Beyond(side[1], side[2]), Opposite(side[2])>>

(***************************************************************************)
(* Flip the sides of a row of crossing cells and their conjugates, but for *)
(* the side that each is entered by.  That all these sides have labels,    *)
(* which the code asserts, is part of CrossingsAgree.                      *)
(***************************************************************************)
flip_crossing_chain(s, crossing, cell, dir) ==
  LET row[k \in 0 .. Cardinality(crossing)] ==
        IF k = 0 THEN cell ELSE Beyond(row[k - 1], dir)
      length == CHOOSE k \in 1 .. Cardinality(crossing) :
                  row[k] \notin crossing /\ \A j \in 0 .. (k - 1) : row[j] \in crossing
      flips == {row[k] : k \in 0 .. (length - 1)} \X (Directions \ {Opposite(dir)})
  IN Flipped(s, flips \cup {Conjugate(side) : side \in flips})

(***************************************************************************)
(* The cell of a route that crosses another: give the sides of the other   *)
(* route a label that differs from the one the side towards prev has, if   *)
(* it has one, then set the sides of this route to the opposite.           *)
(***************************************************************************)
mark_boundaries_for_crossing_cell(s, crossing, cell, prev) ==
  LET before   == Between(cell, prev)
      chained  == prev \in crossing
      reserved == {d \in Directions : Label(s, cell, d) \in Labels}
      others   == SelectSeq(Order, LAMBDA d : d \in reserved \ {before})
      first    == others[1]
      wanted   == IF Label(s, cell, first) = Label(s, cell, before)
                  THEN Other(Label(s, cell, first)) ELSE Label(s, cell, first)
      flips(t, d) == Label(t, cell, d) # wanted
      rows     == {d \in Elements(others) : flips(s, d) /\ Beyond(cell, d) \in crossing}
      relabel(t, d) ==
        IF ~flips(t, d) THEN t
        ELSE IF d \in rows
             THEN flip_crossing_chain(SetBoth(t, cell, d, wanted), crossing, Beyond(cell, d), d)
             ELSE SetBoth(t, cell, d, wanted)
      relabelled[k \in 0 .. Len(others)] ==
        IF k = 0 THEN s ELSE relabel(relabelled[k - 1], others[k])
      own(t, d) == LET u == SetBoth(t, cell, d, Other(wanted))
                   IN [u EXCEPT !.cells[cell] = [@ EXCEPT !.boundaries[d].is_active = TRUE]]
      unset    == SelectSeq(Order, LAMBDA d : d \notin reserved)
      marked[k \in 0 .. Len(unset)] ==
        IF k = 0 THEN relabelled[Len(others)] ELSE own(marked[k - 1], unset[k])
      beside   == rows \cup (IF chained THEN {before} ELSE {})
      throws   == \/ \E d \in Directions : Beyond(cell, d) \notin Cells
                  \/ \E d \in Directions \ reserved : Label(s, cell, d) # "None"
                  \/ chained # (before \in reserved)
                  \/ Len(others) # 2
                  \/ Cardinality(beside) > 2
                  \/ \E d, e \in beside : e \notin {d, Opposite(d)}
  IN IF throws THEN [slice |-> s, label |-> "None", threw |-> TRUE]
     ELSE [slice |-> marked[Len(unset)], label |-> Other(wanted), threw |-> FALSE]

(***************************************************************************)
(* A free cell of a route has the label on the sides towards the cells     *)
(* before and after it.                                                    *)
(***************************************************************************)
RoutePatch(c, joined, label) ==
  LET side(d) == IF Beyond(c, d) \in joined
                 THEN [boundary_type |-> label, is_active |-> TRUE] ELSE boundary("None")
  IN Named([type |-> "Routing", activity |-> "EDPC",
            boundaries |-> [top |-> side("top"), bottom |-> side("bottom"),
                            left |-> side("left"), right |-> side("right")]], NoId)

(***************************************************************************)
(* One cell of mark_routing_region, the k-th of the route.                 *)
(***************************************************************************)
Marked(m, route, k) ==
  LET c == route[k]
      joined == {route[j] : j \in {k - 1, k + 1} \cap DOMAIN route}
      p == m.slice.cells[c]
  IN IF m.threw THEN m
     ELSE IF p = Free
       THEN [m EXCEPT !.slice = place_dense_patch_at(m.slice, c, RoutePatch(c, joined, m.label))]
     ELSE IF p.activity = "EDPC"
       THEN LET r == mark_boundaries_for_crossing_cell(m.slice, m.crossing \cup {c},
                                                       c, route[k - 1])
            IN IF c \in m.crossing THEN [m EXCEPT !.threw = TRUE]
               ELSE [slice |-> r.slice, crossing |-> m.crossing \cup {c},
                     label |-> r.label, threw |-> r.threw]
     ELSE IF k \in {1, Len(route)}
       THEN [m EXCEPT !.slice =
               Set(m.slice, c, Between(c, CHOOSE n \in joined : TRUE), m.label)]
     ELSE [m EXCEPT !.threw = TRUE]

mark_routing_region(s, crossing, route) ==
  LET marked[k \in 0 .. Len(route)] ==
        IF k = 0 THEN [slice |-> s, crossing |-> crossing,
                       label |-> "Reserved_Label1", threw |-> FALSE]
        ELSE Marked(marked[k - 1], route, k)
  IN marked[Len(route)]

(***************************************************************************)
(* The labels along a route from the target on, each read at the cell that *)
(* the edge leaves; it has a segment for every stretch of one label.       *)
(***************************************************************************)
EdgeLabels(s, route) ==
  [k \in 1 .. (Len(route) - 1) |-> Side(s, route[k], route[k + 1]).boundary_type]

route_endpoints(s, route) ==
  LET labels == EdgeLabels(s, route)
      starts == SelectSeq([k \in DOMAIN labels |-> k],
                          LAMBDA k : k = 1 \/ labels[k] # labels[k - 1])
  IN [i \in DOMAIN starts |->
        [from |-> starts[i] - 1, label |-> labels[starts[i]],
         to |-> IF i = Len(starts) THEN Len(labels) ELSE starts[i + 1] - 1]]
=============================================================================
