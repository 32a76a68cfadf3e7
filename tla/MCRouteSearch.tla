---------------------------- MODULE MCRouteSearch ----------------------------
(***************************************************************************)
(* Instances of HeapSearch for TLC.  The first query, on a free lattice,   *)
(* fills the arrays and the cache, the second finds every cell taken.  The *)
(* last is between the same corners, along the row, or from a cell back to *)
(* it.  With some of the cells that may be taken then, A* lowers keys in   *)
(* place and pops a vertex that is not the least, or has to turn back from *)
(* a way that leads straight to the target.                                *)
(***************************************************************************)
EXTENDS HeapSearch

LowerRight == <<2, 5>>

Ask(taken, walls, source, target, rotated, source_op, target_op) ==
  [open |-> Cells \ (taken \cup {source, target}), walls |-> walls, source |-> source,
   target |-> target, rotated |-> rotated, source_op |-> source_op, target_op |-> target_op]

NW == <<0, 0>>
SE == <<2, 5>>
West == <<1, 1>>
East == <<1, 4>>

WarmUps(taken) ==
  {Ask(taken, {}, SE, NW, {}, "Z", "X"), Ask(taken, {}, West, West, {}, "X", "Z")}

(***************************************************************************)
(* The second route of an EDPC wave may cross the first, or follow it from *)
(* cell to cell but not share an edge with it.                             *)
(***************************************************************************)
FirstRoute ==
  {<<<<0, 4>>, <<1, 4>>>>, <<<<1, 4>>, <<0, 4>>>>, <<<<1, 4>>, <<2, 4>>>>, <<<<2, 4>>, <<1, 4>>>>}

Taken == SUBSET {<<0, 4>>, <<1, 0>>, <<1, 2>>, <<1, 3>>}

AnyQuery ==
  {Ask(taken, {}, e[1], e[2], {}, e[3], "Z") :
     taken \in Taken, e \in {<<SE, NW, "X">>, <<West, East, "Z">>, <<West, West, "X">>}}
    \cup {Ask({<<1, 3>>}, walls, SE, NW, rotated, "Z", "X") :
           walls \in {{}, FirstRoute}, rotated \in {{}, {SE}}}

SomeQueries == <<WarmUps({}), WarmUps(Cells), AnyQuery>>
=============================================================================
