----------------------------- MODULE PatchIndex -----------------------------
(***************************************************************************)
(* What a slice promises about patch ids, without a cache: a cell may bear *)
(* an id, and the home of an id is the cell that was given it last, for as *)
(* long as that cell still bears it.                                       *)
(*                                                                         *)
(* Two cells may bear the same id for a moment, while a patch is moved.    *)
(***************************************************************************)
CONSTANTS
  Cells,
  PatchIds,
  NoId,                  \* std::nullopt for an id
  Nowhere                \* std::nullopt for a cell

VARIABLES
  bears,                 \* the id each cell bears
  home                   \* where each id is found

indexVars == <<bears, home>>

(***************************************************************************)
(* A slice may start with patches in it.                                   *)
(***************************************************************************)
Init ==
  /\ bears \in [Cells -> PatchIds \cup {NoId}]
  /\ home \in [PatchIds -> Cells \cup {Nowhere}]
  /\ \A i \in PatchIds, c \in Cells : home[i] = c <=> bears[c] = i

(***************************************************************************)
(* An id is given to a cell, which gives up the one it had.                *)
(***************************************************************************)
Give(c, i) ==
  /\ bears' = [bears EXCEPT ![c] = i]
  /\ home' = [j \in PatchIds |-> CASE j = i -> c
                                   [] j # i /\ home[j] = c -> Nowhere
                                   [] OTHER -> home[j]]

(***************************************************************************)
(* Some cells give up their ids.                                           *)
(***************************************************************************)
Strip(stripped) ==
  /\ bears' = [c \in Cells |-> IF c \in stripped THEN NoId ELSE bears[c]]
  /\ home' = [j \in PatchIds |-> IF home[j] \in stripped THEN Nowhere ELSE home[j]]

Next ==
  \/ \E c \in Cells, i \in PatchIds : Give(c, i)
  \/ \E stripped \in SUBSET Cells : Strip(stripped)

Spec == Init /\ [][Next]_indexVars
=============================================================================
