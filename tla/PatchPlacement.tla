--------------------------- MODULE PatchPlacement ---------------------------
(***************************************************************************)
(* What the application of instructions promises to a program: a patch     *)
(* that came to life has a place of its own, and keeps it, whatever is     *)
(* done to it and around it, until the program gives it up.                *)
(***************************************************************************)
CONSTANTS Cells, PatchIds, Nowhere

VARIABLES
  home,                  \* where the patch of each id is
  alive                  \* the ids that came to life and were not given up

Exclusive(h) ==
  \A i, j \in PatchIds : h[i] = h[j] /\ h[i] # Nowhere => i = j

Init ==
  /\ home \in [PatchIds -> Cells \cup {Nowhere}]
  /\ Exclusive(home)
  /\ alive = {i \in PatchIds : home[i] # Nowhere}

Settle(i, c) ==
  /\ i \notin alive
  /\ \A j \in PatchIds : home[j] # c
  /\ home' = [home EXCEPT ![i] = c]
  /\ alive' = alive \cup {i}

Leave(i) ==
  /\ i \in alive
  /\ home' = [home EXCEPT ![i] = Nowhere]
  /\ alive' = alive \ {i}

Next == \E i \in PatchIds : Leave(i) \/ \E c \in Cells : Settle(i, c)

Spec == Init /\ [][Next]_<<home, alive>>
=============================================================================
