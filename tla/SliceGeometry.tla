--------------------------- MODULE SliceGeometry ---------------------------
(***************************************************************************)
(* What the operations on a slice have in common: which cells lie beside   *)
(* each other, which sides of a patch carry an operator, and what the      *)
(* traversal of advance_slice makes of a patch.                            *)
(***************************************************************************)
EXTENDS DenseSlice, Sequences, FiniteSets

Elements(seq) == {seq[k] : k \in DOMAIN seq}

Beyond(c, d) == CASE d = "top"    -> <<c[1] - 1, c[2]>>
                  [] d = "bottom" -> <<c[1] + 1, c[2]>>
                  [] d = "left"   -> <<c[1], c[2] - 1>>
                  [] d = "right"  -> <<c[1], c[2] + 1>>

Opposite(d) == CASE d = "top" -> "bottom" [] d = "bottom" -> "top"
                 [] d = "left" -> "right" [] d = "right" -> "left"

Between(c, n) == CHOOSE d \in Directions : Beyond(c, d) = n

Adjacent(c, n) == \E d \in Directions : Beyond(c, d) = n

-----------------------------------------------------------------------------
(* Patches. *)

boundary_for_operator(op) == CASE op = "X" -> "Rough" [] op = "Z" -> "Smooth"

is_active(p) == p.activity # "None" \/ \E d \in Directions : p.boundaries[d].is_active

SidesOfType(p, type) == {d \in Directions : p.boundaries[d].boundary_type = type}

Activate(s, c, n) ==
  [s EXCEPT !.cells[c] = [@ EXCEPT !.boundaries[Between(c, n)].is_active = TRUE]]

Deactivated(b) == [top |-> boundary(b.top.boundary_type),
                   bottom |-> boundary(b.bottom.boundary_type),
                   left |-> boundary(b.left.boundary_type),
                   right |-> boundary(b.right.boundary_type)]

Facing(s, c, n, op) ==
  \E d \in SidesOfType(s.cells[c], boundary_for_operator(op)) : Beyond(c, d) = n

-----------------------------------------------------------------------------
(* The traversal of advance_slice. *)

Settled(p) ==
  LET activity == CASE p.activity = "Unitary" -> "None"
                    [] p.activity = "EDPC" -> "Reserved"
                    [] OTHER -> p.activity
  IN [p EXCEPT !.activity = activity,
               !.boundaries = IF activity \in {"Rotation", "Reserved"} THEN @
                              ELSE Deactivated(p.boundaries)]

(* A mutant that takes rotations for done as well. *)
DoneOrRotating(p) ==
  p.activity \in {"MultiPatchMeasurement", "Measurement", "Rotation"}

Done(p) == p.activity \in {"MultiPatchMeasurement", "Measurement"}
=============================================================================
