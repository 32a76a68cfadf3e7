---------------------------- MODULE MCDagSlices ----------------------------
(***************************************************************************)
(* Instances of DagSlices for TLC: every kind of instruction, on one of    *)
(* two patches or on both.                                                 *)
(***************************************************************************)
EXTENDS DagSlices

CONSTANTS p, q

Ins(kind, patches) == [kind |-> kind, patches |-> patches, wait |-> DEFAULT_MAX_WAIT]

DagInstructions ==
  {Ins("Plain", {p}), Ins("Plain", {q}), Ins("H", {p, q}), Ins("S", {p}),
   Ins("Rotate", {q}), Ins("CNOT", {p, q})}
=============================================================================
