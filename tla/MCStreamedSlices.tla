------------------------- MODULE MCStreamedSlices -------------------------
(***************************************************************************)
(* Instances of StreamedSlices for TLC.                                    *)
(***************************************************************************)
EXTENDS StreamedSlices

CONSTANTS p, q

Unlimited == 9

Ins(kind, patches, wait) == [kind |-> kind, patches |-> patches, wait |-> wait]

(***************************************************************************)
(* Every kind; retries below, at and above the budget of the guard.        *)
(***************************************************************************)
StreamInstructions ==
  {Ins("Plain", {p, q}, 0), Ins("Plain", {p}, Unlimited), Ins("H", {q}, 1),
   Ins("S", {p}, 2), Ins("Rotate", {q}, 3), Ins("CNOT", {p, q}, 1),
   Ins("Pair", {p}, Unlimited)}
=============================================================================
