---------------------------- MODULE MCWaveSlices ----------------------------
(***************************************************************************)
(* Instances of WaveSlices for TLC.                                        *)
(***************************************************************************)
EXTENDS WaveSlices

CONSTANTS p, q

Unlimited == 9

Ins(kind, patches, wait) == [kind |-> kind, patches |-> patches, wait |-> wait]

(***************************************************************************)
(* Wave mode: every kind, on one patch or on both, without a limit on the  *)
(* retries, with few or with none left.                                    *)
(***************************************************************************)
WaveInstructions ==
  {Ins("Plain", {p, q}, 0), Ins("Plain", {p}, Unlimited),
   Ins("H", {q}, 1), Ins("S", {p}, Unlimited),
   Ins("Rotate", {q}, Unlimited), Ins("CNOT", {p, q}, Unlimited)}

(***************************************************************************)
(* EDPC mode: CNOTs between the two patches, and what may surround them.   *)
(***************************************************************************)
EDPCInstructions ==
  {Ins("CNOT", {p, q}, Unlimited), Ins("CNOT", {p}, 1), Ins("Pair", {q}, 1),
   Ins("H", {q}, Unlimited), Ins("Plain", {p}, 0), Ins("Rotate", {q}, Unlimited)}
=============================================================================
