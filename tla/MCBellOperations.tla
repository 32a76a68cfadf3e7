-------------------------- MODULE MCBellOperations --------------------------
(***************************************************************************)
(* The EDPC layouts for 6 and for 10 qubits, without the outermost ring of *)
(* cells, which holds the magic and Y states: between them it has only     *)
(* dead ends.  Qubits lie two cells apart, row by row; the places that are *)
(* left over stay empty.                                                   *)
(***************************************************************************)
EXTENDS BellOperations

CONSTANTS q0, q1, q2, q3, q4, q5, q6, q7, q8, q9, s0, s1, s2, s3, s4, s5

Qubit == <<q0, q1, q2, q3, q4, q5, q6, q7, q8, q9>>

Sides == <<<<s0, s1>>, <<s2, s3>>, <<s4, s5>>>>

(***************************************************************************)
(* The qubits of a layout that has n of them in rows of length.            *)
(***************************************************************************)
Rows(n, length) ==
  [i \in {Qubit[k] : k \in 1 .. n} |->
     LET k == (CHOOSE k \in 1 .. n : Qubit[k] = i) - 1
     IN <<2 * (k \div length) + 1, 2 * (k % length) + 1>>]

SixQubits == Rows(6, 3)

SixLowerRight == <<6, 6>>

TenQubits == Rows(10, 4)

TenLowerRight == <<8, 8>>

None == {}

NoFactory == [c \in {} |-> Uniform("Connected")]

(***************************************************************************)
(* The k-th operation of a program.                                        *)
(***************************************************************************)
CNOT(k, control, target) ==
  [kind |-> "BellBasedCNOT", source |-> control, source_op |-> "Z",
   target |-> target, target_op |-> "X", side1 |-> Sides[k][1], side2 |-> Sides[k][2]]

Pair(k, loc1, op1, loc2, op2) ==
  [kind |-> "BellPairInit", source |-> loc1, source_op |-> op1,
   target |-> loc2, target_op |-> op2, side1 |-> Sides[k][1], side2 |-> Sides[k][2]]

(***************************************************************************)
(* Three CNOTs on six different qubits.                                    *)
(***************************************************************************)
Apart ==
  {<<CNOT(1, p[1], p[2]), CNOT(2, p[3], p[4]), CNOT(3, p[5], p[6])>> :
     p \in {p \in [1 .. 6 -> DOMAIN SixQubits] :
              \A j, k \in 1 .. 6 : p[j] = p[k] => j = k}}

(***************************************************************************)
(* The third has to wait for the first, whose control it shares.           *)
(***************************************************************************)
Shared ==
  {<<CNOT(1, q1, x), CNOT(2, y, q2), CNOT(3, q1, z)>> :
     x \in {q3, q4}, y \in {q0, q5}, z \in {q5, q4}}

(***************************************************************************)
(* A pair beside a CNOT, and one that shares a patch with the pair.        *)
(***************************************************************************)
Pairs ==
  {<<Pair(1, q1, op1, x, op2), CNOT(2, q0, q5), CNOT(3, q2, q3)>> :
     x \in {q3, q4}, op1 \in {"X", "Z"}, op2 \in {"X", "Z"}}

(***************************************************************************)
(* Two pairs between four different qubits.                                *)
(***************************************************************************)
TwoPairs ==
  {<<Pair(1, p[1], "Z", p[2], "Z"), Pair(2, p[3], "Z", p[4], "Z")>> :
     p \in {p \in [1 .. 4 -> DOMAIN SixQubits] : \A j, k \in 1 .. 4 : p[j] = p[k] => j = k}}

(***************************************************************************)
(* A CNOT and after it, in the same wave, a pair between two other qubits. *)
(***************************************************************************)
PairAfterCNOT ==
  {<<CNOT(1, p[1], p[2]), Pair(2, p[3], "Z", p[4], "Z")>> :
     p \in {p \in [1 .. 4 -> DOMAIN SixQubits] : \A j, k \in 1 .. 4 : p[j] = p[k] => j = k}}

PairAfterCNOTCases == {TRUE} \X PairAfterCNOT

(***************************************************************************)
(* The cases of the runs.                                                  *)
(***************************************************************************)
SixQubitCases == ({TRUE, FALSE} \X (Apart \cup Shared \cup Pairs)) \cup PairAfterCNOTCases

CrowdedCases == {TRUE} \X {<<CNOT(1, q3, q9), CNOT(2, q7, q0), CNOT(3, q6, q4)>>}

TwoPairsCases == {FALSE} \X TwoPairs
=============================================================================
