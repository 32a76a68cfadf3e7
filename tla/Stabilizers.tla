---------------------------- MODULE Stabilizers ----------------------------
(***************************************************************************)
(* What a program does to its logical qubits, whatever the outcomes of its *)
(* measurements are: stabilizer states without signs, the usual reference  *)
(* for Clifford programs that track Pauli corrections in a frame.          *)
(*                                                                         *)
(* A Pauli operator without its sign is a set of pairs of a qubit and one  *)
(* of "X" and "Z"; Y is both.  The labels "X0" and "Z0" stand for what was *)
(* put into the qubit, so that a state says what became of every input: a  *)
(* state is the set of all operators that stabilize it.                    *)
(***************************************************************************)
EXTENDS Naturals, FiniteSets

X(q) == {<<q, "X">>}
Z(q) == {<<q, "Z">>}
Y(q) == X(q) \cup Z(q)

Other(label) == CASE label = "X" -> "Z" [] label = "Z" -> "X" [] OTHER -> label

Times(p, r) == (p \ r) \cup (r \ p)

(***************************************************************************)
(* What is measured has no input labels.                                   *)
(***************************************************************************)
Commute(p, r) == Cardinality({e \in r : <<e[1], Other(e[2])>> \in p}) % 2 = 0

(***************************************************************************)
(* Every qubit holds its own input.                                        *)
(***************************************************************************)
Identity(qubits) ==
  {UNION g : g \in SUBSET ({{<<q, "X">>, <<q, "X0">>} : q \in qubits}
                             \cup {{<<q, "Z">>, <<q, "Z0">>} : q \in qubits})}

Prepare(state, p) == state \cup {Times(r, p) : r \in state}

Measure(state, p) == Prepare({r \in state : Commute(r, p)}, p)

Discard(state, q) == {p \in state : X(q) \cap p = {} /\ Z(q) \cap p = {}}

Hadamard(state, q) ==
  {{<<e[1], IF e[1] = q THEN Other(e[2]) ELSE e[2]>> : e \in p} : p \in state}

Phase(state, q) == {IF X(q) \subseteq p THEN Times(p, Z(q)) ELSE p : p \in state}

ControlledNot(state, control, target) ==
  {Times(Times(p, IF X(control) \subseteq p THEN X(target) ELSE {}),
         IF Z(target) \subseteq p THEN Z(control) ELSE {}) : p \in state}

Reset(state, q) == Prepare(Discard(state, q), Z(q))
=============================================================================
