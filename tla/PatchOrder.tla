----------------------------- MODULE PatchOrder -----------------------------
(***************************************************************************)
(* What every slicing pipeline promises about the order in which it runs a *)
(* program of lattice surgery instructions.                                *)
(*                                                                         *)
(* A program is a sequence of instructions; of an instruction only the set *)
(* of patches it depends on is kept.  Instructions that share no patch may *)
(* run in any order and at the same time; two instructions that share a    *)
(* patch run in program order, the later one beginning only after the      *)
(* earlier one has ended.  Every instruction begins once and ends once.    *)
(*                                                                         *)
(* An instruction that takes several slices (a rotation, an S gate with    *)
(* its corrective term, a long range CNOT) begins with the first change it *)
(* makes to the lattice and ends with the last.                            *)
(***************************************************************************)
EXTENDS Naturals, Sequences

CONSTANT Patches         \* the patch ids

VARIABLES
  program,               \* the patches of each instruction read so far
  begun,                 \* instructions that have changed the lattice
  ended                  \* instructions that are completely done

abstractVars == <<program, begun, ended>>

TypeOK ==
  /\ program \in Seq(SUBSET Patches)
  /\ begun \subseteq DOMAIN program
  /\ ended \subseteq begun

Init ==
  /\ program = << >>
  /\ begun = {}
  /\ ended = {}

(***************************************************************************)
(* The instructions that come before i on some patch of i.                 *)
(***************************************************************************)
Before(i) == {j \in 1 .. (i - 1) : program[i] \cap program[j] # {}}

Ready(i) ==
  /\ i \in DOMAIN program \ begun
  /\ Before(i) \subseteq ended

Read(patches) ==
  /\ program' = Append(program, patches)
  /\ UNCHANGED <<begun, ended>>

Begin(i) ==
  /\ Ready(i)
  /\ begun' = begun \cup {i}
  /\ UNCHANGED <<program, ended>>

End(i) ==
  /\ i \in begun \ ended
  /\ ended' = ended \cup {i}
  /\ UNCHANGED <<program, begun>>

(***************************************************************************)
(* Most instructions take effect within one slice: a measurement, an       *)
(* initialisation, a Pauli operator.                                       *)
(***************************************************************************)
BeginAndEnd(i) ==
  /\ Ready(i)
  /\ begun' = begun \cup {i}
  /\ ended' = ended \cup {i}
  /\ UNCHANGED program

Next ==
  \/ \E patches \in SUBSET Patches : Read(patches)
  \/ \E i \in DOMAIN program : Begin(i) \/ End(i) \/ BeginAndEnd(i)

Spec == Init /\ [][Next]_abstractVars

(***************************************************************************)
(* Two instructions that share a patch are never both under way.           *)
(***************************************************************************)
Exclusive ==
  \A i, j \in begun \ ended : i # j => program[i] \cap program[j] = {}

=============================================================================
