--------------------------- MODULE LSInstructions ---------------------------
(***************************************************************************)
(* Lattice surgery instructions as the slicing pipelines see them: what    *)
(* kind an instruction is, which answers applying it to a slice can give   *)
(* (the shapes of InstructionApplicationResult that                        *)
(* try_apply_instruction_direct_followup builds for that operation), and   *)
(* which instruction follows it.                                           *)
(*                                                                         *)
(* "Plain" stands for the operations that succeed or fail in one call:     *)
(* measurements, initialisations, Pauli operators, requests for magic and  *)
(* Y states, resets.  "CNOT" stands for BellBasedCNOT and "Pair" for       *)
(* BellPairInit: both reschedule themselves until all their local          *)
(* instructions are applied.  A rotation is followed by a busy region that *)
(* counts its steps down, an S gate by a corrective Pauli operator.        *)
(***************************************************************************)
EXTENDS Naturals

CONSTANTS
  Patches,            \* the patch ids
  Instructions,       \* what a program may consist of
  EDPC,               \* router_->get_EDPC()
  DEFAULT_MAX_WAIT,   \* wait_at_most_for of an instruction without a limit
  MaxInstructions,    \* bound: length of the program
  MaxSteps            \* bound: the steps told apart of one that reschedules itself

ProgramKinds == {"Plain", "H", "S", "Rotate", "CNOT", "Pair"}
BusyKinds == {"Busy2", "Busy1", "Busy0"}
Kinds == ProgramKinds \cup BusyKinds

ASSUME BoundsAssumption ==
  /\ EDPC \in BOOLEAN
  /\ DEFAULT_MAX_WAIT \in Nat \ {0}
  /\ MaxInstructions \in Nat
  /\ MaxSteps \in Nat \ {0}

ASSUME InstructionsAssumption ==
  /\ Instructions \subseteq
       [kind: ProgramKinds, patches: SUBSET Patches, wait: 0 .. DEFAULT_MAX_WAIT]
  /\ EDPC => \A ins \in Instructions : ins.kind # "S"  \* EDPC refuses S gates

Followup(kind) ==
  CASE kind = "S"      -> "Plain"
    [] kind = "Rotate" -> "Busy2"
    [] kind = "Busy2"  -> "Busy1"
    [] kind = "Busy1"  -> "Busy0"

(***************************************************************************)
(* The wait of an instruction without a limit is the largest size_t, which *)
(* no run counts down to zero.                                             *)
(***************************************************************************)
WaitedOnce(wait) == IF wait = DEFAULT_MAX_WAIT THEN wait ELSE wait - 1

(***************************************************************************)
(* The stages of a "CNOT" or a "Pair": 0, no route yet; for a CNOT with    *)
(* EDPC 1 is routed and deferred and 2 is decomposed into local            *)
(* instructions, none of them tried.  A later stage stands for the local   *)
(* instructions the operation is through with, if any.  The first phase of *)
(* a decomposed CNOT is never its last, so stage 2 always reschedules.     *)
(* Only CNOTs are deferred: a pair is begun like one without EDPC.         *)
(*                                                                         *)
(* An operation reschedules itself whenever a local instruction cannot be  *)
(* applied, be it the first one it tries: nothing limits how often, and    *)
(* the stage may be the one it was.                                        *)
(***************************************************************************)
FirstStage == IF EDPC THEN 2 ELSE 0
LastStage == FirstStage + MaxSteps

CNOTAnswers(stage) ==
  CASE EDPC /\ stage = 0 -> {"error", "deferred"}
    [] EDPC /\ stage = 1 -> {"error"}
    [] EDPC /\ stage = 2 -> {"rescheduled"}
    [] ~EDPC \/ stage > 2 -> {"error", "applied", "rescheduled"}

StagesAfter(instruction) ==
  LET first == IF instruction.kind = "Pair" THEN 0 ELSE FirstStage
  IN {s \in {instruction.stage, instruction.stage + 1} : first < s /\ s <= LastStage}

Answers(instruction) ==
  CASE instruction.kind \in {"Plain", "H"}     -> {"applied", "error"}
    [] instruction.kind \in {"S", "Rotate"}    -> {"followup", "error"}
    [] instruction.kind \in {"Busy2", "Busy1"} -> {"followup"}
    [] instruction.kind = "Busy0"              -> {"applied"}
    [] instruction.kind = "CNOT"               -> CNOTAnswers(instruction.stage)
    [] instruction.kind = "Pair"               -> {"error", "applied", "rescheduled"}

=============================================================================
