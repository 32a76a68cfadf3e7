------------------------------ MODULE Programs ------------------------------
(***************************************************************************)
(* From gates, or from a file of instructions, to the stream of lattice    *)
(* surgery instructions that the pipelines slice: the chain of instruction *)
(* streams that slicer.cpp puts together.  Each stage has a queue of its   *)
(* own; asked for an instruction with its queue empty, it first asks the   *)
(* stage before it, so a stage works only when all later queues are empty. *)
(*                                                                         *)
(* The actions are the calls of get_next_instruction of each stage, in     *)
(* that order.  A program that makes a stage throw ends there.  Daggers    *)
(* and outcomes are left out: they change signs only.  RZ gates of other   *)
(* angles are taken apart before (DecomposeRotationStream).                *)
(***************************************************************************)
EXTENDS Stabilizers, Sequences, SequencesExt

CONSTANTS
  CoreQubits,         \* those of the core qubits that the program uses
  FirstId,            \* what set_start gives the id generator
  Settings,           \* the ways to compile: see SettingsAssumption
  Gates,              \* the gates a file may have,
  FileInstructions,   \* or the instructions
  compact_sides,      \* the operators each core qubit exposes in that layout
  MaxGates            \* bound: length of a file

Layouts == {"compact", "edpc", "custom"}

ASSUME SettingsAssumption ==
  /\ Settings \subseteq [source : {"gates", "instructions"}, layout : Layouts,
                         local : BOOLEAN, catalytic : BOOLEAN, corrections : BOOLEAN]
  /\ \A s \in Settings : s.layout = "compact" => ~s.catalytic
  /\ compact_sides \in [CoreQubits -> SUBSET {"X", "Z"}]
  /\ CoreQubits \subseteq 0 .. FirstId - 1
  /\ MaxGates \in Nat

VARIABLES
  setting,
  next,               \* what the source has read ahead
  read,               \* how much it has read
  default_placement,  \* ControlledGate::default_ancilla_placement
  assembled,          \* whether the streams and the layout have been made
  next_id,            \* of the id generator
  translated, rotated, injected,   \* next_instructions_ of each stage
  exposed_operators,  \* of the boundary rotation stage
  sideways,           \* on the lattice: patches turned against their layout
  alive, seen,        \* ids: in use, ever used
  ancillas_merged,    \* whether a CNOT went through an ancilla
  state, ideal        \* what was done to the qubits, what the file says

queues == <<translated, rotated, injected>>
lattice == <<sideways, alive, seen, ancillas_merged, state>>
vars == <<setting, next, read, default_placement, assembled, next_id,
          queues, exposed_operators, lattice, ideal>>

Nothing == [op |-> "Nothing"]

-----------------------------------------------------------------------------
(* Instructions. *)

(***************************************************************************)
(* on: the patches with the operators measured, if any; clients: what is   *)
(* named only to keep the order; near: the patch it is to be placed near.  *)
(***************************************************************************)
Instruction(op, on) == [op |-> op, on |-> on, clients |-> {}, near |-> {}]

On(op, q) == Instruction(op, <<<<q, op>>>>)

MeasureSingle(q, op) == Instruction("SinglePatchMeasurement", <<<<q, op>>>>)

MeasureBoth(q, op, r, op2) ==
  Instruction("MultiPatchMeasurement", <<<<q, op>>, <<r, op2>>>>)

Request(op, q, near) ==
  [Instruction(op, <<<<q, op>>>>) EXCEPT !.clients = {near}, !.near = {near}]

BellBasedCNOT(control, target, side1, side2) ==
  [Instruction("BellBasedCNOT", <<<<control, "Z">>, <<target, "X">>,
                                  <<side1, "side">>, <<side2, "side">>>>)
     EXCEPT !.clients = {control, target}]

PatchInit(q, near, clients) ==
  [Instruction("PatchInit", <<<<q, "Plus">>>>)
     EXCEPT !.clients = clients, !.near = near]

(***************************************************************************)
(* get_operating_patches.                                                  *)
(***************************************************************************)
OperatingPatches(ins) == {pair[1] : pair \in Range(ins.on)} \cup ins.clients

Created(ins) ==
  CASE ins.op \in {"PatchInit", "MagicStateRequest", "YStateRequest"} -> {ins.on[1][1]}
    [] ins.op = "BellBasedCNOT" -> {ins.on[3][1], ins.on[4][1]}
    [] OTHER -> {}

(***************************************************************************)
(* The id generator after some instructions with new ids.                  *)
(* Faulty: as if the sides of a CNOT needed no ids.                        *)
(***************************************************************************)
AfterSingleIds(id, instructions) ==
  id + Cardinality({q \in UNION {Created(ins) : ins \in Range(instructions)} :
                      \E ins \in Range(instructions) :
                        ins.op # "BellBasedCNOT" /\ q \in Created(ins) /\ q >= id})

AfterIds(id, instructions) ==
  id + Cardinality({q \in UNION {Created(ins) : ins \in Range(instructions)} : q >= id})

-----------------------------------------------------------------------------
(* Gates. *)

AncillaNextTo(control, target, placement) ==
  CASE placement = "control"   -> {control}
    [] placement = "target"    -> {target}
    [] placement = "dedicated" -> {}

make_cnot_instructions(control, target, type, placement, corrections, id) ==
  LET correction(op, q) == IF corrections THEN <<On(op, q)>> ELSE <<>>
      smooth == MeasureBoth(control, "Z", id, "Z")
      rough == MeasureBoth(id, "X", target, "X")
  IN IF type = "BELL_BASED" \/ setting.local
     THEN <<BellBasedCNOT(control, target, id, id + 1)>>
     ELSE <<PatchInit(id, AncillaNextTo(control, target, placement), {control, target})>>
            \o (CASE type = "ZX_WITH_MBM_CONTROL_FIRST" ->
                       <<smooth>> \o correction("X", id) \o <<rough>> \o correction("Z", control)
                  [] type = "ZX_WITH_MBM_TARGET_FIRST" ->
                       <<rough>> \o correction("Z", id) \o <<smooth>> \o correction("X", target))
            \o <<MeasureSingle(id, "X")>>

Throws(gate) ==
  /\ gate.name \in {"CX", "CZ"} /\ setting.corrections
  /\ gate.type = "BELL_BASED" \/ setting.local

(* Faulty: the state is measured as after the other way to teleport. *)
make_t_gate_instructions_mixed(q, id) ==
  <<Request("MagicStateRequest", id, q)>>
    \o (IF setting.local
        THEN make_cnot_instructions(q, id, "BELL_BASED", "dedicated", FALSE, id + 1)
        ELSE <<MeasureBoth(q, "Z", id, "Z")>>)
    \o <<MeasureSingle(id, "Z"), On("S", q)>>

make_t_gate_instructions(q, id) ==
  <<Request("MagicStateRequest", id, q)>>
    \o (IF setting.local
        THEN make_cnot_instructions(q, id, "BELL_BASED", "dedicated", FALSE, id + 1)
               \o <<MeasureSingle(id, "Z")>>
        ELSE <<MeasureBoth(q, "Z", id, "Z"), MeasureSingle(id, "X")>>)
    \o <<On("S", q)>>

GateInstructions(gate, id) ==
  LET cnot == make_cnot_instructions(gate.control, gate.q, gate.type, gate.placement,
                                     setting.corrections, id)
  IN CASE gate.name \in {"X", "Y", "Z", "H", "S", "PatchReset"} -> <<On(gate.name, gate.q)>>
       [] gate.name = "T"  -> make_t_gate_instructions(gate.q, id)
       [] gate.name = "CX" -> cnot
       [] gate.name = "CZ" -> <<On("H", gate.q)>> \o cnot \o <<On("H", gate.q)>>

-----------------------------------------------------------------------------
(* The source: it reads one gate, or instruction, ahead. *)

(***************************************************************************)
(* A gate without annotations is given the default placement when it is    *)
(* read.                                                                   *)
(***************************************************************************)
ReadAhead ==
  {IF setting.source = "gates" /\ g.name \in {"CX", "CZ"}
   THEN g @@ [placement |-> default_placement] ELSE g :
     g \in IF setting.source = "gates" THEN Gates ELSE FileInstructions}

advance ==
  \/ /\ read < MaxGates
     /\ next' \in ReadAhead
     /\ read' = read + 1
  \/ /\ next' = Nothing
     /\ UNCHANGED read

(***************************************************************************)
(* The constructors read the first gate or instruction.                    *)
(***************************************************************************)
Init ==
  /\ setting \in Settings
  /\ default_placement = "dedicated"
  /\ next \in ReadAhead
  /\ read = 1
  /\ assembled = FALSE
  /\ next_id = FirstId
  /\ translated = <<>> /\ rotated = <<>> /\ injected = <<>>
  /\ exposed_operators = [q \in CoreQubits |-> {}]
  /\ sideways = {}
  /\ alive = CoreQubits /\ seen = CoreQubits
  /\ ancillas_merged = FALSE
  /\ state = Identity(CoreQubits) /\ ideal = Identity(CoreQubits)

(***************************************************************************)
(* The slicer makes the layout and the streams.  Only compact layouts have *)
(* an ancilla location and the boundary rotation stage.                    *)
(***************************************************************************)
Assemble ==
  /\ ~assembled
  /\ assembled' = TRUE
  /\ exposed_operators' = IF setting.layout = "compact" THEN compact_sides
                          ELSE exposed_operators
  /\ default_placement' = IF setting.layout = "edpc" THEN "target"
                          ELSE default_placement
  /\ UNCHANGED <<setting, next, read, next_id, queues, lattice, ideal>>

(***************************************************************************)
(* What a gate does, up to signs.  The magic state is stood in for by the  *)
(* state that would make of the same gadget an S gate: a T gate is then    *)
(* this S gate and the corrective one, which is a Pauli operator.          *)
(***************************************************************************)
IdealEffect(gate) ==
  CASE gate.name \in {"X", "Y", "Z", "T"} -> ideal
    [] gate.name = "H"  -> Hadamard(ideal, gate.q)
    [] gate.name = "S"  -> Phase(ideal, gate.q)
    [] gate.name = "CX" -> ControlledNot(ideal, gate.control, gate.q)
    [] gate.name = "CZ" ->
         Hadamard(ControlledNot(Hadamard(ideal, gate.q), gate.control, gate.q), gate.q)
    [] gate.name = "PatchReset" -> Reset(ideal, gate.q)

(***************************************************************************)
(* What an instruction does.  A second request for a Y state gives it back.*)
(***************************************************************************)
Effect(s, ins) ==
  LET q == ins.on[1][1]
      measured(pair) == IF pair[2] = "X" THEN X(pair[1]) ELSE Z(pair[1])
  IN CASE ins.op = "PatchInit" -> Prepare(s, X(q))
       [] ins.op = "MagicStateRequest" -> Prepare(s, Y(q))
       [] ins.op = "YStateRequest" -> IF q \in alive THEN Discard(s, q) ELSE Prepare(s, Y(q))
       [] ins.op = "SinglePatchMeasurement" -> Discard(Measure(s, measured(ins.on[1])), q)
       [] ins.op = "MultiPatchMeasurement" ->
            Measure(s, measured(ins.on[1]) \cup measured(ins.on[2]))
       [] ins.op = "BellBasedCNOT" -> ControlledNot(s, q, ins.on[2][1])
       [] ins.op = "H" -> Hadamard(s, q)
       [] ins.op = "S" -> Phase(s, q)
       [] ins.op = "PatchReset" -> Reset(s, q)
       [] ins.op \in {"X", "Y", "Z", "RotateSingleCellPatch"} -> s

Idle(stages) == \A k \in DOMAIN stages : stages[k] = <<>>

Translate ==
  /\ assembled /\ Idle(queues)
  /\ setting.source = "gates" /\ next # Nothing
  /\ ~Throws(next)
  /\ translated' = GateInstructions(next, next_id)
  /\ next_id' = AfterIds(next_id, translated')
  /\ ideal' = IdealEffect(next)
  /\ advance
  /\ UNCHANGED <<setting, default_placement, assembled, rotated, injected,
                 exposed_operators, lattice>>

(***************************************************************************)
(* An instruction of a file is handed on as it was parsed.  A sensible     *)
(* file uses its patches between their creation and their measurement.     *)
(***************************************************************************)
HandOn ==
  /\ assembled /\ Idle(queues)
  /\ setting.source = "instructions" /\ next # Nothing
  /\ OperatingPatches(next) \ Created(next) \subseteq alive
  /\ Created(next) \cap alive = {}
  /\ translated' = <<next>>
  /\ ideal' = Effect(ideal, next)
  /\ advance
  /\ UNCHANGED <<setting, default_placement, assembled, next_id, rotated, injected,
                 exposed_operators, lattice>>

-----------------------------------------------------------------------------
(* The boundary rotation stage. *)

(* Faulty: an S gate is not asked what it will need. *)
RequiredByMerges(ins) ==
  IF ins.op \in {"MultiPatchMeasurement", "BellBasedCNOT"} THEN Range(ins.on) ELSE {}

(***************************************************************************)
(* An S gate becomes a measurement of Z in the next stage.                 *)
(***************************************************************************)
Required(ins) ==
  CASE ins.op \in {"MultiPatchMeasurement", "BellBasedCNOT"} -> Range(ins.on)
    [] ins.op = "S" -> {<<ins.on[1][1], "Z">>}
    [] OTHER -> {}

ToRotate(ins) ==
  {q \in CoreQubits : \E op \in {"X", "Z"} :
     <<q, op>> \in Required(ins) /\ op \notin exposed_operators[q]}

rotate(exposed) == {"X", "Z"} \ exposed

RotateFor ==
  /\ setting.layout = "compact"
  /\ translated # <<>> /\ Idle(<<rotated, injected>>)
  /\ LET ins == Head(translated)
         turned == ToRotate(ins) \cup
                     {q \in CoreQubits : ins.op = "H" /\ ins.on[1][1] = q}
         order == SetToSeq(ToRotate(ins))
     IN /\ rotated' = [k \in DOMAIN order |-> On("RotateSingleCellPatch", order[k])]
                       \o <<ins>>
        /\ exposed_operators' = [q \in CoreQubits |->
             IF q \in turned THEN rotate(exposed_operators[q]) ELSE exposed_operators[q]]
  /\ translated' = Tail(translated)
  /\ UNCHANGED <<setting, next, read, default_placement, assembled, next_id,
                 injected, lattice, ideal>>

-----------------------------------------------------------------------------
(* The stage that replaces S gates. *)

teleported_s_gate(q, y) ==
  <<Request("YStateRequest", y, q), MeasureBoth(y, "Z", q, "Z"),
    MeasureSingle(y, "X"), On("Z", q)>>

(* Faulty: the Y state is given back turned. *)
catalytic_s_gate_unturned(q, y) ==
  LET first == make_cnot_instructions(q, y, "ZX_WITH_MBM_CONTROL_FIRST", "control", FALSE, y + 1)
      again == make_cnot_instructions(q, y, "ZX_WITH_MBM_CONTROL_FIRST", "control", FALSE,
                                      AfterIds(y + 1, first))
      half == <<On("H", y), On("RotateSingleCellPatch", y)>>
  IN <<Request("YStateRequest", y, q)>> \o first \o half \o again \o <<On("H", y)>>
       \o <<[Request("YStateRequest", y, q) EXCEPT !.clients = {}]>>

(***************************************************************************)
(* The Y state is used twice and given back, by a request for it again.    *)
(***************************************************************************)
catalytic_s_gate(q, y) ==
  LET first == make_cnot_instructions(q, y, "ZX_WITH_MBM_CONTROL_FIRST", "control", FALSE, y + 1)
      again == make_cnot_instructions(q, y, "ZX_WITH_MBM_CONTROL_FIRST", "control", FALSE,
                                      AfterIds(y + 1, first))
      half == <<On("H", y), On("RotateSingleCellPatch", y)>>
  IN <<Request("YStateRequest", y, q)>> \o first \o half \o again \o half
       \o <<[Request("YStateRequest", y, q) EXCEPT !.clients = {}]>>

Replacement(ins) ==
  LET q == ins.on[1][1]
      on_core == setting.layout # "custom" /\ q \in CoreQubits
  IN CASE on_core /\ ins.op = "S" ->
            IF setting.catalytic THEN catalytic_s_gate(q, next_id)
            ELSE teleported_s_gate(q, next_id)
       [] on_core /\ ins.op = "H" /\ setting.layout = "edpc" ->
            <<ins, On("RotateSingleCellPatch", q)>>
       [] OTHER -> <<ins>>

InjectFrom(source) ==
  /\ source # <<>> /\ injected = <<>>
  /\ injected' = Replacement(Head(source))
  /\ next_id' = IF injected' = <<Head(source)>> THEN next_id
                ELSE AfterIds(next_id, injected')
  /\ UNCHANGED <<setting, next, read, default_placement, assembled,
                 exposed_operators, lattice, ideal>>

Inject ==
  IF setting.layout = "compact"
  THEN InjectFrom(rotated) /\ rotated' = Tail(rotated) /\ UNCHANGED translated
  ELSE InjectFrom(translated) /\ translated' = Tail(translated) /\ UNCHANGED rotated

-----------------------------------------------------------------------------
(* What the lattice makes of the stream. *)

GivesBack(ins) == ins.op = "YStateRequest" /\ ins.on[1][1] \in alive

Ended(ins) ==
  IF ins.op = "SinglePatchMeasurement" \/ GivesBack(ins) THEN {ins.on[1][1]} ELSE {}

Stays(ins) == IF ins.op = "BellBasedCNOT" THEN {} ELSE Created(ins)

Emit ==
  /\ injected # <<>>
  /\ LET ins == Head(injected)
         q == ins.on[1][1]
     IN /\ state' = Effect(state, ins)
        /\ alive' = (alive \cup Stays(ins)) \ Ended(ins)
        /\ seen' = seen \cup OperatingPatches(ins)
        /\ sideways' = IF ins.op \in {"H", "RotateSingleCellPatch"}
                       THEN IF q \in sideways THEN sideways \ {q} ELSE sideways \cup {q}
                       ELSE sideways \ Ended(ins)
        /\ ancillas_merged' =
             (ancillas_merged \/ (ins.op = "PatchInit" /\ ins.clients # Created(ins)))
  /\ injected' = Tail(injected)
  /\ UNCHANGED <<setting, next, read, default_placement, assembled, next_id,
                 translated, rotated, exposed_operators, ideal>>

Next == Assemble \/ Translate \/ HandOn \/ RotateFor \/ Inject \/ Emit

Spec == Init /\ [][Next]_vars

-----------------------------------------------------------------------------
(***************************************************************************)
(* The stream does to the core qubits what the gates say: at the end of    *)
(* every gate the qubits are as the gates would leave them, up to Pauli    *)
(* operators, and no other patch is left.  CNOTs that go through an        *)
(* ancilla are left out, see ImplementsCnots.                              *)
(***************************************************************************)
ImplementsGates ==
  assembled /\ Idle(queues) /\ ~ancillas_merged =>
    /\ state = ideal
    /\ setting.source = "gates" => alive = CoreQubits

(***************************************************************************)
(* The same with ancillas.  make_cnot_instructions measures the smooth     *)
(* sides of control and ancilla and the rough sides of ancilla and target, *)
(* as its comment says.                                                    *)
(***************************************************************************)
ImplementsCnots == assembled /\ Idle(queues) => state = ideal

(***************************************************************************)
(* A Y state that was lent is given back as it was, in the state and in    *)
(* the orientation: the next to borrow it takes it for granted.            *)
(***************************************************************************)
CatalystIntact ==
  injected # <<>> /\ GivesBack(Head(injected)) /\ ~ancillas_merged =>
    LET q == Head(injected).on[1][1] IN Y(q) \in state /\ q \notin sideways

(***************************************************************************)
(* Whatever stages the operators of a merge went through, when the merge   *)
(* reaches the lattice they are on sides that the layout leaves open: in a *)
(* compact layout the record of the boundary rotation stage and the next   *)
(* stage's expansions agree with what was turned on the lattice, in others *)
(* every patch has been turned back.                                       *)
(***************************************************************************)
Exposes(q, op) ==
  IF setting.layout = "compact" /\ q \in CoreQubits
  THEN (IF q \in sideways THEN Other(op) ELSE op) \in compact_sides[q]
  ELSE q \notin sideways

OperatorsExposed ==
  injected # <<>> /\ setting.layout # "custom" =>
    \A pair \in Required(Head(injected)) : Exposes(pair[1], pair[2])

(***************************************************************************)
(* Every patch is made before it is used and not used after it was given   *)
(* up, no stage gives out the id of another patch, and whatever is placed  *)
(* near a patch names it, so that the pipelines keep the order.            *)
(***************************************************************************)
KnownPatches ==
  injected # <<>> =>
    LET ins == Head(injected)
    IN IF GivesBack(ins) THEN OperatingPatches(ins) \subseteq alive
       ELSE /\ OperatingPatches(ins) \ Created(ins) \subseteq alive
            /\ Created(ins) \cap alive = {}
            /\ setting.source = "gates" =>
                 /\ Created(ins) \cap seen = {}
                 /\ ins.near \subseteq OperatingPatches(ins)

(***************************************************************************)
(* Nothing is to be placed on a dedicated cell of a layout without one:    *)
(* the slicer overrides the placement for such layouts.                    *)
(***************************************************************************)
AncillaPlaceable ==
  injected # <<>> /\ setting.layout = "edpc" /\ Head(injected).op = "PatchInit" =>
    Head(injected).near # {}
=============================================================================
