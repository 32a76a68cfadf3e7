----------------------------- MODULE MCPrograms -----------------------------
(***************************************************************************)
(* Two of the qubits of a program with three: in a compact layout the      *)
(* first of them exposes X only, the second, at the end of its row, both.  *)
(***************************************************************************)
EXTENDS Programs

CONSTANTS CnotTypes, FileIds

Compiled == {"compact", "edpc", "custom"}

MCSettings ==
  {s \in [source : {"gates", "instructions"}, layout : Compiled,
          local : BOOLEAN, catalytic : BOOLEAN, corrections : BOOLEAN] :
     /\ s.layout = "compact" => ~s.catalytic
     /\ s.layout = "custom" => ~s.catalytic /\ ~s.local
     /\ s.source = "instructions" => ~s.corrections /\ ~s.local
     /\ s.corrections => ~s.local /\ ~s.catalytic}

MCGates ==
  {[name |-> name, q |-> 0] : name \in {"X", "H", "S", "T"}}
    \cup {[name |-> "H", q |-> 1], [name |-> "PatchReset", q |-> 1]}
    \cup {[name |-> "CX", q |-> 1, control |-> 0, type |-> type] : type \in CnotTypes}
    \cup {[name |-> "CZ", q |-> 0, control |-> 1, type |-> type] : type \in CnotTypes}

MCFileInstructions ==
  {On("H", 0), On("S", 0), MeasureBoth(0, "Z", 1, "X"), MeasureBoth(0, "X", 1, "Z")}
    \cup UNION {{PatchInit(a, {}, {a}), MeasureBoth(a, "X", 0, "X"),
                 MeasureSingle(a, "Z")} : a \in FileIds}

MCSides == [q \in CoreQubits |-> IF q = 0 THEN {"X"} ELSE {"X", "Z"}]
=============================================================================
