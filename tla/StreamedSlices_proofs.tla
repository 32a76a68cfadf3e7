----------------------- MODULE StreamedSlices_proofs -----------------------
(***************************************************************************)
(* What holds of the stream pipeline for every program, every number of    *)
(* patches and every budget.                                               *)
(***************************************************************************)
EXTENDS StreamedSlices, TLAPS

(***************************************************************************)
(* At most one instruction is in hand: it waits in the queue, is being     *)
(* applied or is in error.                                                 *)
(***************************************************************************)
Idle ==
  /\ future_instructions = << >>
  /\ instruction = NoInstruction
  /\ pending_error = NoInstruction

OneInHand ==
  /\ Len(future_instructions) <= 1
  /\ instruction # NoInstruction => /\ future_instructions = << >>
                                    /\ pending_error = NoInstruction
                                    /\ control = "next"
  /\ pending_error # NoInstruction => /\ future_instructions = << >>
                                      /\ control \in {"consumer", "out of time"}
  /\ control = "exhausted" => Idle

(***************************************************************************)
(* The instruction in hand is the last one read, and it has not ended.     *)
(***************************************************************************)
LastIsInHand ==
  /\ Idle /\ control # "threw" => ended = DOMAIN program
  /\ ~Idle => Len(program) # 0 /\ Len(program) \notin ended

GuardHolds == control # "threw" => slices_without_progress <= max_no_progress_slices

OrderInv == TypeOK /\ OneInHand /\ LastIsInHand /\ InProgramOrder /\ GuardHolds

-----------------------------------------------------------------------------
LEMMA InstructionIsTyped ==
  ASSUME NEW ins \in Instructions
  PROVE  /\ ins.kind \in Kinds
         /\ ins.wait \in 0 .. DEFAULT_MAX_WAIT
         /\ ins.patches \in SUBSET Patches
BY InstructionsAssumption DEF Kinds

(* What follows: another instruction, or the instruction itself one more time. *)
Continuation(answer) ==
  IF answer = "rescheduled" THEN [instruction EXCEPT !.stage = @ + 1]
  ELSE [kind |-> Followup(instruction.kind), wait |-> DEFAULT_MAX_WAIT, stage |-> 0]

Continues(answer) ==
  /\ Answered(answer)
  /\ answer = "rescheduled" => instruction.stage < LastStage
  /\ Continue(Continuation(answer))

(* Both actions that queue a follow-up are of this form. *)
LEMMA FollowupsContinue ==
  ASSUME ApplyContinues \/ ApplyReschedules
  PROVE  \E answer \in {"followup", "rescheduled"} : Continues(answer)
<1>1. CASE ApplyContinues
  <2>1. Continues("followup")
    BY <1>1 DEF ApplyContinues, Continues, Continuation
  <2> QED
    BY <2>1
<1>2. CASE ApplyReschedules
  <2>1. Continues("rescheduled")
    BY <1>2 DEF ApplyReschedules, Continues, Continuation
  <2> QED
    BY <2>1
<1> QED
  BY <1>1, <1>2

LEMMA ContinuationIsTyped ==
  ASSUME instruction \in InstructionType,
         NEW answer \in {"followup", "rescheduled"}, Continues(answer)
  PROVE  Continuation(answer) \in InstructionType
<1>1. CASE answer = "followup"
  <2>1. instruction.kind \in {"S", "Rotate", "Busy2", "Busy1"}
    BY <1>1, StreamAssumption
    DEF Continues, Answered, Answers, CNOTAnswers, InstructionType, Kinds,
        ProgramKinds, BusyKinds
  <2>2. Followup(instruction.kind) \in Kinds
    BY <2>1 DEF Followup, Kinds, ProgramKinds, BusyKinds
  <2>3. 0 \in 0 .. LastStage
    BY BoundsAssumption DEF LastStage, FirstStage
  <2> QED
    BY <1>1, <2>2, <2>3, BoundsAssumption DEF Continuation, InstructionType
<1>2. CASE answer = "rescheduled"
  <2>1. instruction.stage < LastStage
    BY <1>2 DEF Continues
  <2>2. instruction.stage + 1 \in 0 .. LastStage
    BY <2>1, BoundsAssumption DEF InstructionType, LastStage, FirstStage
  <2> QED
    BY <1>2, <2>2 DEF Continuation, InstructionType
<1> QED
  BY <1>1, <1>2

-----------------------------------------------------------------------------
(* The sequence of patches and the queue, as far as the provers need them.     *)
LEMMA AppendIsTyped ==
  ASSUME NEW S, NEW s \in Seq(S), NEW e \in S
  PROVE  /\ Append(s, e) \in Seq(S)
         /\ Len(Append(s, e)) = Len(s) + 1
         /\ DOMAIN Append(s, e) = 1 .. Len(s) + 1
         /\ DOMAIN s = 1 .. Len(s) /\ Len(s) \in Nat
OBVIOUS

LEMMA HeadIsTyped ==
  ASSUME NEW S, NEW s \in Seq(S), s # << >>
  PROVE  s[1] \in S
OBVIOUS

LEMMA NoInstructionIsNone == \A x \in InstructionType : x # NoInstruction
<1> SUFFICES ASSUME NEW x \in InstructionType
             PROVE  x # NoInstruction
  OBVIOUS
<1>1. DOMAIN x = {"kind", "wait", "stage"}
  BY DEF InstructionType
<1>2. DOMAIN NoInstruction = {"kind"}
  BY DEF NoInstruction
<1> QED
  BY <1>1, <1>2

LEMMA EmitIsTyped ==
  ASSUME Emit, emitted \in Nat
  PROVE  /\ control' \in {"consumer", "out of time"}
         /\ emitted' \in Nat
         /\ control' = "consumer" => emitted' = emitted + 1
<1>1. CASE control' = "consumer" /\ emitted' = emitted + 1
  BY <1>1
<1>2. CASE Timed /\ control' = "out of time" /\ UNCHANGED emitted
  <2>1. control' = "out of time" /\ emitted' = emitted
    BY <1>2, Zenon
  <2> QED
    BY <2>1
<1> QED
  BY <1>1, <1>2, Zenon DEF Emit

LEMMA NoProgressIsNoted ==
  ASSUME note_no_progress, slices_without_progress \in 0 .. max_no_progress_slices
  PROVE  /\ slices_without_progress' = slices_without_progress + 1
         /\ slices_without_progress' \in 0 .. max_no_progress_slices + 1
         /\ deadlock_reported' \in BOOLEAN
         /\ ~deadlock_reported' => slices_without_progress' <= max_no_progress_slices
         /\ deadlock_reported' => slices_without_progress' = max_no_progress_slices + 1
<1>1. slices_without_progress' = slices_without_progress + 1
  BY DEF note_no_progress
<1>2. deadlock_reported' = (slices_without_progress + 1 > max_no_progress_slices)
  BY Zenon DEF note_no_progress
<1>3. deadlock_reported' \in BOOLEAN
  BY <1>2, BudgetAssumption, SMT
<1>4. CASE slices_without_progress + 1 > max_no_progress_slices
  <2>1. deadlock_reported'
    BY <1>2, <1>4, Zenon
  <2> QED BY <2>1, <1>1, <1>3, <1>4, BudgetAssumption
<1>5. CASE ~(slices_without_progress + 1 > max_no_progress_slices)
  <2>1. ~deadlock_reported'
    BY <1>2, <1>5, Zenon
  <2> QED BY <2>1, <1>1, <1>3, <1>5, BudgetAssumption
<1> QED
  BY <1>4, <1>5, Zenon

LEMMA EmitFinalStep == OrderInv /\ EmitFinal => OrderInv'
<1> SUFFICES ASSUME OrderInv, EmitFinal PROVE OrderInv'
  OBVIOUS
<1> USE DEF OrderInv
<1>1. control' \in {"consumer", "out of time"} /\ emitted' \in Nat
  <2>1. Emit /\ emitted \in Nat
    BY DEF EmitFinal, TypeOK
  <2> QED
    BY <2>1, EmitIsTyped
<1>2. /\ emitted_final' = TRUE
      /\ UNCHANGED <<queues, needs_advance, results, order, failures, allowed,
                     refused, advances, guardVars>>
  BY DEF EmitFinal
<1>3. TypeOK'
  BY <1>1, <1>2
  DEF TypeOK, queues, results, order, guardVars, InstructionType
<1>4. OneInHand' /\ LastIsInHand' /\ InProgramOrder' /\ GuardHolds'
  BY <1>1, <1>2, NoInstructionIsNone
  DEF EmitFinal, Exhausted, Looping, OneInHand, LastIsInHand, InProgramOrder,
      GuardHolds, Idle, queues, order, guardVars, TypeOK
<1> QED
  BY <1>3, <1>4

LEMMA RetryStep == OrderInv /\ Retry => OrderInv'
<1> SUFFICES ASSUME OrderInv, Retry PROVE OrderInv'
  OBVIOUS
<1> USE DEF OrderInv
<1>1. /\ control = "consumer"
      /\ pending_error \in InstructionType
      /\ pending_error.wait \in Nat \ {0}
      /\ future_instructions = << >> /\ instruction = NoInstruction
  BY DEF Retry, TypeOK, OneInHand, InstructionType
<1> DEFINE retried == [pending_error EXCEPT !.wait = WaitedOnce(@)]
<1>2. retried \in InstructionType
  BY <1>1 DEF InstructionType, WaitedOnce
<1>3. /\ slices_without_progress' \in 0 .. max_no_progress_slices + 1
      /\ deadlock_reported' \in BOOLEAN
      /\ ~deadlock_reported' => slices_without_progress' <= max_no_progress_slices
  <2>1. note_no_progress /\ slices_without_progress \in 0 .. max_no_progress_slices
    BY <1>1, BudgetAssumption DEF Retry, TypeOK, GuardHolds
  <2> QED
    BY <2>1, NoProgressIsNoted
<1>5. /\ pending_error' = NoInstruction
      /\ UNCHANGED <<stream_open, instruction, flags, results, order, failures,
                     allowed, emitted, refused>>
  BY DEF Retry
<1>a. CASE deadlock_reported'
  <2>1. control' = "threw" /\ UNCHANGED <<future_instructions, advances>>
    BY <1>a DEF Retry
  <2>2. TypeOK'
    BY <1>1, <1>3, <1>5, <2>1 DEF TypeOK, flags, results, order
  <2>3. OneInHand' /\ LastIsInHand' /\ InProgramOrder' /\ GuardHolds'
    BY <1>1, <1>5, <2>1
    DEF OneInHand, LastIsInHand, InProgramOrder, GuardHolds, Idle, order
  <2> QED
    BY <2>2, <2>3
<1>b. CASE ~deadlock_reported'
  <2>1. /\ control' = "next"
        /\ future_instructions' = <<retried>>
        /\ advances' = advances + 1
    BY <1>b, <1>1, <1>2 DEF Retry
  <2> HIDE DEF retried
  <2>4. <<retried>> \in Seq(InstructionType) /\ Len(<<retried>>) = 1 /\ <<retried>> # << >>
    BY <1>2
  <2>2. TypeOK'
    BY <1>1, <1>3, <1>5, <2>1, <2>4 DEF TypeOK, flags, results, order
  <2>5. OneInHand'
    BY <1>1, <1>5, <2>1, <2>4 DEF OneInHand, Idle
  <2>6. LastIsInHand'
    BY <1>1, <1>5, <2>1, <2>4, NoInstructionIsNone DEF LastIsInHand, Idle, order
  <2>7. InProgramOrder' /\ GuardHolds'
    BY <1>b, <1>3, <1>5, <2>1 DEF InProgramOrder, GuardHolds, order
  <2> QED
    BY <2>2, <2>5, <2>6, <2>7
<1> QED
  BY <1>a, <1>b

LEMMA ContinuesStep ==
  ASSUME OrderInv, NEW answer \in {"followup", "rescheduled"}, Continues(answer)
  PROVE  OrderInv'
<1> USE DEF OrderInv
<1>1. /\ instruction \in InstructionType /\ control = "next"
      /\ future_instructions = << >> /\ pending_error = NoInstruction
      /\ Len(program) # 0 /\ Len(program) \notin ended
  BY DEF Continues, Answered, TypeOK, OneInHand, LastIsInHand, Idle
<1>2. /\ future_instructions' = Append(future_instructions, Continuation(answer))
      /\ allowed' = Continuation(answer).wait
  BY DEF Continues, Continue
<1> DEFINE next == Continuation(answer)
<1>3. next \in InstructionType
  BY <1>1, ContinuationIsTyped
<1>4. future_instructions' = <<next>> /\ allowed' = next.wait
  BY <1>1, <1>2, <1>3
<1> HIDE DEF next
<1>5. /\ next.wait \in Nat
      /\ <<next>> \in Seq(InstructionType) /\ Len(<<next>>) = 1 /\ <<next>> # << >>
  BY <1>3 DEF InstructionType
<1>6. control' \in {"consumer", "out of time"} /\ emitted' \in Nat
  <2>1. Emit /\ emitted \in Nat
    BY DEF Continues, Continue, TypeOK
  <2> QED
    BY <2>1, EmitIsTyped
<1>7. /\ instruction' = NoInstruction /\ needs_advance' = TRUE
      /\ begun' = begun \cup {Len(program)}
      /\ slices_without_progress' = 0 /\ failures' = 0
      /\ slice_count' = slice_count + 1
      /\ UNCHANGED <<stream_open, pending_error, emitted_final, deadlock_reported,
                     ls_instructions_count, program, ended, refused, advances>>
  BY DEF Continues, Continue, Begun, note_progress, CountSlice
<1>8. begun' \subseteq DOMAIN program /\ ended \subseteq begun'
  BY <1>1, <1>7 DEF TypeOK
<1>9. TypeOK'
  <2>1. /\ control' \in {"consumer", "next", "exhausted", "threw", "out of time"}
        /\ future_instructions' \in Seq(InstructionType)
        /\ instruction' \in InstructionType \cup {NoInstruction}
        /\ pending_error' \in InstructionType \cup {NoInstruction}
    BY <1>1, <1>4, <1>5, <1>6, <1>7
  <2>2. needs_advance' \in BOOLEAN /\ emitted_final' \in BOOLEAN
    BY <1>7 DEF TypeOK
  <2>3. slices_without_progress' \in 0 .. max_no_progress_slices + 1
    BY <1>7, BudgetAssumption
  <2>4. program' \in Seq(SUBSET Patches) /\ begun' \subseteq DOMAIN program' /\ ended' \subseteq begun'
    BY <1>7, <1>8 DEF TypeOK
  <2>5. /\ slice_count' \in Nat /\ ls_instructions_count' \in Nat
        /\ failures' \in Nat /\ refused' \in Nat /\ advances' \in Nat
    <3>1. slice_count \in Nat
      BY DEF TypeOK
    <3>2. slice_count' \in Nat /\ failures' \in Nat
      BY <1>7, <3>1
    <3> QED
      BY <1>7, <3>2 DEF TypeOK
  <2>7. allowed' \in Nat
    BY <1>4, <1>5
  <2>6. stream_open' \in BOOLEAN /\ deadlock_reported' \in BOOLEAN
    BY <1>7 DEF TypeOK
  <2> QED
    BY <1>6, <2>1, <2>2, <2>3, <2>4, <2>5, <2>6, <2>7 DEF TypeOK
<1>10. OneInHand'
  <2>1. (Len(future_instructions) <= 1)'
    BY <1>4, <1>5
  <2>2. control' # "exhausted" /\ instruction' = NoInstruction
    BY <1>6, <1>7
  <2>3. pending_error' = NoInstruction
    BY <1>1, <1>7
  <2> QED
    BY <2>1, <2>2, <2>3 DEF OneInHand
<1>11. LastIsInHand'
  BY <1>1, <1>4, <1>5, <1>6, <1>7 DEF LastIsInHand, Idle
<1>12. InProgramOrder' /\ GuardHolds'
  BY <1>7, BudgetAssumption DEF InProgramOrder, GuardHolds
<1> QED
  BY <1>9, <1>10, <1>11, <1>12
LEMMA ResumeStep == OrderInv /\ Resume => OrderInv'
<1> SUFFICES ASSUME OrderInv, Resume PROVE OrderInv'
  OBVIOUS
<1> USE DEF OrderInv
<1>1. control' = "next" /\ advances' \in Nat
  BY DEF Resume, TypeOK
<1>2. /\ needs_advance' = FALSE
      /\ UNCHANGED <<queues, emitted_final, results, order, failures, allowed,
                     emitted, refused, guardVars>>
  BY DEF Resume
<1>3. TypeOK'
  BY <1>1, <1>2
  DEF TypeOK, queues, results, order, guardVars, InstructionType
<1>4. OneInHand' /\ LastIsInHand' /\ InProgramOrder' /\ GuardHolds'
  BY <1>1, <1>2, NoInstructionIsNone
  DEF Resume, OneInHand, LastIsInHand, InProgramOrder, GuardHolds, Idle,
      queues, order, guardVars, TypeOK
<1> QED
  BY <1>3, <1>4

LEMMA GiveUpStep == OrderInv /\ GiveUp => OrderInv'
<1> SUFFICES ASSUME OrderInv, GiveUp PROVE OrderInv'
  OBVIOUS
<1> USE DEF OrderInv
<1>1. TypeOK'
  BY DEF GiveUp, TypeOK, flags, results, order, tally, guardVars
<1>2. OneInHand' /\ LastIsInHand' /\ InProgramOrder' /\ GuardHolds'
  BY DEF GiveUp, OneInHand, LastIsInHand, InProgramOrder, GuardHolds, Idle,
         order, guardVars, TypeOK
<1> QED
  BY <1>1, <1>2

LEMMA PopStep == OrderInv /\ Pop => OrderInv'
<1> SUFFICES ASSUME OrderInv, Pop PROVE OrderInv'
  OBVIOUS
<1> USE DEF OrderInv
<1>1. /\ instruction' \in InstructionType
      /\ future_instructions' \in Seq(InstructionType)
      /\ future_instructions' = << >>
  BY DEF Pop, Looping, TypeOK, OneInHand
<1>2. UNCHANGED <<control, stream_open, pending_error, flags, results, order,
                  tally, guardVars>>
  BY DEF Pop
<1>3. TypeOK'
  BY <1>1, <1>2 DEF TypeOK, flags, results, order, tally, guardVars
<1>4. OneInHand' /\ LastIsInHand'
  BY <1>1, <1>2, NoInstructionIsNone
  DEF Pop, Looping, OneInHand, LastIsInHand, Idle, order, TypeOK
<1>5. InProgramOrder' /\ GuardHolds'
  BY <1>2 DEF InProgramOrder, GuardHolds, order, guardVars
<1> QED
  BY <1>3, <1>4, <1>5

LEMMA ReadInstructionStep ==
  ASSUME OrderInv, NEW ins \in Instructions, ReadInstruction(ins)
  PROVE  OrderInv'
<1> USE DEF OrderInv
<1>1. /\ Idle /\ control = "next" /\ ended = DOMAIN program
  BY DEF ReadInstruction, Looping, QueueFirst, OneInHand, LastIsInHand, Idle, TypeOK
<1> DEFINE read == [kind |-> ins.kind, wait |-> ins.wait, stage |-> 0]
<1>2. read \in InstructionType /\ ins.wait \in Nat
  BY InstructionIsTyped, BoundsAssumption
  DEF InstructionType, LastStage, FirstStage
<1>3. /\ instruction' = read
      /\ program' = Append(program, ins.patches)
      /\ allowed' = ins.wait
      /\ UNCHANGED <<control, stream_open, future_instructions, pending_error,
                     flags, slice_count, begun, ended, failures, emitted,
                     refused, advances, guardVars>>
  BY DEF ReadInstruction
<1> HIDE DEF read
<1>4. ls_instructions_count \in Nat
  BY DEF TypeOK
<1>5. ls_instructions_count' \in Nat
  BY <1>4 DEF ReadInstruction
<1>6. program \in Seq(SUBSET Patches) /\ ins.patches \in SUBSET Patches
  BY InstructionIsTyped DEF TypeOK
<1>7. /\ program' \in Seq(SUBSET Patches)
      /\ Len(program') = Len(program) + 1 /\ Len(program) \in Nat
      /\ DOMAIN program' = 1 .. Len(program) + 1
      /\ DOMAIN program = 1 .. Len(program)
  BY <1>3, <1>6, AppendIsTyped
<1>8. TypeOK'
  <2>1. begun' \subseteq DOMAIN program' /\ ended' \subseteq begun'
    <3>1. begun \subseteq DOMAIN program /\ ended \subseteq begun
      BY DEF TypeOK
    <3>2. DOMAIN program \subseteq DOMAIN program'
      BY <1>7
    <3> QED
      BY <1>3, <3>1, <3>2
  <2> QED
    BY <1>2, <1>3, <1>5, <1>7, <2>1 DEF TypeOK, flags, guardVars
<1>9. OneInHand'
  BY <1>1, <1>3 DEF OneInHand, Idle
<1>10. LastIsInHand'
  <2>1. ~Idle'
    BY <1>2, <1>3, NoInstructionIsNone DEF Idle
  <2>2. Len(program') # 0 /\ Len(program') \notin ended'
    BY <1>1, <1>3, <1>7
  <2> QED
    BY <2>1, <2>2 DEF LastIsInHand
<1>11. InProgramOrder'
  BY <1>1, <1>3, <1>7 DEF InProgramOrder
<1>12. GuardHolds'
  BY <1>3 DEF GuardHolds, guardVars
<1> QED
  BY <1>8, <1>9, <1>10, <1>11, <1>12

LEMMA EndOfStreamStep == OrderInv /\ EndOfStream => OrderInv'
<1> SUFFICES ASSUME OrderInv, EndOfStream PROVE OrderInv'
  OBVIOUS
<1> USE DEF OrderInv
<1>1. TypeOK'
  BY DEF EndOfStream, TypeOK, flags, results, order, tally, guardVars
<1>2. OneInHand' /\ LastIsInHand' /\ InProgramOrder' /\ GuardHolds'
  BY DEF EndOfStream, OneInHand, LastIsInHand, InProgramOrder, GuardHolds, Idle,
         order, guardVars
<1> QED
  BY <1>1, <1>2

LEMMA ApplyEndsStep == OrderInv /\ ApplyEnds => OrderInv'
<1> SUFFICES ASSUME OrderInv, ApplyEnds PROVE OrderInv'
  OBVIOUS
<1> USE DEF OrderInv
<1>1. /\ control = "next" /\ ~Idle
      /\ future_instructions = << >> /\ pending_error = NoInstruction
  BY DEF ApplyEnds, Answered, OneInHand, Idle
<1>2. Len(program) \in DOMAIN program /\ Len(program) \in Nat
  BY <1>1 DEF TypeOK, LastIsInHand
<1>3. /\ instruction' = NoInstruction
      /\ begun' = begun \cup {Len(program)} /\ ended' = ended \cup {Len(program)}
      /\ slices_without_progress' = 0 /\ failures' = 0
      /\ UNCHANGED <<control, stream_open, future_instructions, pending_error,
                     flags, results, program, allowed, emitted, refused, advances,
                     deadlock_reported>>
  BY DEF ApplyEnds, Begun, note_progress
<1>4. begun' \subseteq DOMAIN program /\ ended' \subseteq begun'
  BY <1>2, <1>3 DEF TypeOK
<1>5. TypeOK'
  <2>1. slices_without_progress' \in 0 .. max_no_progress_slices + 1
    BY <1>3, BudgetAssumption
  <2> QED
    BY <1>3, <1>4, <2>1 DEF TypeOK, flags, results
<1>6. OneInHand'
  BY <1>1, <1>3 DEF OneInHand, Idle
<1>7. ended' = DOMAIN program'
  <2>1. program \in Seq(SUBSET Patches)
    BY DEF TypeOK
  <2>2. DOMAIN program = 1 .. Len(program)
    BY <2>1
  <2>3. ended \subseteq DOMAIN program /\ \A i \in DOMAIN program : i < Len(program) => i \in ended
    BY DEF TypeOK, InProgramOrder
  <2> QED
    BY <1>2, <1>3, <2>2, <2>3
<1>8. LastIsInHand'
  BY <1>1, <1>3, <1>7 DEF LastIsInHand, Idle
<1>9. InProgramOrder' /\ GuardHolds'
  BY <1>3, <1>7, BudgetAssumption DEF InProgramOrder, GuardHolds
<1> QED
  BY <1>5, <1>6, <1>8, <1>9

LEMMA ApplyFailsStep == OrderInv /\ ApplyFails => OrderInv'
<1> SUFFICES ASSUME OrderInv, ApplyFails PROVE OrderInv'
  OBVIOUS
<1> USE DEF OrderInv
<1>1. /\ instruction \in InstructionType /\ ~Idle /\ future_instructions = << >>
  BY DEF ApplyFails, Answered, TypeOK, OneInHand, Idle
<1>2. control' \in {"consumer", "out of time"} /\ emitted' \in Nat
  <2>1. Emit /\ emitted \in Nat
    BY DEF ApplyFails, TypeOK
  <2> QED
    BY <2>1, EmitIsTyped
<1>3. /\ instruction' = NoInstruction /\ pending_error' = instruction
      /\ UNCHANGED <<stream_open, future_instructions, flags, results, order,
                     allowed, advances, guardVars>>
  BY DEF ApplyFails
<1>4. failures' \in Nat /\ refused' \in Nat
  <2>1. failures \in Nat /\ refused \in Nat
    BY DEF TypeOK
  <2> QED
    BY <2>1 DEF ApplyFails
<1>5. TypeOK'
  BY <1>1, <1>2, <1>3, <1>4 DEF TypeOK, flags, results, order, guardVars
<1>6. OneInHand' /\ LastIsInHand'
  BY <1>1, <1>2, <1>3, NoInstructionIsNone
  DEF OneInHand, LastIsInHand, Idle, order
<1>7. InProgramOrder' /\ GuardHolds'
  BY <1>2, <1>3 DEF InProgramOrder, GuardHolds, order, guardVars,
     ApplyFails, Answered
<1> QED
  BY <1>5, <1>6, <1>7

LEMMA ReturnNullStep == OrderInv /\ ReturnNull => OrderInv'
<1> SUFFICES ASSUME OrderInv, ReturnNull PROVE OrderInv'
  OBVIOUS
<1> USE DEF OrderInv
<1>1. TypeOK'
  BY DEF ReturnNull, TypeOK, queues, flags, results, order, tally, guardVars
<1>2. OneInHand' /\ LastIsInHand' /\ InProgramOrder' /\ GuardHolds'
  BY DEF ReturnNull, Exhausted, Looping, OneInHand, LastIsInHand,
         InProgramOrder, GuardHolds, Idle, queues, order, guardVars
<1> QED
  BY <1>1, <1>2

LEMMA OrderInvInit == Init => OrderInv
<1> SUFFICES ASSUME Init PROVE OrderInv
  OBVIOUS
<1>1. TypeOK
  <2>1. slices_without_progress \in 0 .. max_no_progress_slices + 1
    BY BudgetAssumption DEF Init, GuardInit
  <2>2. /\ stream_open \in BOOLEAN /\ needs_advance \in BOOLEAN
        /\ emitted_final \in BOOLEAN /\ deadlock_reported \in BOOLEAN
    BY DEF Init, GuardInit
  <2>3. /\ program = << >> /\ begun = {} /\ ended = {}
        /\ future_instructions = << >> /\ control = "consumer"
        /\ instruction = NoInstruction /\ pending_error = NoInstruction
    BY DEF Init
  <2>4. /\ slice_count \in Nat /\ ls_instructions_count \in Nat
        /\ failures \in Nat /\ allowed \in Nat
        /\ emitted \in Nat /\ refused \in Nat /\ advances \in Nat
    BY DEF Init
  <2> QED
    BY <2>1, <2>2, <2>3, <2>4 DEF TypeOK
<1>2. OneInHand /\ LastIsInHand /\ InProgramOrder /\ GuardHolds
  BY BudgetAssumption
  DEF Init, GuardInit, OneInHand, LastIsInHand, InProgramOrder, GuardHolds, Idle
<1> QED
  BY <1>1, <1>2 DEF OrderInv

LEMMA OrderInvStutters == OrderInv /\ UNCHANGED vars => OrderInv'
<1> SUFFICES ASSUME OrderInv, UNCHANGED vars PROVE OrderInv'
  OBVIOUS
<1>1. TypeOK'
  BY DEF OrderInv, TypeOK, vars, queues, flags, results, order, tally, guardVars
<1>2. OneInHand' /\ LastIsInHand' /\ InProgramOrder' /\ GuardHolds'
  BY DEF OrderInv, OneInHand, LastIsInHand, InProgramOrder, GuardHolds, Idle,
         vars, queues, flags, results, order, tally, guardVars
<1> QED
  BY <1>1, <1>2 DEF OrderInv

LEMMA OrderInvStep == OrderInv /\ [Next]_vars => OrderInv'
<1> SUFFICES ASSUME OrderInv, [Next]_vars PROVE OrderInv'
  OBVIOUS
<1>1. CASE Resume
  BY <1>1, ResumeStep
<1>2. CASE GiveUp
  BY <1>2, GiveUpStep
<1>3. CASE Retry
  BY <1>3, RetryStep
<1>4. CASE Pop
  BY <1>4, PopStep
<1>5. ASSUME NEW ins \in Instructions, ReadInstruction(ins)
      PROVE  OrderInv'
  BY <1>5, ReadInstructionStep
<1>6. CASE EndOfStream
  BY <1>6, EndOfStreamStep
<1>7. CASE ApplyEnds
  BY <1>7, ApplyEndsStep
<1>8. CASE ApplyContinues \/ ApplyReschedules
  BY <1>8, FollowupsContinue, ContinuesStep
<1>9. CASE ApplyFails
  BY <1>9, ApplyFailsStep
<1>10. CASE EmitFinal
  BY <1>10, EmitFinalStep
<1>11. CASE ReturnNull
  BY <1>11, ReturnNullStep
<1>12. CASE UNCHANGED vars
  BY <1>12, OrderInvStutters
<1> QED
  BY <1>1, <1>2, <1>3, <1>4, <1>5, <1>6, <1>7, <1>8, <1>9, <1>10, <1>11, <1>12
  DEF Next

LEMMA OrderInvariant == Spec => []OrderInv
BY OrderInvInit, OrderInvStep, PTL DEF Spec

(***************************************************************************)
(* The type invariant.                                                     *)
(***************************************************************************)
THEOREM TypeCorrect == Spec => []TypeOK
<1>1. OrderInv => TypeOK
  BY DEF OrderInv
<1> QED
  BY <1>1, OrderInvariant, PTL

(***************************************************************************)
(* Instructions run one at a time and in program order, whatever the       *)
(* lattice answers: StreamedSliceStream::next reads an instruction only    *)
(* when its queue is empty and what it put off has been dealt with.        *)
(***************************************************************************)
THEOREM RunsInProgramOrder == Spec => []InProgramOrder
<1>1. OrderInv => InProgramOrder
  BY DEF OrderInv
<1> QED
  BY <1>1, OrderInvariant, PTL

(***************************************************************************)
(* An exhausted stream has run the whole program.                          *)
(***************************************************************************)
THEOREM ExhaustedHasRunAll == Spec => []ExhaustedIsComplete
<1>1. OrderInv => ExhaustedIsComplete
  BY DEF OrderInv, OneInHand, LastIsInHand, ExhaustedIsComplete, Idle
<1> QED
  BY <1>1, OrderInvariant, PTL

-----------------------------------------------------------------------------
(***************************************************************************)
(* Retries.  The instruction in hand still waits for as many failures as   *)
(* it was allowed and has not used; one without a limit keeps none.        *)
(***************************************************************************)
Waits(held) ==
  IF allowed = DEFAULT_MAX_WAIT
    THEN held.wait = DEFAULT_MAX_WAIT
    ELSE held.wait + slices_without_progress = allowed

InHandWaits ==
  /\ instruction # NoInstruction => Waits(instruction)
  /\ pending_error # NoInstruction => Waits(pending_error)
  /\ future_instructions # << >> => Waits(future_instructions[1])

IdleHasNotFailed == Idle /\ control # "threw" => failures = 0

RetryInv ==
  /\ allowed <= DEFAULT_MAX_WAIT
  /\ RetriesAreSlices /\ RetryBudget
  /\ InHandWaits /\ IdleHasNotFailed

(***************************************************************************)
(* What the consumer has got, against what next() did for it.              *)
(***************************************************************************)
AdvanceInv ==
  /\ control = "next" \/ pending_error # NoInstruction \/ emitted_final => ~needs_advance
  /\ control = "consumer" /\ emitted = 0 =>
        advances = 0 /\ ~needs_advance /\ pending_error = NoInstruction
  /\ control = "consumer" /\ emitted # 0 =>
        /\ advances = emitted - 1
        /\ needs_advance \/ pending_error # NoInstruction \/ emitted_final
  /\ control = "next" /\ ~emitted_final => advances = emitted
  /\ emitted_final /\ control # "out of time" => advances = emitted - 1
  /\ emitted_final => Idle /\ ~stream_open

CountInv ==
  /\ control # "out of time" =>
       emitted + (IF emitted_final THEN 0 ELSE 1) = slice_count + refused
  /\ control = "exhausted" => emitted_final

LEMMA GiveUpCounts ==
  OrderInv /\ RetryInv /\ AdvanceInv /\ CountInv /\ GiveUp
    => RetryInv' /\ AdvanceInv' /\ CountInv'
<1> SUFFICES ASSUME OrderInv, RetryInv, AdvanceInv, CountInv, GiveUp
             PROVE  RetryInv' /\ AdvanceInv' /\ CountInv'
  OBVIOUS
<1> USE NoInstructionIsNone, BoundsAssumption, BudgetAssumption
    DEF OrderInv, OneInHand, Idle, TypeOK, InstructionType, GiveUp,
        flags, results, order, tally, guardVars
<1>1. RetriesAreSlices' /\ InHandWaits' /\ IdleHasNotFailed'
  BY DEF RetryInv, RetriesAreSlices, InHandWaits, IdleHasNotFailed, Waits
<1>2. RetryBudget' /\ (allowed <= DEFAULT_MAX_WAIT)'
  BY DEF RetryInv, RetryBudget, RetriesAreSlices, InHandWaits, Waits, Retries, GuardHolds
<1>3. AdvanceInv' /\ CountInv'
  BY DEF AdvanceInv, CountInv
<1> QED
  BY <1>1, <1>2, <1>3 DEF RetryInv

LEMMA PopCounts ==
  OrderInv /\ RetryInv /\ AdvanceInv /\ CountInv /\ Pop
    => RetryInv' /\ AdvanceInv' /\ CountInv'
<1> SUFFICES ASSUME OrderInv, RetryInv, AdvanceInv, CountInv, Pop
             PROVE  RetryInv' /\ AdvanceInv' /\ CountInv'
  OBVIOUS
<1> USE NoInstructionIsNone, BoundsAssumption, BudgetAssumption
    DEF OrderInv, OneInHand, Idle, TypeOK, InstructionType, Pop,
        Looping, flags, results, order, tally, guardVars
<1>1. /\ instruction' = future_instructions[1]
      /\ future_instructions' = << >>
  OBVIOUS
<1>2. InHandWaits'
  BY <1>1 DEF RetryInv, InHandWaits, Waits
<1>3. RetriesAreSlices' /\ IdleHasNotFailed'
  <2>1. instruction' \in InstructionType
    <3>1. future_instructions \in Seq(InstructionType) /\ future_instructions # << >>
      OBVIOUS
    <3> QED
      BY <1>1, <3>1, HeadIsTyped
  <2>2. instruction' # NoInstruction
    BY <2>1, NoInstructionIsNone
  <2> QED
    BY <2>2 DEF RetryInv, RetriesAreSlices, IdleHasNotFailed
<1>4. RetryBudget' /\ (allowed <= DEFAULT_MAX_WAIT)'
  BY DEF RetryInv, RetryBudget, RetriesAreSlices, InHandWaits, Waits, Retries, GuardHolds
<1>5. AdvanceInv' /\ CountInv'
  BY DEF AdvanceInv, CountInv
<1> QED
  BY <1>2, <1>3, <1>4, <1>5 DEF RetryInv

LEMMA EndOfStreamCounts ==
  OrderInv /\ RetryInv /\ AdvanceInv /\ CountInv /\ EndOfStream
    => RetryInv' /\ AdvanceInv' /\ CountInv'
<1> SUFFICES ASSUME OrderInv, RetryInv, AdvanceInv, CountInv, EndOfStream
             PROVE  RetryInv' /\ AdvanceInv' /\ CountInv'
  OBVIOUS
<1> USE NoInstructionIsNone, BoundsAssumption, BudgetAssumption
    DEF OrderInv, OneInHand, Idle, TypeOK, InstructionType, EndOfStream,
        flags, results, order, tally, guardVars
<1>1. RetriesAreSlices' /\ InHandWaits' /\ IdleHasNotFailed'
  BY DEF RetryInv, RetriesAreSlices, InHandWaits, IdleHasNotFailed, Waits
<1>2. RetryBudget' /\ (allowed <= DEFAULT_MAX_WAIT)'
  BY DEF RetryInv, RetryBudget, RetriesAreSlices, InHandWaits, Waits, Retries, GuardHolds
<1>3. AdvanceInv' /\ CountInv'
  BY DEF AdvanceInv, CountInv
<1> QED
  BY <1>1, <1>2, <1>3 DEF RetryInv

LEMMA ReturnNullCounts ==
  OrderInv /\ RetryInv /\ AdvanceInv /\ CountInv /\ ReturnNull
    => RetryInv' /\ AdvanceInv' /\ CountInv'
<1> SUFFICES ASSUME OrderInv, RetryInv, AdvanceInv, CountInv, ReturnNull
             PROVE  RetryInv' /\ AdvanceInv' /\ CountInv'
  OBVIOUS
<1> USE NoInstructionIsNone, BoundsAssumption, BudgetAssumption
    DEF OrderInv, OneInHand, Idle, TypeOK, InstructionType, ReturnNull,
        Exhausted, Looping, queues, flags, results, order, tally, guardVars
<1>1. RetriesAreSlices' /\ InHandWaits' /\ IdleHasNotFailed'
  BY DEF RetryInv, RetriesAreSlices, InHandWaits, IdleHasNotFailed, Waits
<1>2. RetryBudget' /\ (allowed <= DEFAULT_MAX_WAIT)'
  BY DEF RetryInv, RetryBudget, RetriesAreSlices, InHandWaits, Waits, Retries, GuardHolds
<1>3. AdvanceInv' /\ CountInv'
  BY DEF AdvanceInv, CountInv
<1> QED
  BY <1>1, <1>2, <1>3 DEF RetryInv

LEMMA ResumeCounts ==
  OrderInv /\ RetryInv /\ AdvanceInv /\ CountInv /\ Resume
    => RetryInv' /\ AdvanceInv' /\ CountInv'
<1> SUFFICES ASSUME OrderInv, RetryInv, AdvanceInv, CountInv, Resume
             PROVE  RetryInv' /\ AdvanceInv' /\ CountInv'
  OBVIOUS
<1> USE NoInstructionIsNone, BoundsAssumption, BudgetAssumption
    DEF OrderInv, OneInHand, Idle, TypeOK, InstructionType, Resume,
        queues, results, order, guardVars
<1>1. RetriesAreSlices' /\ InHandWaits' /\ IdleHasNotFailed'
  BY DEF RetryInv, RetriesAreSlices, InHandWaits, IdleHasNotFailed, Waits
<1>2. RetryBudget' /\ (allowed <= DEFAULT_MAX_WAIT)'
  <2>1. /\ failures = slices_without_progress
        /\ slices_without_progress <= max_no_progress_slices
    BY DEF RetryInv, RetriesAreSlices, GuardHolds
  <2>2. allowed # DEFAULT_MAX_WAIT => failures <= allowed
    <3>1. CASE future_instructions = << >>
      BY <3>1 DEF RetryInv, IdleHasNotFailed
    <3>2. CASE future_instructions # << >>
      <4>1. future_instructions \in Seq(InstructionType)
        OBVIOUS
      <4>2. future_instructions[1] \in InstructionType
        BY <3>2, <4>1, HeadIsTyped
      <4>3. future_instructions[1].wait \in Nat
        BY <4>2
      <4> QED
        BY <2>1, <3>2, <4>3 DEF RetryInv, InHandWaits, Waits
    <3> QED
      BY <3>1, <3>2
  <2>3. failures <= Retries
    BY <2>1, <2>2 DEF Retries
  <2> QED
    BY <2>3 DEF RetryInv, RetryBudget, Retries
<1>3. AdvanceInv' /\ CountInv'
  BY DEF AdvanceInv, CountInv
<1> QED
  BY <1>1, <1>2, <1>3 DEF RetryInv

LEMMA RetryCounts ==
  OrderInv /\ RetryInv /\ AdvanceInv /\ CountInv /\ Retry
    => RetryInv' /\ AdvanceInv' /\ CountInv'
<1> SUFFICES ASSUME OrderInv, RetryInv, AdvanceInv, CountInv, Retry
             PROVE  RetryInv' /\ AdvanceInv' /\ CountInv'
  OBVIOUS
<1>1. /\ pending_error \in InstructionType
      /\ pending_error.wait \in Nat \ {0}
      /\ future_instructions = << >> /\ instruction = NoInstruction
      /\ control = "consumer"
  BY DEF OrderInv, Retry, TypeOK, OneInHand, InstructionType
<1>2. /\ note_no_progress
      /\ slices_without_progress \in 0 .. max_no_progress_slices
  BY <1>1, BudgetAssumption DEF OrderInv, Retry, TypeOK, GuardHolds
<1>3. /\ slices_without_progress' = slices_without_progress + 1
      /\ slices_without_progress \in Nat
      /\ ~deadlock_reported' => slices_without_progress' <= max_no_progress_slices
      /\ deadlock_reported' => slices_without_progress' = max_no_progress_slices + 1
  BY <1>2, NoProgressIsNoted, BudgetAssumption
<1>4. failures = slices_without_progress + 1 /\ allowed \in Nat
  BY <1>1, NoInstructionIsNone DEF OrderInv, TypeOK, RetryInv, RetriesAreSlices
<1>5. /\ allowed = DEFAULT_MAX_WAIT => pending_error.wait = DEFAULT_MAX_WAIT
      /\ allowed # DEFAULT_MAX_WAIT =>
           /\ pending_error.wait + slices_without_progress = allowed
           /\ pending_error.wait # DEFAULT_MAX_WAIT
      /\ allowed <= DEFAULT_MAX_WAIT
  BY <1>1, <1>3, <1>4, NoInstructionIsNone, BoundsAssumption
  DEF RetryInv, InHandWaits, Waits
<1>6. /\ pending_error' = NoInstruction
      /\ UNCHANGED <<stream_open, instruction, flags, results, order, failures,
                     allowed, emitted, refused>>
  BY DEF Retry
<1>7. failures <= Retries + 1 /\ (deadlock_reported' => failures = Retries + 1)
      /\ (~deadlock_reported' => failures <= Retries)
  BY <1>1, <1>3, <1>4, <1>5, BudgetAssumption, BoundsAssumption DEF Retries
<1>8. CASE deadlock_reported'
  <2>1. control' = "threw" /\ UNCHANGED <<future_instructions, advances>>
    BY <1>8 DEF Retry
  <2>2. RetryBudget'
    BY <1>6, <1>7, <1>8, <2>1 DEF RetryBudget, Retries
  <2>3. RetryInv'
    BY <1>1, <1>5, <1>6, <2>1, <2>2
    DEF RetryInv, RetriesAreSlices, InHandWaits, IdleHasNotFailed
  <2>4. AdvanceInv' /\ CountInv'
    BY <1>1, <1>6, <2>1, NoInstructionIsNone
    DEF AdvanceInv, CountInv, Idle, flags, results
  <2> QED
    BY <2>3, <2>4
<1>9. CASE ~deadlock_reported'
  <2> DEFINE retried == [pending_error EXCEPT !.wait = WaitedOnce(@)]
  <2>1. /\ control' = "next"
        /\ future_instructions' = <<retried>> \o future_instructions
        /\ advances' = advances + 1
    BY <1>9 DEF Retry
  <2>2. retried.wait = WaitedOnce(pending_error.wait)
    BY <1>1 DEF InstructionType
  <2>3. retried \in InstructionType
    BY <1>1 DEF InstructionType, WaitedOnce
  <2> HIDE DEF retried
  <2>4. future_instructions' = <<retried>> /\ future_instructions'[1] = retried
        /\ future_instructions' # << >>
    BY <1>1, <2>1, <2>3
  <2>5. InHandWaits'
    BY <1>1, <1>3, <1>5, <1>6, <2>2, <2>4, BoundsAssumption
    DEF InHandWaits, Waits, WaitedOnce
  <2>6. RetriesAreSlices' /\ IdleHasNotFailed'
    BY <1>3, <1>4, <1>6, <2>1, <2>4 DEF RetriesAreSlices, IdleHasNotFailed, Idle
  <2>7. RetryBudget' /\ (allowed <= DEFAULT_MAX_WAIT)'
    BY <1>5, <1>6, <1>7, <1>9, <2>1 DEF RetryBudget, Retries
  <2>8. AdvanceInv' /\ CountInv'
    BY <1>1, <1>6, <2>1, NoInstructionIsNone
    DEF OrderInv, TypeOK, AdvanceInv, CountInv, Idle, flags, results
  <2> QED
    BY <2>5, <2>6, <2>7, <2>8 DEF RetryInv
<1> QED
  BY <1>8, <1>9

LEMMA ReadInstructionCounts ==
  ASSUME OrderInv, RetryInv, AdvanceInv, CountInv,
         NEW ins \in Instructions, ReadInstruction(ins)
  PROVE  RetryInv' /\ AdvanceInv' /\ CountInv'
<1>1. Idle /\ control = "next" /\ stream_open
  BY DEF OrderInv, ReadInstruction, Looping, QueueFirst, OneInHand, LastIsInHand, Idle, TypeOK
<1>2. /\ slices_without_progress = 0 /\ failures = 0
  BY <1>1 DEF OrderInv, TypeOK, RetryInv, RetriesAreSlices, IdleHasNotFailed, Idle
<1>3. /\ instruction' = [kind |-> ins.kind, wait |-> ins.wait, stage |-> 0]
      /\ allowed' = ins.wait
      /\ UNCHANGED <<control, stream_open, future_instructions, pending_error,
                     flags, slice_count, begun, ended, failures, emitted,
                     refused, advances, guardVars>>
  BY DEF ReadInstruction
<1>4. ins.wait \in 0 .. DEFAULT_MAX_WAIT
  BY InstructionIsTyped
<1>5. instruction'.wait = ins.wait /\ instruction' # NoInstruction
  BY <1>3 DEF NoInstruction
<1>6. InHandWaits'
  BY <1>1, <1>2, <1>3, <1>4, <1>5, BoundsAssumption
  DEF InHandWaits, Waits, Idle, guardVars
<1>7. RetriesAreSlices' /\ IdleHasNotFailed'
  BY <1>1, <1>2, <1>3, <1>5 DEF RetriesAreSlices, IdleHasNotFailed, Idle, guardVars
<1>8. RetryBudget' /\ (allowed <= DEFAULT_MAX_WAIT)'
  BY <1>1, <1>2, <1>3, <1>4, BoundsAssumption, BudgetAssumption DEF RetryBudget, Retries
<1>9. ~emitted_final
  BY <1>1 DEF AdvanceInv
<1>10. AdvanceInv' /\ CountInv'
  BY <1>1, <1>3, <1>9 DEF AdvanceInv, CountInv, flags, Idle
<1> QED
  BY <1>6, <1>7, <1>8, <1>10 DEF RetryInv

LEMMA ApplyEndsCounts ==
  OrderInv /\ RetryInv /\ AdvanceInv /\ CountInv /\ ApplyEnds
    => RetryInv' /\ AdvanceInv' /\ CountInv'
<1> SUFFICES ASSUME OrderInv, RetryInv, AdvanceInv, CountInv, ApplyEnds
             PROVE  RetryInv' /\ AdvanceInv' /\ CountInv'
  OBVIOUS
<1>1. /\ control = "next" /\ instruction # NoInstruction
      /\ future_instructions = << >> /\ pending_error = NoInstruction
  BY DEF OrderInv, ApplyEnds, Answered, OneInHand
<1>2. /\ instruction' = NoInstruction
      /\ slices_without_progress' = 0 /\ failures' = 0
      /\ UNCHANGED <<control, stream_open, future_instructions, pending_error,
                     flags, results, program, allowed, emitted, refused, advances,
                     deadlock_reported>>
  BY DEF ApplyEnds, note_progress
<1>3. RetryInv'
  BY <1>1, <1>2, BudgetAssumption
  DEF OrderInv, TypeOK, RetryInv, RetriesAreSlices, RetryBudget, Retries,
      InHandWaits, IdleHasNotFailed
<1>4. AdvanceInv' /\ CountInv'
  BY <1>1, <1>2 DEF AdvanceInv, CountInv, flags, results, Idle
<1> QED
  BY <1>3, <1>4

LEMMA ContinuesCounts ==
  ASSUME OrderInv, RetryInv, AdvanceInv, CountInv,
         NEW answer \in {"followup", "rescheduled"}, Continues(answer)
  PROVE  RetryInv' /\ AdvanceInv' /\ CountInv'
<1>1. /\ instruction \in InstructionType /\ instruction # NoInstruction
      /\ control = "next"
      /\ future_instructions = << >> /\ pending_error = NoInstruction
  BY DEF OrderInv, Continues, Answered, TypeOK, OneInHand
<1>2. /\ future_instructions' = Append(future_instructions, Continuation(answer))
      /\ allowed' = Continuation(answer).wait
  BY DEF Continues, Continue
<1> DEFINE next == Continuation(answer)
<1>3. next \in InstructionType
  BY <1>1, ContinuationIsTyped
<1>4. next.wait \in Nat /\ next.wait <= DEFAULT_MAX_WAIT
  <2>1. CASE answer = "followup"
    BY <2>1, BoundsAssumption DEF Continuation
  <2>2. CASE answer = "rescheduled"
    <3>1. next.wait = instruction.wait
      BY <1>1, <2>2 DEF Continuation, InstructionType
    <3>2. instruction.wait <= DEFAULT_MAX_WAIT
      <4>1. /\ allowed \in Nat /\ slices_without_progress \in Nat
            /\ instruction.wait \in Nat
        BY <1>1, BudgetAssumption DEF OrderInv, TypeOK, InstructionType
      <4> QED
        BY <1>1, <4>1, BoundsAssumption DEF RetryInv, InHandWaits, Waits
    <3> QED
      BY <1>3, <3>1, <3>2 DEF InstructionType
  <2> QED
    BY <2>1, <2>2
<1>5. /\ future_instructions' = <<next>> /\ future_instructions'[1] = next
      /\ future_instructions' # << >>
  BY <1>1, <1>2, <1>3
<1>6. allowed' = next.wait
  BY <1>2
<1> HIDE DEF next
<1>7. /\ instruction' = NoInstruction
      /\ slices_without_progress' = 0 /\ failures' = 0
      /\ slice_count' = slice_count + 1
      /\ UNCHANGED <<stream_open, pending_error, emitted_final, refused, advances>>
  BY DEF Continues, Continue, note_progress, CountSlice
<1>8. needs_advance' = TRUE
  BY DEF Continues, Continue
<1>9. /\ emitted \in Nat /\ slice_count \in Nat /\ refused \in Nat
      /\ advances \in Nat
  BY DEF OrderInv, TypeOK
<1>10. /\ control' \in {"consumer", "out of time"} /\ emitted' \in Nat
       /\ control' = "consumer" => emitted' = emitted + 1
  BY <1>9, EmitIsTyped DEF Continues, Continue
<1>11. InHandWaits'
  BY <1>1, <1>4, <1>5, <1>6, <1>7 DEF InHandWaits, Waits
<1>12. RetriesAreSlices' /\ IdleHasNotFailed'
  BY <1>1, <1>7 DEF RetriesAreSlices, IdleHasNotFailed
<1>13. RetryBudget' /\ (allowed <= DEFAULT_MAX_WAIT)'
  <2>1. failures' = 0 /\ Retries' \in Nat /\ control' # "threw"
    BY <1>4, <1>6, <1>7, <1>10, BudgetAssumption DEF Retries
  <2> QED
    <3>1. failures' <= Retries' + 1 /\ failures' <= Retries'
      BY <1>4, <1>6, <2>1, BudgetAssumption DEF Retries
    <3> QED
      BY <1>4, <1>6, <2>1, <3>1 DEF RetryBudget
<1>14. ~emitted_final
  BY <1>1 DEF AdvanceInv, Idle
<1>15. /\ advances = emitted
       /\ emitted + 1 = slice_count + refused
  BY <1>1, <1>14 DEF AdvanceInv, CountInv
<1>16. CASE control' = "consumer"
  <2>1. emitted' = emitted + 1
    BY <1>10, <1>16
  <2>2. AdvanceInv'
    BY <1>1, <1>7, <1>8, <1>9, <1>14, <1>15, <1>16, <2>1 DEF AdvanceInv
  <2>3. CountInv'
    <3>1. emitted' + 1 = slice_count' + refused'
      BY <1>7, <1>9, <1>15, <2>1
    <3>2. ~emitted_final'
      BY <1>7, <1>14
    <3> QED
      BY <1>16, <3>1, <3>2 DEF CountInv
  <2> QED
    BY <1>11, <1>12, <1>13, <2>2, <2>3 DEF RetryInv
<1>17. CASE control' = "out of time"
  <2>1. AdvanceInv' /\ CountInv'
    BY <1>1, <1>7, <1>14, <1>17 DEF AdvanceInv, CountInv
  <2> QED
    BY <1>11, <1>12, <1>13, <2>1 DEF RetryInv
<1> QED
  BY <1>10, <1>16, <1>17

LEMMA ApplyFailsCounts ==
  OrderInv /\ RetryInv /\ AdvanceInv /\ CountInv /\ ApplyFails
    => RetryInv' /\ AdvanceInv' /\ CountInv'
<1> SUFFICES ASSUME OrderInv, RetryInv, AdvanceInv, CountInv, ApplyFails
             PROVE  RetryInv' /\ AdvanceInv' /\ CountInv'
  OBVIOUS
<1>1. /\ instruction \in InstructionType /\ instruction # NoInstruction
      /\ control = "next"
      /\ future_instructions = << >> /\ pending_error = NoInstruction
  BY DEF OrderInv, ApplyFails, Answered, TypeOK, OneInHand
<1>2. /\ instruction' = NoInstruction /\ pending_error' = instruction
      /\ failures' = failures + 1 /\ refused' = refused + 1
      /\ UNCHANGED <<stream_open, future_instructions, flags, results, order,
                     allowed, advances, guardVars>>
  BY DEF ApplyFails
<1>3. /\ emitted \in Nat /\ slice_count \in Nat /\ refused \in Nat
      /\ advances \in Nat /\ failures \in Nat
  BY DEF OrderInv, TypeOK
<1>4. /\ control' \in {"consumer", "out of time"} /\ emitted' \in Nat
      /\ control' = "consumer" => emitted' = emitted + 1
  BY <1>3, EmitIsTyped DEF ApplyFails
<1>5. InHandWaits' /\ IdleHasNotFailed'
  BY <1>1, <1>2 DEF RetryInv, InHandWaits, Waits, IdleHasNotFailed, Idle, guardVars
<1>6. RetriesAreSlices'
  <2>1. failures = slices_without_progress
    BY <1>1, <1>3 DEF OrderInv, TypeOK, RetryInv, RetriesAreSlices
  <2>2. slices_without_progress' + 1 = failures'
    BY <1>2, <2>1 DEF guardVars
  <2> QED
    BY <1>1, <1>2, <2>2 DEF RetriesAreSlices
<1>7. RetryBudget' /\ (allowed <= DEFAULT_MAX_WAIT)'
  <2>1. failures <= Retries /\ Retries \in Nat
    BY <1>1, BudgetAssumption DEF OrderInv, TypeOK, RetryInv, RetryBudget, Retries
  <2> QED
    <3>1. failures' = failures + 1 /\ failures' <= Retries + 1
      BY <1>2, <1>3, <2>1
    <3>2. Retries' = Retries /\ allowed' = allowed
      BY <1>2 DEF Retries
    <3>3. control' # "next" /\ control' # "threw"
      BY <1>4
    <3> QED
      BY <3>1, <3>2, <3>3 DEF RetryInv, RetryBudget
<1>8. ~emitted_final /\ ~needs_advance
  BY <1>1 DEF AdvanceInv, Idle
<1>9. /\ advances = emitted
      /\ emitted + 1 = slice_count + refused
  BY <1>1, <1>8 DEF AdvanceInv, CountInv
<1>10. CASE control' = "consumer"
  <2>1. emitted' = emitted + 1
    BY <1>4, <1>10
  <2>2. AdvanceInv'
    BY <1>1, <1>2, <1>3, <1>8, <1>9, <1>10, <2>1 DEF AdvanceInv, flags
  <2>3. CountInv'
    <3>1. emitted' + 1 = slice_count' + refused'
      BY <1>2, <1>3, <1>9, <2>1 DEF results
    <3>2. ~emitted_final'
      BY <1>2, <1>8 DEF flags
    <3> QED
      BY <1>10, <3>1, <3>2 DEF CountInv
  <2> QED
    BY <1>5, <1>6, <1>7, <2>2, <2>3 DEF RetryInv
<1>11. CASE control' = "out of time"
  <2>1. AdvanceInv' /\ CountInv'
    BY <1>2, <1>8, <1>11 DEF AdvanceInv, CountInv, flags
  <2> QED
    BY <1>5, <1>6, <1>7, <2>1 DEF RetryInv
<1> QED
  BY <1>4, <1>10, <1>11

LEMMA EmitFinalCounts ==
  OrderInv /\ RetryInv /\ AdvanceInv /\ CountInv /\ EmitFinal
    => RetryInv' /\ AdvanceInv' /\ CountInv'
<1> SUFFICES ASSUME OrderInv, RetryInv, AdvanceInv, CountInv, EmitFinal
             PROVE  RetryInv' /\ AdvanceInv' /\ CountInv'
  OBVIOUS
<1>1. Idle /\ control = "next" /\ ~stream_open /\ ~emitted_final
  BY DEF OrderInv, EmitFinal, Exhausted, Looping, OneInHand, Idle, TypeOK
<1>2. /\ emitted_final' = TRUE
      /\ UNCHANGED <<queues, needs_advance, results, order, failures, allowed,
                     refused, advances, guardVars>>
  BY DEF EmitFinal
<1>3. /\ emitted \in Nat /\ slice_count \in Nat /\ refused \in Nat
      /\ advances \in Nat
  BY DEF OrderInv, TypeOK
<1>4. /\ control' \in {"consumer", "out of time"} /\ emitted' \in Nat
      /\ control' = "consumer" => emitted' = emitted + 1
  BY <1>3, EmitIsTyped DEF EmitFinal
<1>5. InHandWaits' /\ IdleHasNotFailed' /\ RetriesAreSlices'
  BY <1>1, <1>2, <1>4
  DEF RetryInv, InHandWaits, Waits, IdleHasNotFailed, RetriesAreSlices, Idle,
      queues, guardVars
<1>6. RetryBudget' /\ (allowed <= DEFAULT_MAX_WAIT)'
  BY <1>1, <1>2, <1>4 DEF RetryInv, RetryBudget, Retries
<1>7. ~needs_advance
  BY <1>1 DEF AdvanceInv
<1>8. /\ advances = emitted
      /\ emitted + 1 = slice_count + refused
  BY <1>1 DEF AdvanceInv, CountInv
<1>9. CASE control' = "consumer"
  <2>1. emitted' = emitted + 1
    BY <1>4, <1>9
  <2>2. AdvanceInv'
    BY <1>1, <1>2, <1>3, <1>7, <1>8, <1>9, <2>1 DEF AdvanceInv, Idle, queues
  <2>3. CountInv'
    <3>1. emitted' = slice_count' + refused'
      BY <1>2, <1>3, <1>8, <2>1 DEF results
    <3>2. emitted' \in Nat
      BY <1>4
    <3>3. emitted' + 0 = slice_count' + refused'
      BY <3>1, <3>2
    <3> QED
      BY <1>2, <1>9, <3>3 DEF CountInv
  <2> QED
    BY <1>5, <1>6, <2>2, <2>3 DEF RetryInv
<1>10. CASE control' = "out of time"
  <2>1. AdvanceInv' /\ CountInv'
    BY <1>1, <1>2, <1>7, <1>10 DEF AdvanceInv, CountInv, Idle, queues
  <2> QED
    BY <1>5, <1>6, <2>1 DEF RetryInv
<1> QED
  BY <1>4, <1>9, <1>10

LEMMA CountsInit == Init => RetryInv /\ AdvanceInv /\ CountInv
BY BoundsAssumption, BudgetAssumption
DEF Init, GuardInit, RetryInv, RetriesAreSlices, RetryBudget, Retries,
    InHandWaits, IdleHasNotFailed, AdvanceInv, CountInv, Idle

LEMMA CountsStutter ==
  RetryInv /\ AdvanceInv /\ CountInv /\ UNCHANGED vars
    => RetryInv' /\ AdvanceInv' /\ CountInv'
<1> SUFFICES ASSUME RetryInv, AdvanceInv, CountInv, UNCHANGED vars
             PROVE  RetryInv' /\ AdvanceInv' /\ CountInv'
  OBVIOUS
<1> USE DEF vars, queues, flags, results, order, tally, guardVars
<1>1. InHandWaits' /\ IdleHasNotFailed'
  BY DEF RetryInv, InHandWaits, Waits, IdleHasNotFailed, Idle
<1>2. RetriesAreSlices' /\ RetryBudget' /\ (allowed <= DEFAULT_MAX_WAIT)'
  BY DEF RetryInv, RetriesAreSlices, RetryBudget, Retries
<1>3. AdvanceInv' /\ CountInv'
  BY DEF AdvanceInv, CountInv, Idle
<1> QED
  BY <1>1, <1>2, <1>3 DEF RetryInv

LEMMA CountsStep ==
  OrderInv /\ RetryInv /\ AdvanceInv /\ CountInv /\ [Next]_vars
    => RetryInv' /\ AdvanceInv' /\ CountInv'
<1> SUFFICES ASSUME OrderInv, RetryInv, AdvanceInv, CountInv, [Next]_vars
             PROVE  RetryInv' /\ AdvanceInv' /\ CountInv'
  OBVIOUS
<1>1. CASE Resume
  BY <1>1, ResumeCounts
<1>2. CASE GiveUp
  BY <1>2, GiveUpCounts
<1>3. CASE Retry
  BY <1>3, RetryCounts
<1>4. CASE Pop
  BY <1>4, PopCounts
<1>5. ASSUME NEW ins \in Instructions, ReadInstruction(ins)
      PROVE  RetryInv' /\ AdvanceInv' /\ CountInv'
  BY <1>5, ReadInstructionCounts
<1>6. CASE EndOfStream
  BY <1>6, EndOfStreamCounts
<1>7. CASE ApplyEnds
  BY <1>7, ApplyEndsCounts
<1>8. CASE ApplyContinues \/ ApplyReschedules
  BY <1>8, FollowupsContinue, ContinuesCounts
<1>9. CASE ApplyFails
  BY <1>9, ApplyFailsCounts
<1>10. CASE EmitFinal
  BY <1>10, EmitFinalCounts
<1>11. CASE ReturnNull
  BY <1>11, ReturnNullCounts
<1>12. CASE UNCHANGED vars
  BY <1>12, CountsStutter
<1> QED
  BY <1>1, <1>2, <1>3, <1>4, <1>5, <1>6, <1>7, <1>8, <1>9, <1>10, <1>11, <1>12
  DEF Next

LEMMA CountsInvariant == Spec => [](RetryInv /\ AdvanceInv /\ CountInv)
BY CountsInit, CountsStep, OrderInvariant, PTL DEF Spec

(***************************************************************************)
(* "Consecutive no-progress slices equal its failed retries", as the       *)
(* comment on class NoProgressGuard says of the stream pipeline.           *)
(***************************************************************************)
THEOREM RetriesAreCounted == Spec => []RetriesAreSlices
<1>1. RetryInv => RetriesAreSlices
  BY DEF RetryInv
<1> QED
  BY <1>1, CountsInvariant, PTL

(***************************************************************************)
(* An instruction that cannot be applied is retried until its own limit or *)
(* that of the guard is used up, whichever is smaller, and then the run is *)
(* given up: no earlier, and no later.                                     *)
(***************************************************************************)
THEOREM BudgetIsKept == Spec => []RetryBudget
<1>1. RetryInv => RetryBudget
  BY DEF RetryInv
<1> QED
  BY <1>1, CountsInvariant, PTL

(***************************************************************************)
(* What next() puts off is done once: the lattice is advanced exactly once *)
(* between two slices of the stream.                                       *)
(***************************************************************************)
THEOREM AdvancesOnce == Spec => []OneAdvancePerSlice
<1>1. OrderInv /\ AdvanceInv /\ CountInv => OneAdvancePerSlice
  <2> SUFFICES ASSUME OrderInv, AdvanceInv, CountInv PROVE OneAdvancePerSlice
    OBVIOUS
  <2>0. control = "exhausted" => advances = emitted - 1
    BY DEF AdvanceInv, CountInv
  <2>1. control = "next" /\ ~emitted_final => advances = emitted
    BY DEF AdvanceInv
  <2>2. control = "consumer" /\ emitted # 0 => advances = emitted - 1
    BY DEF AdvanceInv
  <2>3. emitted \in Nat
    BY DEF OrderInv, TypeOK
  <2>4. emitted > 0 => emitted # 0
    BY <2>3
  <2> QED
    BY <2>0, <2>1, <2>2, <2>4 DEF OneAdvancePerSlice
<1> QED
  BY <1>1, OrderInvariant, CountsInvariant, PTL

(***************************************************************************)
(* slice_count() misses exactly the slices that were handed over because   *)
(* an instruction could not be applied.                                    *)
(***************************************************************************)
THEOREM SlicesAreAccountedFor == Spec => []SlicesAccountedFor
<1>1. OrderInv /\ CountInv => SlicesAccountedFor
  <2> SUFFICES ASSUME OrderInv, CountInv PROVE SlicesAccountedFor
    OBVIOUS
  <2>1. emitted \in Nat
    BY DEF OrderInv, TypeOK
  <2> QED
    BY <2>1 DEF CountInv, SlicesAccountedFor
<1> QED
  BY <1>1, OrderInvariant, CountsInvariant, PTL

-----------------------------------------------------------------------------
(***************************************************************************)
(* The stream pipeline implements PatchOrder: the instruction in hand is   *)
(* the last one read and every earlier one has ended, so it may begin.     *)
(***************************************************************************)
LEMMA LastIsReady ==
  ASSUME OrderInv, instruction # NoInstruction, control = "next"
  PROVE  /\ Len(program) \in DOMAIN program \ ended
         /\ Order!Before(Len(program)) \subseteq ended
<1>1. Len(program) # 0 /\ Len(program) \notin ended
  BY DEF OrderInv, LastIsInHand, Idle
<1>2. program \in Seq(SUBSET Patches)
  BY DEF OrderInv, TypeOK
<1>3. Len(program) \in Nat /\ DOMAIN program = 1 .. Len(program)
  BY <1>2
<1>4. ASSUME NEW j \in 1 .. (Len(program) - 1)
      PROVE  j \in ended
  BY <1>3, <1>4 DEF OrderInv, InProgramOrder
<1> QED
  BY <1>1, <1>3, <1>4 DEF Order!Before

LEMMA OrderStep ==
  ASSUME OrderInv, [Next]_vars
  PROVE  [Order!Next]_Order!abstractVars
<1> USE DEF Order!abstractVars
<1>1. ASSUME NEW ins \in Instructions, ReadInstruction(ins)
      PROVE  [Order!Next]_Order!abstractVars
  <2>1. Order!Read(ins.patches)
    BY <1>1 DEF ReadInstruction, Order!Read
  <2>2. ins.patches \in SUBSET Patches
    BY InstructionIsTyped
  <2> QED
    BY <2>1, <2>2 DEF Order!Next
<1>2. CASE ApplyEnds
  <2>1. /\ Len(program) \in DOMAIN program \ ended
        /\ Order!Before(Len(program)) \subseteq ended
    BY <1>2, LastIsReady DEF ApplyEnds, Answered
  <2>2. /\ begun' = begun \cup {Len(program)} /\ ended' = ended \cup {Len(program)}
        /\ UNCHANGED program
    BY <1>2 DEF ApplyEnds, Begun
  <2>3. CASE Len(program) \in begun
    <3>1. Order!End(Len(program))
      BY <2>1, <2>2, <2>3 DEF Order!End
    <3> QED
      BY <2>1, <3>1 DEF Order!Next
  <2>4. CASE Len(program) \notin begun
    <3>1. Order!BeginAndEnd(Len(program))
      BY <2>1, <2>2, <2>4 DEF Order!BeginAndEnd, Order!Ready
    <3> QED
      BY <2>1, <3>1 DEF Order!Next
  <2> QED
    BY <2>3, <2>4
<1>3. CASE ApplyContinues \/ ApplyReschedules
  <2>1. /\ Len(program) \in DOMAIN program \ ended
        /\ Order!Before(Len(program)) \subseteq ended
    BY <1>3, LastIsReady DEF ApplyContinues, ApplyReschedules, Answered
  <2>2. begun' = begun \cup {Len(program)} /\ UNCHANGED <<program, ended>>
    BY <1>3 DEF ApplyContinues, ApplyReschedules, Continue, Begun
  <2>3. CASE Len(program) \in begun
    BY <2>2, <2>3
  <2>4. CASE Len(program) \notin begun
    <3>1. Order!Begin(Len(program))
      BY <2>1, <2>2, <2>4 DEF Order!Begin, Order!Ready
    <3> QED
      BY <2>1, <3>1 DEF Order!Next
  <2> QED
    BY <2>3, <2>4
<1>4. CASE UNCHANGED order
  BY <1>4 DEF order
<1>5. CASE Resume \/ GiveUp \/ Retry \/ Pop \/ EndOfStream
  BY <1>4, <1>5 DEF Resume, GiveUp, Retry, Pop, EndOfStream
<1>6. CASE ApplyFails \/ EmitFinal \/ ReturnNull \/ UNCHANGED vars
  BY <1>4, <1>6 DEF ApplyFails, EmitFinal, ReturnNull, vars
<1> QED
  BY <1>1, <1>2, <1>3, <1>5, <1>6 DEF Next

THEOREM ImplementsPatchOrder == Spec => RunsInPatchOrder
<1>1. Init => Order!Init
  BY DEF Init, Order!Init
<1>2. OrderInv /\ [Next]_vars => [Order!Next]_Order!abstractVars
  BY OrderStep
<1> QED
  BY <1>1, <1>2, OrderInvariant, PTL DEF Spec, RunsInPatchOrder, Order!Spec

=============================================================================
