--------------------------- MODULE StreamedSlices ---------------------------
(***************************************************************************)
(* The stream pipeline (class StreamedSliceStream), optionally inside a    *)
(* TimeoutSliceStream.  It reads the program one instruction at a time,    *)
(* packs instructions into the current slice as long as they are applied   *)
(* at once, and hands the slice to its consumer when an instruction has a  *)
(* follow-up, when an instruction cannot be applied, and at the end.       *)
(*                                                                         *)
(* What the original loop did after it had shown a slice - advance it, or  *)
(* throw, note the lack of progress and put the instruction back - is put  *)
(* off to the start of the following call of next().                       *)
(***************************************************************************)
EXTENDS LSInstructions, NoProgressGuard, Sequences, FiniteSets

CONSTANT Timed            \* a wall-clock budget was given

ASSUME TimedAssumption == Timed \in BOOLEAN
ASSUME StreamAssumption == ~EDPC    \* only the wave scheduler calls set_EDPC

VARIABLES
  control,                \* who runs: the consumer, next() or nobody any more
  stream_open,            \* the instruction stream may have a next instruction
  future_instructions,    \* future_instructions_
  instruction,            \* the one being applied, or NoInstruction
  pending_error,          \* pending_error_, or NoInstruction
  needs_advance,          \* needs_advance_
  emitted_final,          \* emitted_final_
  slice_count,            \* result_.slice_count_
  ls_instructions_count,  \* result_.ls_instructions_count_
  program,                \* history: the patches of the instructions read
  begun,                  \* history: instructions that changed the lattice
  ended,                  \* history: instructions that are done
  failures,               \* history: failed attempts since the last success
  allowed,                \* history: retries it had at that time
  emitted,                \* history: slices handed to the consumer
  refused,                \* history: those handed over because of an error
  advances                \* history: calls of advance_slice

results == <<slice_count, ls_instructions_count>>
order == <<program, begun, ended>>
tally == <<failures, allowed, emitted, refused, advances>>
queues == <<stream_open, future_instructions, instruction, pending_error>>
flags == <<needs_advance, emitted_final>>
vars == <<control, queues, flags, results, order, tally, guardVars>>

-----------------------------------------------------------------------------
NoInstruction == [kind |-> "none"]

Init ==
  /\ control = "consumer"
  /\ stream_open = TRUE
  /\ future_instructions = << >>
  /\ instruction = NoInstruction
  /\ pending_error = NoInstruction
  /\ needs_advance = FALSE /\ emitted_final = FALSE
  /\ slice_count = 1 /\ ls_instructions_count = 0
  /\ program = << >> /\ begun = {} /\ ended = {}
  /\ failures = 0 /\ allowed = 0 /\ emitted = 0 /\ refused = 0 /\ advances = 0
  /\ GuardInit

(* A definition that a comment calls faulty is the next one with a bug in it.   *)
(* No action uses it: it shows that the properties would notice the bug.        *)

(* Faulty: the flag stays set, so the next slice is advanced once more. *)
ResumeKeepsFlag ==
  /\ control = "consumer" /\ pending_error = NoInstruction
  /\ control' = "next"
  /\ advances' = IF needs_advance THEN advances + 1 ELSE advances
  /\ UNCHANGED <<queues, flags, results, order, failures, allowed,
                 emitted, refused, guardVars>>

(***************************************************************************)
(* next() starts with what the previous call has put off.                  *)
(***************************************************************************)
Resume ==
  /\ control = "consumer" /\ pending_error = NoInstruction
  /\ control' = "next"
  /\ needs_advance' = FALSE
  /\ advances' = IF needs_advance THEN advances + 1 ELSE advances
  /\ UNCHANGED <<queues, emitted_final, results, order, failures, allowed,
                 emitted, refused, guardVars>>

(* The instruction in error had no retries left: its own error is thrown. *)
GiveUp ==
  /\ control = "consumer" /\ pending_error # NoInstruction
  /\ pending_error.wait = 0
  /\ control' = "threw"
  /\ pending_error' = NoInstruction
  /\ UNCHANGED <<stream_open, future_instructions, instruction, flags, results,
                 order, tally, guardVars>>

(* Otherwise it is put back in front, unless the guard throws. *)
Retry ==
  /\ control = "consumer" /\ pending_error # NoInstruction
  /\ pending_error.wait # 0
  /\ pending_error' = NoInstruction
  /\ note_no_progress
  /\ IF deadlock_reported'
       THEN /\ control' = "threw"
            /\ UNCHANGED <<future_instructions, advances>>
       ELSE /\ control' = "next"
            /\ future_instructions' =
                 <<[pending_error EXCEPT !.wait = WaitedOnce(@)]>> \o future_instructions
            /\ advances' = advances + 1
  /\ UNCHANGED <<stream_open, instruction, flags, results, order, failures,
                 allowed, emitted, refused>>

(***************************************************************************)
(* The loop of next() picks its next instruction: one that waits for its   *)
(* turn here, else one from the instruction stream.                        *)
(***************************************************************************)
Looping == control = "next" /\ instruction = NoInstruction

Pop ==
  /\ Looping /\ future_instructions # << >>
  /\ instruction' = Head(future_instructions)
  /\ future_instructions' = Tail(future_instructions)
  /\ UNCHANGED <<control, stream_open, pending_error, flags, results, order,
                 tally, guardVars>>

(* Faulty: the instruction stream comes first. *)
StreamFirst == TRUE

QueueFirst == future_instructions = << >>

ReadInstruction(ins) ==
  /\ Looping /\ QueueFirst
  /\ stream_open /\ Len(program) < MaxInstructions
  /\ instruction' = [kind |-> ins.kind, wait |-> ins.wait, stage |-> 0]
  /\ ls_instructions_count' = ls_instructions_count + 1
  /\ program' = Append(program, ins.patches)
  /\ allowed' = ins.wait
  /\ UNCHANGED <<control, stream_open, future_instructions, pending_error,
                 flags, slice_count, begun, ended, failures, emitted, refused,
                 advances, guardVars>>

EndOfStream ==
  /\ Looping /\ stream_open
  /\ stream_open' = FALSE
  /\ UNCHANGED <<control, future_instructions, instruction, pending_error,
                 flags, results, order, tally, guardVars>>

(***************************************************************************)
(* TimeoutSliceStream looks at the clock before it passes a slice on.      *)
(***************************************************************************)
Emit ==
  \/ control' = "consumer" /\ emitted' = emitted + 1
  \/ Timed /\ control' = "out of time" /\ UNCHANGED emitted

(* The lattice is abstracted to the answer it gives, as in WaveScheduler. *)
Answered(answer) ==
  /\ control = "next" /\ instruction # NoInstruction
  /\ answer \in Answers(instruction)

Begun == begun' = begun \cup {Len(program)}

(* Applied for good: the loop goes on with the same slice. *)
ApplyEnds ==
  /\ Answered("applied")
  /\ instruction' = NoInstruction
  /\ Begun /\ ended' = ended \cup {Len(program)}
  /\ note_progress /\ failures' = 0
  /\ UNCHANGED <<control, stream_open, future_instructions, pending_error,
                 flags, results, program, allowed, emitted, refused, advances>>

CountSlice == slice_count' = slice_count + 1

(* Applied, at least so far: what follows is queued, the slice handed over. *)
Continue(followup) ==
  /\ future_instructions' = Append(future_instructions, followup)
  /\ allowed' = followup.wait
  /\ instruction' = NoInstruction
  /\ Begun
  /\ note_progress /\ failures' = 0
  /\ CountSlice
  /\ needs_advance' = TRUE
  /\ Emit
  /\ UNCHANGED <<stream_open, pending_error, emitted_final,
                 ls_instructions_count, program, ended, refused, advances>>

ApplyContinues ==
  /\ Answered("followup")
  /\ Continue([kind |-> Followup(instruction.kind), wait |-> DEFAULT_MAX_WAIT,
               stage |-> 0])

(***************************************************************************)
(* The follow-up is the instruction itself.  Every time adds a slice, so   *)
(* LastStage bounds how often.                                             *)
(***************************************************************************)
ApplyReschedules ==
  /\ Answered("rescheduled")
  /\ instruction.stage < LastStage
  /\ Continue([instruction EXCEPT !.stage = @ + 1])

ApplyFails ==
  /\ Answered("error")
  /\ instruction' = NoInstruction
  /\ pending_error' = instruction
  /\ failures' = failures + 1
  /\ Emit
  /\ refused' = refused + 1
  /\ UNCHANGED <<stream_open, future_instructions, flags, results, order,
                 allowed, advances, guardVars>>

(* Faulty: the loop ends with the stream, whatever waits in the queue. *)
StreamIsOver == Looping /\ ~stream_open

Exhausted == Looping /\ ~stream_open /\ future_instructions = << >>

EmitFinal ==
  /\ Exhausted /\ ~emitted_final
  /\ emitted_final' = TRUE
  /\ Emit
  /\ UNCHANGED <<queues, needs_advance, results, order, failures, allowed,
                 refused, advances, guardVars>>

ReturnNull ==
  /\ Exhausted /\ emitted_final
  /\ control' = "exhausted"
  /\ UNCHANGED <<queues, flags, results, order, tally, guardVars>>

-----------------------------------------------------------------------------
Next ==
  \/ Resume \/ GiveUp \/ Retry
  \/ Pop \/ (\E ins \in Instructions : ReadInstruction(ins)) \/ EndOfStream
  \/ ApplyEnds \/ ApplyContinues \/ ApplyReschedules \/ ApplyFails
  \/ EmitFinal \/ ReturnNull

Spec == Init /\ [][Next]_vars

(***************************************************************************)
(* One thread runs the consumer's loop, which pulls slices until there are *)
(* none, so nothing that can run is put off for ever.                      *)
(***************************************************************************)
FairSpec == Spec /\ WF_vars(Next)

-----------------------------------------------------------------------------
(***************************************************************************)
(* Properties.                                                             *)
(***************************************************************************)
InstructionType == [kind: Kinds, wait: Nat, stage: 0 .. LastStage]

(* The type invariant. *)
TypeOK ==
  /\ control \in {"consumer", "next", "exhausted", "threw", "out of time"}
  /\ stream_open \in BOOLEAN
  /\ future_instructions \in Seq(InstructionType)
  /\ instruction \in InstructionType \cup {NoInstruction}
  /\ pending_error \in InstructionType \cup {NoInstruction}
  /\ needs_advance \in BOOLEAN /\ emitted_final \in BOOLEAN
  /\ slice_count \in Nat /\ ls_instructions_count \in Nat
  /\ program \in Seq(SUBSET Patches)
  /\ begun \subseteq DOMAIN program /\ ended \subseteq begun
  /\ failures \in Nat /\ allowed \in Nat
  /\ emitted \in Nat /\ refused \in Nat /\ advances \in Nat
  /\ slices_without_progress \in 0 .. max_no_progress_slices + 1 /\ deadlock_reported \in BOOLEAN

(***************************************************************************)
(* The pipeline runs one instruction at a time, in program order: before   *)
(* it reads an instruction, every earlier one is done with all of its      *)
(* follow-ups, retries and reschedulings.                                  *)
(***************************************************************************)
InProgramOrder == \A i \in DOMAIN program : i < Len(program) => i \in ended

(***************************************************************************)
(* A stream that is exhausted has run the whole program and left nothing   *)
(* in its queue or in its deferred error.                                  *)
(***************************************************************************)
ExhaustedIsComplete ==
  control = "exhausted" => /\ ended = DOMAIN program
                           /\ future_instructions = << >>
                           /\ pending_error = NoInstruction

(***************************************************************************)
(* "Consecutive no-progress slices equal its failed retries" (the comment  *)
(* on NoProgressGuard): while the pipeline runs the guard's count is the   *)
(* number of times the instruction in hand has failed in a row, the        *)
(* failure that next() has yet to deal with excepted.                      *)
(***************************************************************************)
RetriesAreSlices ==
  control \in {"consumer", "next"} =>
    failures = slices_without_progress
                 + (IF pending_error = NoInstruction THEN 0 ELSE 1)

(***************************************************************************)
(* An instruction gets exactly the attempts it is entitled to: the run is  *)
(* given up at the failure that follows the last allowed retry, whether    *)
(* that is the instruction's own limit or the guard's, and not before.     *)
(***************************************************************************)
Retries ==
  IF allowed = DEFAULT_MAX_WAIT \/ allowed > max_no_progress_slices
    THEN max_no_progress_slices ELSE allowed

RetryBudget ==
  /\ failures <= Retries + 1
  /\ control = "next" => failures <= Retries
  /\ control = "threw" => failures = Retries + 1

(***************************************************************************)
(* The lattice is advanced exactly once between two slices that the        *)
(* consumer gets, whatever ended the first of them, and not after the last.*)
(***************************************************************************)
OneAdvancePerSlice ==
  /\ control = "next" /\ ~emitted_final => advances = emitted
  /\ control = "consumer" /\ emitted > 0 => advances = emitted - 1
  /\ control = "exhausted" => advances = emitted - 1

(***************************************************************************)
(* What slice_count() is in the end: the slices handed over, without those *)
(* that were handed over because an instruction could not be applied.      *)
(***************************************************************************)
SlicesAccountedFor == control = "exhausted" => emitted = slice_count + refused

(***************************************************************************)
(* slice_count() is "final once the stream is exhausted"                   *)
(* (dense_patch_computation.hpp): it is then the number of slices.         *)
(***************************************************************************)
SliceCountIsFinal == control = "exhausted" => slice_count = emitted

(***************************************************************************)
(* The pipeline ends - the stream is exhausted or the run is given up with *)
(* an exception - unless an instruction reschedules itself for ever, which *)
(* nothing in the pipeline stops.                                          *)
(***************************************************************************)
Terminates ==
  <>(control \in {"exhausted", "threw", "out of time"}) \/ []<><<ApplyReschedules>>_vars

(***************************************************************************)
(* The pipeline runs the program in the order PatchOrder allows.           *)
(***************************************************************************)
Order == INSTANCE PatchOrder
RunsInPatchOrder == Order!Spec

=============================================================================
