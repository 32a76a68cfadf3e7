----------------------------- MODULE WaveSlices -----------------------------
(***************************************************************************)
(* The wave / EDPC pipeline as its consumer sees it: WaveSliceStream,      *)
(* which owns a WaveScheduler and a NoProgressGuard, optionally inside a   *)
(* TimeoutSliceStream.  Each call of next() advances the slice of the      *)
(* previous call, schedules one wave and returns the slice.                *)
(***************************************************************************)
EXTENDS WaveScheduler, NoProgressGuard

CONSTANT Timed          \* a wall-clock budget was given

ASSUME TimedAssumption == Timed \in BOOLEAN

VARIABLES
  control,              \* who runs: the constructor, next() or the consumer
  needs_advance,        \* needs_advance_
  work_before           \* history: the work done when the wave started

streamVars == <<control, needs_advance, work_before>>
allVars == <<vars, guardVars, streamVars>>

(***************************************************************************)
(* What the waves have achieved so far.                                    *)
(***************************************************************************)
Work == [begun |-> begun, ended |-> ended,
         stages |-> [i \in Ids |-> records[i].stage]]

StreamInit ==
  /\ Init /\ GuardInit
  /\ control = "constructor"
  /\ needs_advance = FALSE
  /\ work_before = Work

Construct ==
  /\ control = "constructor"
  /\ Load
  /\ control' = IF loading' THEN "constructor" ELSE "consumer"
  /\ UNCHANGED <<guardVars, needs_advance, work_before>>

(***************************************************************************)
(* The consumer asks for the next slice.                                   *)
(***************************************************************************)
Call ==
  /\ control = "consumer"
  /\ needs_advance' = FALSE
  /\ IF Done
       THEN /\ control' = "exhausted"
            /\ UNCHANGED <<vars, work_before>>
       ELSE /\ control' = "next"
            /\ StartWave
            /\ work_before' = Work
  /\ UNCHANGED guardVars

Schedule ==
  /\ control = "next"
  /\ ScheduleStep
  /\ control' = IF status' = "running" THEN "next" ELSE "threw"
  /\ UNCHANGED <<guardVars, needs_advance, work_before>>

(***************************************************************************)
(* The wave is over: next() reports to the guard and returns the slice,    *)
(* unless the guard throws or the timeout decorator finds time has run out.*)
(***************************************************************************)
Return ==
  /\ control = "next"
  /\ EndWave
  /\ IF applied THEN note_progress ELSE note_no_progress
  /\ IF deadlock_reported'
       THEN /\ control' = "threw"
            /\ UNCHANGED needs_advance
       ELSE /\ needs_advance' = TRUE
            /\ \/ control' = "consumer"
               \/ Timed /\ control' = "out of time"
  /\ UNCHANGED work_before

StreamNext == Construct \/ Call \/ Schedule \/ Return

(***************************************************************************)
(* One thread runs the consumer's loop, which pulls slices until there are *)
(* none, so nothing that can run is put off for ever.                      *)
(***************************************************************************)
StreamSpec == StreamInit /\ [][StreamNext]_allVars /\ WF_allVars(StreamNext)

-----------------------------------------------------------------------------
Finished == control \in {"exhausted", "threw", "out of time"}

(***************************************************************************)
(* The pipeline ends - the stream is exhausted or the run is given up with *)
(* an exception - unless a long range operation reschedules itself for     *)
(* ever, which nothing in the pipeline stops.                              *)
(***************************************************************************)
Terminates == <>Finished \/ []<><<ApplyReschedules>>_allVars

(***************************************************************************)
(* What the guard is told: a wave reported as one without progress left    *)
(* everything as it was when it started - no instruction began, ended or   *)
(* came a step further - and a wave reported as progress has changed some- *)
(* thing of that, or a long range operation has rescheduled itself in it.  *)
(***************************************************************************)
HasRescheduled(wave) ==
  \E k \in DOMAIN wave.proximate : records[wave.proximate[k]].kind \in {"CNOT", "Pair"}

GuardIsTold ==
  [][Return =>
       IF slices_without_progress' = 0
         THEN Work # work_before \/ HasRescheduled(current_wave')
         ELSE Work = work_before]_allVars
=============================================================================
