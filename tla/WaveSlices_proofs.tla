-------------------------- MODULE WaveSlices_proofs --------------------------
(***************************************************************************)
(* Proofs about WaveSlices: the stream of slices drives the scheduler only *)
(* the way WaveScheduler says, so that what is proved of the scheduler     *)
(* holds of the pipeline, and the guard against deadlocks is told the      *)
(* truth about every wave.                                                 *)
(***************************************************************************)
EXTENDS WaveOrder_proofs, WaveSlices

(***************************************************************************)
(* Every step of the stream is a step of the scheduler or leaves it alone. *)
(***************************************************************************)
THEOREM StreamDrivesScheduler == StreamSpec => Spec
<1>1. StreamInit => Init
  BY DEF StreamInit
<1>2. [StreamNext]_allVars => [Next]_vars
  <2> SUFFICES ASSUME [StreamNext]_allVars
               PROVE  [Next]_vars
    OBVIOUS
  <2>1. CASE Construct
    BY <2>1 DEF Construct, Next
  <2>2. CASE Call
    BY <2>2 DEF Call, Next
  <2>3. CASE Schedule
    BY <2>3 DEF Schedule, Next
  <2>4. CASE Return
    BY <2>4 DEF Return, Next
  <2>5. CASE UNCHANGED allVars
    BY <2>5 DEF allVars
  <2> QED
    BY <2>1, <2>2, <2>3, <2>4, <2>5 DEF StreamNext
<1> QED
  BY <1>1, <1>2, PTL DEF StreamSpec, Spec

(***************************************************************************)
(* In the whole pipeline no instruction is lost and none is scheduled      *)
(* twice.                                                                  *)
(***************************************************************************)
THEOREM StreamKeepsCustody ==
  ASSUME GrowthMoves
  PROVE  StreamSpec => []Custody
BY StreamDrivesScheduler, CustodyIsKept, PTL

(***************************************************************************)
(* The pipeline runs every program in patch order.                         *)
(***************************************************************************)
THEOREM StreamImplementsPatchOrder ==
  ASSUME GrowthMoves
  PROVE  StreamSpec => RunsInPatchOrder
BY StreamDrivesScheduler, WavesImplementPatchOrder, PTL

-----------------------------------------------------------------------------
(***************************************************************************)
(* How far the lattice is, compared with some earlier work: nothing is     *)
(* undone, and something has been added.                                   *)
(***************************************************************************)
Reached(w) ==
  /\ w.ended \subseteq ended
  /\ DOMAIN w.stages \subseteq Ids
  /\ \A i \in DOMAIN w.stages : w.stages[i] \in Nat /\ w.stages[i] <= records[i].stage

Further(w) ==
  \/ w.ended # ended
  \/ DOMAIN w.stages # Ids
  \/ \E i \in DOMAIN w.stages : w.stages[i] < records[i].stage

(***************************************************************************)
(* No CNOT is between being routed and being rescheduled.                  *)
(***************************************************************************)
Quiet ==
  /\ current_wave.deferred = << >> /\ current_wave.decomposed = << >>
  /\ attempt = Nobody \/ round \in {"proximate", "heads"}

(***************************************************************************)
(* What `applied' says about the wave that is under way.  As long as it is *)
(* FALSE nothing was released, so that all attempts come from the lists,   *)
(* and the wave has changed nothing but CNOTs that are still in its lists. *)
(***************************************************************************)
ProgressInv ==
  /\ slices_without_progress \in Nat
  /\ control = "next" =>
       /\ Reached(work_before)
       /\ applied => Further(work_before) \/ HasRescheduled(next_wave)
       /\ ~ applied => callers = << >> /\ (attempt # Nobody => attempt.origin = "list")
       /\ ~ applied /\ Quiet => Work = work_before

-----------------------------------------------------------------------------
\* The fields of the work done so far.
LEMMA WorkFields ==
  /\ Work.ended = ended
  /\ DOMAIN Work.stages = Ids
  /\ \A i \in Ids : Work.stages[i] = records[i].stage
BY DEF Work

\* Having got further is a difference.
LEMMA FurtherDiffers ==
  ASSUME NEW w, Reached(w), Further(w), \A i \in Ids : records[i].stage \in Nat
  PROVE  Work # w
<1> SUFFICES ASSUME Work = w
             PROVE  FALSE
  OBVIOUS
<1>1. w.ended = ended /\ DOMAIN w.stages = Ids /\ \A i \in Ids : w.stages[i] = records[i].stage
  BY WorkFields
<1> QED
  BY <1>1 DEF Further

\* What a step does to the stages of the records.
Grows ==
  /\ ended \subseteq ended' /\ Ids \subseteq Ids'
  /\ \A i \in Ids : /\ records[i].stage \in Nat /\ records'[i].stage \in Nat
                    /\ records[i].stage <= records'[i].stage

GrowsStrictly ==
  ended # ended' \/ Ids # Ids' \/ \E i \in Ids : records[i].stage < records'[i].stage

\* Stages are numbers.
LEMMA StagesAreNumbers ==
  ASSUME TypeOK
  PROVE  \A i \in Ids : records[i].stage \in Nat
<1>1. \A i \in Ids : records[i] \in RecordType
  <2>1. records \in Seq(RecordType)
    BY DEF TypeOK
  <2> QED
    BY <2>1 DEF Ids
<1> QED
  BY <1>1, StagesAreTyped DEF RecordType

\* The stage of the attempt goes up, or stays.
LEMMA StageRises ==
  ASSUME TypeOK, NEW stage, attempt # Nobody, stage \in Nat, Attempted.stage <= stage,
         records' = [records EXCEPT ![attempt.id].stage = stage], UNCHANGED ended
  PROVE  Grows /\ (Attempted.stage < stage => GrowsStrictly)
<1>1. attempt.id \in Ids /\ \A i \in Ids : records[i].stage \in Nat
  BY AttemptedIsTyped, StagesAreNumbers
<1>2. /\ records'[attempt.id].stage = stage
      /\ \A j \in Ids \ {attempt.id} : records'[j] = records[j]
  BY <1>1, StageWritten
<1>3. Ids' = Ids
  BY <1>1, RecordOverwritten DEF KeepsRecords
<1>4. Grows
  BY <1>1, <1>2, <1>3 DEF Grows, Attempted
<1>5. Attempted.stage < stage => GrowsStrictly
  BY <1>1, <1>2 DEF GrowsStrictly, Attempted
<1> QED
  BY <1>4, <1>5

\* An instruction that ends had not ended before.
LEMMA EndsGrows ==
  ASSUME SchedulerInv, ApplyEnds
  PROVE  Grows /\ GrowsStrictly
<1>1. /\ attempt # Nobody /\ ended' = ended \cup {Attempted.root} /\ UNCHANGED records
  BY DEF ApplyEnds, Answered
<1>2. Attempted.root \notin ended
  BY <1>1, AttemptIsReady
<1>3. Ids' = Ids /\ \A i \in Ids : records[i].stage \in Nat
  BY <1>1, SchedulerFacts, StagesAreNumbers DEF Ids
<1> QED
  BY <1>1, <1>2, <1>3 DEF Grows, GrowsStrictly

\* A follow-up is a record more.
LEMMA ContinuesGrows ==
  ASSUME SchedulerInv, ApplyContinues
  PROVE  Grows /\ GrowsStrictly
<1>1. UNCHANGED ended
  BY DEF ApplyContinues
<1>2. /\ FollowupId \notin Ids /\ Ids' = Ids \cup {FollowupId}
      /\ \A i \in Ids : records'[i] = records[i]
  BY SchedulerFacts, FollowupIsAdded
<1>3. \A i \in Ids : records[i].stage \in Nat
  BY SchedulerFacts, StagesAreNumbers
<1> QED
  BY <1>1, <1>2, <1>3 DEF Grows, GrowsStrictly

\* An instruction that reschedules itself goes back by no stage, and into the next wave.
LEMMA ReschedulesGrows ==
  ASSUME SchedulerInv, ApplyReschedules
  PROVE  Grows /\ HasRescheduled(next_wave)'
<1>1. /\ attempt # Nobody /\ UNCHANGED ended /\ "rescheduled" \in Answers(Attempted)
      /\ next_wave' = [next_wave EXCEPT !.proximate = Append(@, attempt.id)]
  BY DEF ApplyReschedules, Answered
<1>2. attempt.id \in Ids /\ Attempted.stage \in Nat /\ Attempted \in RecordType /\ TypeOK
  BY <1>1, SchedulerFacts, AttemptedIsTyped, StagesAreNumbers DEF Attempted
<1>3. PICK stage \in StagesAfter(Attempted) :
        records' = [records EXCEPT ![attempt.id].stage = stage]
  BY DEF ApplyReschedules
<1>4. stage \in Nat /\ Attempted.stage <= stage
  BY <1>2, <1>3 DEF StagesAfter
<1>5. records'[attempt.id].kind \in {"CNOT", "Pair"}
  <2>1. Attempted.kind \in {"CNOT", "Pair"}
    BY <1>1, <1>2 DEF Answers, RecordType, Kinds, ProgramKinds, BusyKinds
  <2> QED
    BY <1>2, <1>3, <2>1, StageWritten
<1>6. HasRescheduled(next_wave)'
  <2> DEFINE s == next_wave.proximate
  <2>1. next_wave \in WavesOver(Ids) /\ s \in Seq(Ids)
    BY <1>2, ListsAreIds DEF WavesOver
  <2>2. next_wave'.proximate = Append(s, attempt.id)
    BY <1>1, <2>1 DEF WavesOver
  <2>3. /\ Len(s) + 1 \in DOMAIN Append(s, attempt.id)
        /\ Append(s, attempt.id)[Len(s) + 1] = attempt.id
    BY <1>2, <2>1, AppendElements
  <2> QED
    BY <1>5, <2>2, <2>3 DEF HasRescheduled
<1> QED
  BY <1>1, <1>2, <1>3, <1>4, <1>6, StageRises

\* A CNOT is routed.
LEMMA DefersGrows ==
  ASSUME SchedulerInv, ApplyDefers
  PROVE  Grows /\ GrowsStrictly
<1>1. /\ attempt # Nobody /\ UNCHANGED ended /\ "deferred" \in Answers(Attempted)
      /\ records' = [records EXCEPT ![attempt.id].stage = 1]
  BY DEF ApplyDefers, Answered
<1>2. EDPC /\ Attempted.kind = "CNOT" /\ TypeOK
  BY <1>1, SchedulerFacts, DeferringIsBell
<1>3. "deferred" \in CNOTAnswers(Attempted.stage) /\ Attempted.stage \in Nat
  BY <1>1, <1>2, AttemptedIsTyped, StagesAreNumbers DEF Answers, Attempted
<1>4. Attempted.stage = 0
  BY <1>2, <1>3 DEF CNOTAnswers
<1>5. 1 \in Nat /\ Attempted.stage < 1 /\ Attempted.stage <= 1
  BY <1>4
<1> QED
  BY <1>1, <1>2, <1>5, StageRises

\* A CNOT is decomposed.
LEMMA DecomposesGrows ==
  ASSUME SchedulerInv, ApplyDecomposes
  PROVE  Grows /\ GrowsStrictly
<1>1. /\ attempt # Nobody /\ UNCHANGED ended /\ round = "decompose"
      /\ records' = [records EXCEPT ![attempt.id].stage = 2]
  BY DEF ApplyDecomposes, Answered, history
<1>2. Attempted.stage = 1 /\ TypeOK
  BY <1>1, SchedulerFacts DEF DeferredInv
<1>3. 2 \in Nat /\ Attempted.stage < 2 /\ Attempted.stage <= 2
  BY <1>2
<1> QED
  BY <1>1, <1>2, <1>3, StageRises

\* The other steps change no stage.
LEMMA StagesAreKept ==
  ASSUME SchedulerInv, NextRound \/ Take \/ ApplyFails \/ ApplyFailsEarly \/ Release
  PROVE  Grows /\ Work' = Work /\ UNCHANGED applied
<1>1. UNCHANGED <<begun, ended, applied>>
  BY DEF NextRound, Take, ApplyFails, ApplyFailsEarly, Release, history
<1>2. Ids' = Ids /\ \A i \in Ids : records'[i].stage = records[i].stage
  <2>1. CASE UNCHANGED records
    BY <2>1 DEF Ids
  <2>2. CASE /\ attempt # Nobody
             /\ records' = [records EXCEPT ![attempt.id].wait = WaitedOnce(@)]
    <3>1. attempt.id \in Ids /\ TypeOK
      BY <2>2, SchedulerFacts, AttemptedIsTyped
    <3>2. Ids' = Ids /\ \A j \in Ids \ {attempt.id} : records'[j] = records[j]
      <4>1. records \in Seq(RecordType)
        BY <3>1 DEF TypeOK
      <4> QED
        BY <2>2, <4>1 DEF Ids
    <3>3. records[attempt.id] \in RecordType
      BY <2>2, <3>1, AttemptedIsTyped DEF Attempted
    <3>4. records'[attempt.id] = [records[attempt.id] EXCEPT !.wait = WaitedOnce(@)]
      BY <2>2, <3>1 DEF Ids
    <3>5. records'[attempt.id].stage = records[attempt.id].stage
      BY <3>3, <3>4 DEF RecordType
    <3> QED
      BY <3>2, <3>5
  <2> QED
    BY <2>1, <2>2 DEF NextRound, Take, ApplyFails, ApplyFailsEarly, Release, Answered
<1>3. Work' = Work
  <2>1. [i \in Ids |-> records[i].stage]' = [i \in Ids |-> records[i].stage]
    BY <1>2
  <2> QED
    BY <1>1, <2>1 DEF Work
<1>4. Grows
  BY <1>1, <1>2, SchedulerFacts, StagesAreNumbers DEF Grows
<1> QED
  BY <1>1, <1>3, <1>4

\* Growth keeps what was reached, and what was more than that.
LEMMA ReachedGrows ==
  ASSUME NEW w, Reached(w), Grows
  PROVE  /\ Reached(w)'
         /\ Further(w) => Further(w)'
         /\ GrowsStrictly => Further(w)'
<1>1. /\ w.ended \subseteq ended /\ ended \subseteq ended'
      /\ DOMAIN w.stages \subseteq Ids /\ Ids \subseteq Ids'
      /\ \A i \in DOMAIN w.stages : /\ w.stages[i] \in Nat /\ records[i].stage \in Nat
                                    /\ records'[i].stage \in Nat
                                    /\ w.stages[i] <= records[i].stage
                                    /\ records[i].stage <= records'[i].stage
  BY DEF Reached, Grows
<1>2. (w.ended \subseteq ended' /\ DOMAIN w.stages \subseteq Ids'
       /\ \A i \in DOMAIN w.stages : w.stages[i] \in Nat /\ w.stages[i] <= records'[i].stage)
  BY <1>1
<1>3. ASSUME Further(w) \/ GrowsStrictly
      PROVE  \/ w.ended # ended' \/ DOMAIN w.stages # Ids'
             \/ \E i \in DOMAIN w.stages : w.stages[i] < records'[i].stage
  <2> SUFFICES ASSUME w.ended = ended', DOMAIN w.stages = Ids'
               PROVE  \E i \in DOMAIN w.stages : w.stages[i] < records'[i].stage
    OBVIOUS
  <2>1. w.ended = ended /\ ended = ended' /\ DOMAIN w.stages = Ids /\ Ids = Ids'
    BY <1>1
  <2>2. CASE \E i \in DOMAIN w.stages : w.stages[i] < records[i].stage
    BY <1>1, <2>2
  <2>3. CASE \E i \in Ids : records[i].stage < records'[i].stage
    <3>1. PICK i \in DOMAIN w.stages : records[i].stage < records'[i].stage
      BY <2>1, <2>3
    <3>2. w.stages[i] < records'[i].stage
      BY <1>1, <3>1
    <3> QED
      BY <3>2
  <2> QED
    BY <1>3, <2>1, <2>2, <2>3 DEF Further, GrowsStrictly
<1> QED
  BY <1>2, <1>3 DEF Reached, Further

-----------------------------------------------------------------------------
\* Between two waves nothing is reached yet: the wave starts from the work done so far.
LEMMA ProgressStarts ==
  ASSUME SchedulerInv, ProgressInv, Call
  PROVE  ProgressInv'
<1>1. UNCHANGED slices_without_progress
  BY DEF Call, guardVars
<1>2. CASE control' = "next"
  <2>1. StartWave /\ work_before' = Work
    BY <1>2 DEF Call
  <2>2. /\ UNCHANGED <<records, ended, begun, attempt, callers>> /\ ~ applied' /\ round = "idle"
    BY <2>1 DEF StartWave
  <2>3. attempt = Nobody /\ callers = << >>
    BY <2>2, SchedulerFacts DEF RoundsInv
  <2>4. Ids' = Ids /\ Work' = Work /\ \A i \in Ids : records[i].stage \in Nat
    BY <2>2, SchedulerFacts, StagesAreNumbers DEF Ids, Work
  <2>5. Reached(work_before)'
    BY <2>1, <2>2, <2>4, WorkFields DEF Reached
  <2> QED
    BY <1>1, <2>1, <2>2, <2>3, <2>4, <2>5 DEF ProgressInv, Nobody
<1>3. CASE control' # "next"
  BY <1>1, <1>3 DEF ProgressInv
<1> QED
  BY <1>2, <1>3

\* A list of rescheduled instructions only grows, and so do the records.
LEMMA ReschedulingIsKept ==
  ASSUME SchedulerInv, ScheduleStep, HasRescheduled(next_wave)
  PROVE  HasRescheduled(next_wave)'
<1> DEFINE s == next_wave.proximate
<1>1. TypeOK /\ next_wave \in WavesOver(Ids) /\ s \in Seq(Ids)
  BY SchedulerFacts, ListsAreIds DEF WavesOver
<1>2. Ids \subseteq Ids' /\ \A i \in Ids : records'[i].kind = records[i].kind
  <2>1. CASE ApplyContinues
    BY <1>1, <2>1, FollowupIsAdded
  <2>2. CASE ~ ApplyContinues
    <3>1. Keeping
      BY <2>2 DEF ScheduleStep, Apply, Keeping
    <3> QED
      BY <1>1, <3>1, RecordsAreKept DEF KeepsRecords
  <2> QED
    BY <2>1, <2>2
<1>3. next_wave'.proximate = s \/ \E i : next_wave'.proximate = Append(s, i)
  <2>1. CASE NextRound \/ Take \/ ApplyEnds \/ ApplyDefers \/ ApplyDecomposes
    BY <2>1 DEF NextRound, Take, ApplyEnds, ApplyDefers, ApplyDecomposes
  <2>2. CASE ApplyContinues \/ ApplyReschedules
    BY <1>1, <2>2 DEF ApplyContinues, ApplyReschedules, WavesOver
  <2>3. CASE ApplyFails \/ ApplyFailsEarly
    BY <1>1, <2>3 DEF ApplyFails, ApplyFailsEarly, WavesOver
  <2>4. CASE Release
    BY <1>1, <2>4 DEF Release, WavesOver
  <2> QED
    BY <2>1, <2>2, <2>3, <2>4 DEF ScheduleStep, Apply
<1>4. PICK k \in DOMAIN s : s[k] \in Ids /\ records[s[k]].kind \in {"CNOT", "Pair"}
  BY <1>1 DEF HasRescheduled
<1>5. k \in DOMAIN next_wave'.proximate /\ next_wave'.proximate[k] = s[k]
  <2>1. ASSUME NEW i
        PROVE  k \in DOMAIN Append(s, i) /\ Append(s, i)[k] = s[k]
    BY <1>1, <1>4
  <2> QED
    BY <1>3, <1>4, <2>1
<1> QED
  BY <1>2, <1>4, <1>5 DEF HasRescheduled

\* Until something is applied, what the steps change is still in the lists.
LEMMA QuietKept ==
  ASSUME SchedulerInv, ScheduleStep, ~ applied', ~ applied, callers = << >>,
         attempt # Nobody => attempt.origin = "list",
         Quiet => Work = work_before, UNCHANGED work_before
  PROVE  /\ callers' = << >> /\ (attempt' # Nobody => attempt'.origin = "list")
         /\ Quiet' => Work' = work_before'
<1>1. current_wave \in WavesOver(Ids) /\ current_wave.deferred \in Seq(Ids)
      /\ current_wave.decomposed \in Seq(Ids) /\ round \in Rounds
  BY SchedulerFacts, ListsAreIds DEF TypeOK
<1>2. CASE NextRound
  <2>1. /\ UNCHANGED <<current_wave, attempt, callers>> /\ attempt = Nobody
    BY <1>2 DEF NextRound, RoundOver
  <2>2. Work' = Work
    BY <1>2, StagesAreKept
  <2> QED
    BY <2>1, <2>2 DEF Quiet, Nobody
<1>3. CASE Take
  <2>1. UNCHANGED <<callers, round>> /\ attempt' = [id |-> Head(ListOf[round]), origin |-> "list"]
        /\ attempt = Nobody
    BY <1>3 DEF Take
  <2>2. Work' = Work
    BY <1>3, StagesAreKept
  <2>3. round \in {"proximate", "heads"} => /\ current_wave'.deferred = current_wave.deferred
                                            /\ current_wave'.decomposed = current_wave.decomposed
    BY <1>1, <1>3 DEF Take, WavesOver
  <2>4. attempt' # Nobody /\ attempt'.origin = "list"
    BY <2>1 DEF Nobody
  <2>5. Quiet' => Quiet
    BY <2>1, <2>3, <2>4 DEF Quiet, Nobody
  <2> QED
    BY <2>1, <2>2, <2>4, <2>5
<1>4. CASE ApplyEnds \/ ApplyContinues \/ ApplyReschedules
  BY <1>4 DEF ApplyEnds, ApplyContinues, ApplyReschedules, Answered, Counted, CountsAsApplied
<1>5. CASE ApplyDefers \/ ApplyDecomposes
  <2>1. /\ callers' = callers /\ attempt' = Nobody
        /\ \/ current_wave' = [current_wave EXCEPT !.deferred = Append(@, attempt.id)]
           \/ current_wave' = [current_wave EXCEPT !.decomposed = Append(@, attempt.id)]
    BY <1>5 DEF ApplyDefers, ApplyDecomposes
  <2>2. attempt.id \in Ids
    BY <1>5, SchedulerFacts, AttemptedIsTyped DEF ApplyDefers, ApplyDecomposes, Answered
  <2>3. /\ Append(current_wave.deferred, attempt.id) # << >>
        /\ Append(current_wave.decomposed, attempt.id) # << >>
    <3>1. ASSUME NEW s \in Seq(Ids), NEW i \in Ids
          PROVE  Append(s, i) # << >>
      <4>1. DOMAIN Append(s, i) = 1 .. (Len(s) + 1) /\ Len(s) \in Nat
        BY AppendElements
      <4> QED
        BY <4>1
    <3> QED
      BY <1>1, <2>2, <3>1
  <2>4. ~ Quiet'
    BY <1>1, <2>1, <2>3 DEF Quiet, WavesOver
  <2> QED
    BY <2>1, <2>4
<1>6. CASE ApplyFails
  <2>1. /\ UNCHANGED <<current_wave, callers, round>> /\ round \in {"proximate", "heads"}
        /\ attempt' \in {attempt, Nobody}
    BY <1>6 DEF ApplyFails
  <2>2. Work' = Work
    BY <1>6, StagesAreKept
  <2> QED
    BY <2>1, <2>2 DEF Quiet, Nobody
<1>7. CASE ApplyFailsEarly
  BY <1>7 DEF ApplyFailsEarly, Answered
<1>8. CASE Release
  BY <1>8 DEF Release
<1> QED
  BY <1>2, <1>3, <1>4, <1>5, <1>6, <1>7, <1>8 DEF ScheduleStep, Apply

\* The steps of a wave.
LEMMA ProgressKept ==
  ASSUME SchedulerInv, ProgressInv, Schedule
  PROVE  ProgressInv'
<1>1. /\ control = "next" /\ ScheduleStep /\ UNCHANGED <<slices_without_progress, work_before>>
  BY DEF Schedule, guardVars
<1>2. /\ Reached(work_before) /\ (applied => Further(work_before) \/ HasRescheduled(next_wave))
      /\ (~ applied => callers = << >> /\ (attempt # Nobody => attempt.origin = "list"))
      /\ (~ applied /\ Quiet => Work = work_before)
  BY <1>1 DEF ProgressInv
<1>3. /\ Grows /\ (applied => applied')
      /\ applied' => applied \/ GrowsStrictly \/ HasRescheduled(next_wave)'
  <2>1. CASE ApplyEnds \/ ApplyContinues \/ ApplyReschedules
    BY <2>1, EndsGrows, ContinuesGrows, ReschedulesGrows
       DEF ApplyEnds, ApplyContinues, ApplyReschedules, Counted
  <2>2. CASE ApplyDefers \/ ApplyDecomposes
    BY <2>2, DefersGrows, DecomposesGrows DEF ApplyDefers, ApplyDecomposes
  <2>3. CASE NextRound \/ Take \/ ApplyFails \/ ApplyFailsEarly \/ Release
    BY <2>3, StagesAreKept
  <2> QED
    BY <1>1, <2>1, <2>2, <2>3 DEF ScheduleStep, Apply
<1>4. /\ Reached(work_before)'
      /\ applied' => Further(work_before)' \/ HasRescheduled(next_wave)'
  <2> DEFINE w == work_before
  <2>1. /\ Reached(w) /\ w' = w
        /\ applied => Further(w) \/ HasRescheduled(next_wave)'
    BY <1>1, <1>2, ReschedulingIsKept
  <2>2. PICK v : v = w
    OBVIOUS
  <2>3. Reached(v)' /\ (Further(v) => Further(v)') /\ (GrowsStrictly => Further(v)')
    BY <1>3, <2>1, <2>2, ReachedGrows
  <2> QED
    BY <1>3, <2>1, <2>2, <2>3
<1>5. ~ applied' => /\ callers' = << >> /\ (attempt' # Nobody => attempt'.origin = "list")
                    /\ (Quiet' => Work' = work_before')
  BY <1>1, <1>2, <1>3, QuietKept
<1> QED
  BY <1>1, <1>4, <1>5 DEF ProgressInv, Nobody

\* The wave that ends is reported as it was.
LEMMA ReportIsTrue ==
  ASSUME SchedulerInv, ProgressInv, Return
  PROVE  /\ IF slices_without_progress' = 0
              THEN Work # work_before \/ HasRescheduled(current_wave')
              ELSE Work = work_before
         /\ ProgressInv'
<1>1. /\ control = "next" /\ EndWave /\ control' # "next"
      /\ slices_without_progress' = IF applied THEN 0 ELSE slices_without_progress + 1
  BY DEF Return, note_progress, note_no_progress
<1>2. slices_without_progress \in Nat
  BY DEF ProgressInv
<1>3. attempt = Nobody /\ current_wave = EmptyWave
  BY <1>1, SchedulerFacts, RoundsSwap DEF EndWave, RoundOver
<1>4. Quiet
  BY <1>3 DEF Quiet, EmptyWave
<1>5. applied => Work # work_before \/ HasRescheduled(current_wave')
  <2>1. \A i \in Ids : records[i].stage \in Nat
    BY SchedulerFacts, StagesAreNumbers
  <2> DEFINE w == work_before
  <2>2. applied => Reached(w) /\ (Further(w) \/ HasRescheduled(next_wave))
    BY <1>1 DEF ProgressInv
  <2>3. current_wave' = next_wave
    BY <1>1 DEF EndWave, SwappedIn
  <2>4. HasRescheduled(next_wave) => HasRescheduled(current_wave')
    BY <2>3 DEF HasRescheduled
  <2> HIDE DEF w
  <2>5. applied => Work # w \/ HasRescheduled(current_wave')
    BY <2>1, <2>2, <2>4, FurtherDiffers
  <2> QED
    BY <2>5 DEF w
<1>6. ~ applied => Work = work_before
  BY <1>1, <1>4 DEF ProgressInv
<1>7. ProgressInv'
  BY <1>1, <1>2 DEF ProgressInv
<1> QED
  BY <1>1, <1>2, <1>5, <1>6, <1>7

\* The constructor and the empty pipeline.
LEMMA ProgressElsewhere ==
  /\ StreamInit => ProgressInv
  /\ ProgressInv /\ (Construct \/ UNCHANGED allVars) => ProgressInv'
<1>1. StreamInit => ProgressInv
  BY DEF StreamInit, GuardInit, ProgressInv
<1>2. ASSUME ProgressInv, Construct
      PROVE  ProgressInv'
  BY <1>2 DEF Construct, ProgressInv, guardVars
<1>3. ASSUME ProgressInv, UNCHANGED allVars
      PROVE  ProgressInv'
  <2>1. UNCHANGED <<records, begun, ended, attempt, callers, round, applied, current_wave,
                    next_wave, slices_without_progress, control, work_before>>
    BY <1>3 DEF allVars, vars, guardVars, streamVars, constructed, history
  <2>2. Ids' = Ids /\ Work' = Work /\ Quiet' = Quiet
    BY <2>1 DEF Ids, Work, Quiet, Nobody
  <2>3. /\ Reached(work_before)' = Reached(work_before)
        /\ Further(work_before)' = Further(work_before)
        /\ HasRescheduled(next_wave)' = HasRescheduled(next_wave)
    BY <2>1, <2>2 DEF Reached, Further, HasRescheduled
  <2> QED
    BY <1>3, <2>1, <2>2, <2>3 DEF ProgressInv, Nobody
<1> QED
  BY <1>1, <1>2, <1>3

(***************************************************************************)
(* Whenever a wave is reported to the guard as one without progress, no    *)
(* instruction began, ended or came a step further in it; when it is       *)
(* reported as progress, something of that has happened or a long range    *)
(* operation has rescheduled itself.                                       *)
(***************************************************************************)
THEOREM GuardIsToldTheTruth ==
  ASSUME GrowthMoves
  PROVE  StreamSpec => GuardIsTold
<1>1. StreamInit => ProgressInv
  BY ProgressElsewhere
<1>2. SchedulerInv /\ ProgressInv /\ [StreamNext]_allVars => ProgressInv'
  BY ProgressElsewhere, ProgressStarts, ProgressKept, ReportIsTrue DEF StreamNext
<1>3. SchedulerInv /\ ProgressInv /\ [StreamNext]_allVars
        => [Return => IF slices_without_progress' = 0
                        THEN Work # work_before \/ HasRescheduled(current_wave')
                        ELSE Work = work_before]_allVars
  BY ReportIsTrue
<1> QED
  BY <1>1, <1>2, <1>3, StreamDrivesScheduler, SchedulerCorrect, PTL DEF StreamSpec, GuardIsTold

=============================================================================
