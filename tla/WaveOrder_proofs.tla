-------------------------- MODULE WaveOrder_proofs --------------------------
(***************************************************************************)
(* More proofs about WaveScheduler: the rounds of a wave, the inductive    *)
(* invariant of the scheduler, and what follows from it: the counts are    *)
(* exact, no instruction is lost or scheduled twice, done() tells the      *)
(* truth, and the scheduler implements PatchOrder.                         *)
(*                                                                         *)
(* All of it is about a vector of records that moves its elements when it  *)
(* grows.  If it copies and frees them, a loop over dependents reads freed *)
(* memory, and a run shows that the counts then go wrong.                  *)
(***************************************************************************)
EXTENDS WaveScheduler_proofs, WellFoundedInduction

(***************************************************************************)
(* The rounds go through the lists of the current wave one after the other *)
(* and what a round has gone through stays empty.                          *)
(***************************************************************************)
RoundsInv ==
  /\ round \in {"heads", "decompose", "apply"} => current_wave.proximate = << >>
  /\ round \in {"decompose", "apply"} => current_wave.heads = << >>
  /\ round \in {"apply", "idle"} => current_wave.deferred = << >>
  /\ round = "idle" => /\ current_wave.decomposed = << >> /\ next_wave = EmptyWave
                       /\ attempt = Nobody /\ callers = << >>
  /\ ~EDPC => current_wave.deferred = << >> /\ current_wave.decomposed = << >>
  /\ next_wave.deferred = << >> /\ next_wave.decomposed = << >>

(***************************************************************************)
(* What is deferred is a CNOT that is routed but not decomposed, and what  *)
(* is kept for the last round one that is; those two rounds release nobody.*)
(***************************************************************************)
AtStage(list, stage) ==
  \A k \in DOMAIN list : records[list[k]].kind = "CNOT" /\ records[list[k]].stage = stage

DeferredInv ==
  /\ AtStage(current_wave.deferred, 1)
  /\ AtStage(current_wave.decomposed, 2)
  /\ round \in {"decompose", "apply"} =>
       /\ callers = << >>
       /\ attempt # Nobody => /\ attempt.origin = "list" /\ Attempted.kind = "CNOT"
                              /\ Attempted.stage = IF round = "decompose" THEN 1 ELSE 2

-----------------------------------------------------------------------------
\* In the rounds over the deferred instructions there is one answer only.
LEMMA AnswersToDeferred ==
  ASSUME Typed, DeferredInv, attempt # Nobody, NEW answer \in Answers(Attempted)
  PROVE  /\ round = "decompose" => answer = "error"
         /\ round = "apply" => answer = "rescheduled"
<1>1. ASSUME round \in {"decompose", "apply"}
      PROVE  /\ EDPC /\ Attempted.kind = "CNOT"
             /\ Attempted.stage = IF round = "decompose" THEN 1 ELSE 2
  BY <1>1 DEF DeferredInv, Typed, RoundsOfMode
<1>2. round = "decompose" => answer \in CNOTAnswers(1)
  BY <1>1 DEF Answers
<1>3. round = "apply" => answer \in CNOTAnswers(2)
  BY <1>1 DEF Answers
<1> QED
  BY <1>1, <1>2, <1>3 DEF CNOTAnswers

\* Only EDPC defers, and only a CNOT without a route.
LEMMA DeferringIsBell ==
  ASSUME TypeOK, attempt # Nobody, "deferred" \in Answers(Attempted)
  PROVE  EDPC /\ Attempted.kind = "CNOT"
<1>1. Attempted \in RecordType
  BY AttemptedIsTyped
<1>2. Attempted.kind = "CNOT"
  BY <1>1 DEF Answers, RecordType, Kinds, ProgramKinds, BusyKinds
<1>3. "deferred" \in CNOTAnswers(Attempted.stage)
  BY <1>2 DEF Answers
<1>4. Attempted.stage \in Nat
  BY <1>1, StagesAreTyped DEF RecordType
<1> QED
  BY <1>2, <1>3, <1>4, BoundsAssumption DEF CNOTAnswers

\* The lists of the current wave do not hold what is being attempted.
LEMMA AttemptIsElsewhere ==
  ASSUME TypeOK, CustodyInv, attempt # Nobody
  PROVE  /\ \A k \in DOMAIN current_wave.deferred : current_wave.deferred[k] # attempt.id
         /\ \A k \in DOMAIN current_wave.decomposed : current_wave.decomposed[k] # attempt.id
<1>1. Places \in [PlaceNames -> Seq(Ids)] /\ DOMAIN Places = PlaceNames
      /\ Places["attempt"] = <<attempt.id>>
  BY PlacesAreTyped, PlacesAre
<1>2. 1 \in DOMAIN Places["attempt"] /\ Places["attempt"][1] = attempt.id
  BY <1>1
<1>3. /\ "attempt" \in PlaceNames /\ "deferred" \in PlaceNames /\ "decomposed" \in PlaceNames
  BY DEF PlaceNames
<1>4. \A a \in PlaceNames : \A k \in DOMAIN Places[a] : Places[a][k] = attempt.id => a = "attempt"
  <2> SUFFICES ASSUME NEW a \in PlaceNames, NEW k \in DOMAIN Places[a],
                      Places[a][k] = attempt.id
               PROVE  a = "attempt"
    OBVIOUS
  <2>1. Owner[Places[a][k]] = Owner[Places["attempt"][1]]
    BY <1>2
  <2>2. \A b, c \in PlaceNames : \A j \in DOMAIN Places[b], l \in DOMAIN Places[c] :
          Owner[Places[b][j]] = Owner[Places[c][l]] => b = c /\ j = l
    BY <1>1 DEF CustodyInv, OnceIn
  <2> QED
    BY <1>2, <1>3, <2>1, <2>2
<1> QED
  BY <1>3, <1>4, PlacesAre

\* Stages that are not touched.
LEMMA StagesStay ==
  ASSUME TypeOK, NEW list, NEW stage,
         \A k \in DOMAIN list : records'[list[k]].kind = records[list[k]].kind
                                /\ records'[list[k]].stage = records[list[k]].stage,
         AtStage(list, stage)
  PROVE  \A k \in DOMAIN list : records'[list[k]].kind = "CNOT" /\ records'[list[k]].stage = stage
BY DEF AtStage

\* The lists of deferred instructions and the waves, by type.
LEMMA ListsAreIds ==
  ASSUME TypeOK
  PROVE  /\ \A k \in DOMAIN current_wave.deferred : current_wave.deferred[k] \in Ids
         /\ \A k \in DOMAIN current_wave.decomposed : current_wave.decomposed[k] \in Ids
         /\ current_wave.deferred \in Seq(Ids) /\ current_wave.decomposed \in Seq(Ids)
         /\ current_wave \in WavesOver(Ids) /\ next_wave \in WavesOver(Ids)
<1>1. current_wave.deferred \in Seq(Ids) /\ current_wave.decomposed \in Seq(Ids)
  BY DEF TypeOK, WaveType
<1>2. current_wave \in WavesOver(Ids) /\ next_wave \in WavesOver(Ids)
  BY DEF TypeOK, WaveType, WavesOver
<1> QED
  BY <1>1, <1>2

\* The rounds, action by action.
LEMMA RoundsLoad ==
  ASSUME TypeOK, ScopeInv, RoundsInv, DeferredInv, Load
  PROVE  RoundsInv' /\ DeferredInv'
<1>1. CASE EndOfProgram
  BY <1>1 DEF EndOfProgram, RoundsInv, DeferredInv, AtStage, Attempted, history
<1>2. ASSUME NEW ins \in Instructions, LoadInstruction(ins)
      PROVE  RoundsInv' /\ DeferredInv'
  <2>1. loading /\ round = "idle" /\ attempt = Nobody /\ callers = << >>
    BY <1>2 DEF LoadInstruction, ScopeInv
  <2>2. /\ current_wave'.deferred = current_wave.deferred
        /\ current_wave'.decomposed = current_wave.decomposed
    <3>1. current_wave \in WavesOver(Ids)
      BY ListsAreIds
    <3> QED
      BY <1>2, <3>1 DEF LoadInstruction, WavesOver
  <2>3. current_wave'.deferred = << >> /\ current_wave'.decomposed = << >>
    BY <2>1, <2>2 DEF RoundsInv
  <2>4. UNCHANGED <<round, attempt, callers, next_wave>>
    BY <1>2 DEF LoadInstruction
  <2>5. RoundsInv'
    BY <2>1, <2>3, <2>4 DEF RoundsInv, EmptyWave, Nobody
  <2>6. DeferredInv'
    BY <2>1, <2>3, <2>4 DEF DeferredInv, AtStage
  <2> QED
    BY <2>5, <2>6
<1> QED
  BY <1>1, <1>2 DEF Load

\* A wave starts, or the next round begins when the list of this one is empty.
LEMMA RoundsTurn ==
  ASSUME TypeOK, RoundsInv, DeferredInv, StartWave \/ NextRound
  PROVE  RoundsInv' /\ DeferredInv'
<1>1. UNCHANGED <<records, current_wave, next_wave, attempt, callers>>
  BY DEF StartWave, NextRound
<1>2. CASE StartWave
  BY <1>1, <1>2 DEF StartWave, RoundsInv, DeferredInv, AtStage
<1>3. CASE NextRound
  <2>1. attempt = Nobody /\ callers = << >> /\ ListOf[round] = << >>
    BY <1>3 DEF NextRound, RoundOver
  <2>2. \/ round = "proximate" /\ round' = "heads" /\ current_wave.proximate = << >>
        \/ round = "heads" /\ EDPC /\ round' = "decompose" /\ current_wave.heads = << >>
        \/ round = "decompose" /\ round' = "apply" /\ current_wave.deferred = << >>
    BY <1>3, <2>1 DEF NextRound, ListOf
  <2>3. RoundsInv'
    BY <1>1, <2>1, <2>2 DEF RoundsInv, EmptyWave, Nobody
  <2>4. DeferredInv'
    BY <1>1, <2>1, <2>2 DEF DeferredInv, AtStage
  <2> QED
    BY <2>3, <2>4
<1> QED
  BY <1>2, <1>3

\* When the last round is over, nothing is left of the wave.
LEMMA RoundsSwap ==
  ASSUME Typed, RoundsInv, DeferredInv, EndWave
  PROVE  RoundsInv' /\ DeferredInv' /\ current_wave = EmptyWave
<1>1. /\ attempt = Nobody /\ callers = << >> /\ ListOf[round] = << >>
      /\ round = LastRound /\ round' = "idle" /\ current_wave' = next_wave
      /\ next_wave' = EmptyWave /\ UNCHANGED <<records, attempt, callers>>
  BY DEF EndWave, RoundOver, SwappedIn
<1>2. /\ current_wave.proximate = << >> /\ current_wave.heads = << >>
      /\ current_wave.deferred = << >> /\ current_wave.decomposed = << >>
  BY <1>1 DEF LastRound, ListOf, RoundsInv
<1>3. current_wave = EmptyWave
  BY <1>2, ListsAreIds DEF Typed, WavesOver, EmptyWave
<1>4. RoundsInv'
  BY <1>1 DEF RoundsInv, EmptyWave, Nobody
<1>5. DeferredInv'
  <2>1. current_wave'.deferred = << >> /\ current_wave'.decomposed = << >>
    BY <1>1 DEF RoundsInv
  <2> QED
    BY <1>1, <2>1 DEF DeferredInv, AtStage
<1> QED
  BY <1>3, <1>4, <1>5

\* The next instruction is taken from the list of the round.
LEMMA RoundsTake ==
  ASSUME TypeOK, RoundsInv, DeferredInv, Take
  PROVE  RoundsInv' /\ DeferredInv'
<1>1. /\ UNCHANGED <<records, next_wave, round, callers>> /\ round # "idle"
      /\ attempt = Nobody /\ callers = << >> /\ ListOf[round] # << >>
      /\ attempt' = [id |-> Head(ListOf[round]), origin |-> "list"] /\ attempt' # Nobody
  BY DEF Take, Nobody
<1>2. current_wave \in WavesOver(Ids) /\ current_wave.deferred \in Seq(Ids)
      /\ current_wave.decomposed \in Seq(Ids)
  BY ListsAreIds
<1>3. CASE round = "proximate"
  <2>1. current_wave' = [current_wave EXCEPT !.proximate = Tail(@)]
    BY <1>3 DEF Take
  <2>2. /\ current_wave'.heads = current_wave.heads
        /\ current_wave'.deferred = current_wave.deferred
        /\ current_wave'.decomposed = current_wave.decomposed
    BY <1>2, <2>1 DEF WavesOver
  <2>3. RoundsInv'
    BY <1>1, <1>3, <2>2 DEF RoundsInv, EmptyWave
  <2>4. DeferredInv'
    BY <1>1, <1>3, <2>2 DEF DeferredInv, AtStage
  <2> QED
    BY <2>3, <2>4
<1>4. CASE round = "heads"
  <2>1. current_wave' = [current_wave EXCEPT !.heads = Tail(@)]
    BY <1>4 DEF Take
  <2>2. /\ current_wave'.proximate = current_wave.proximate
        /\ current_wave'.deferred = current_wave.deferred
        /\ current_wave'.decomposed = current_wave.decomposed
    BY <1>2, <2>1 DEF WavesOver
  <2>3. RoundsInv'
    BY <1>1, <1>4, <2>2 DEF RoundsInv, EmptyWave
  <2>4. DeferredInv'
    BY <1>1, <1>4, <2>2 DEF DeferredInv, AtStage
  <2> QED
    BY <2>3, <2>4
<1>5. CASE round = "decompose"
  <2> DEFINE s == current_wave.deferred
  <2>1. /\ current_wave' = [current_wave EXCEPT !.deferred = Tail(@)] /\ s # << >>
        /\ attempt' = [id |-> Head(s), origin |-> "list"]
    BY <1>1, <1>5 DEF Take, ListOf
  <2>2. /\ current_wave'.proximate = current_wave.proximate
        /\ current_wave'.heads = current_wave.heads
        /\ current_wave'.deferred = Tail(s)
        /\ current_wave'.decomposed = current_wave.decomposed
    BY <1>2, <2>1 DEF WavesOver
  <2>3. /\ 1 \in DOMAIN s /\ Head(s) = s[1]
        /\ \A k \in DOMAIN Tail(s) : k + 1 \in DOMAIN s /\ Tail(s)[k] = s[k + 1]
    <3>1. s \in Seq(Ids) /\ s # << >>
      BY <1>2, <2>1
    <3> HIDE DEF s
    <3> QED
      BY <3>1, TailElements
  <2>4. EDPC
    BY <1>2, <2>1 DEF RoundsInv
  <2>5. RoundsInv'
    BY <1>1, <1>5, <2>2, <2>4 DEF RoundsInv, EmptyWave
  <2>6. AtStage(s, 1)
    BY DEF DeferredInv
  <2>7. \A k \in DOMAIN Tail(s) : records'[Tail(s)[k]].kind = "CNOT"
                                  /\ records'[Tail(s)[k]].stage = 1
    BY <1>1, <2>3, <2>6 DEF AtStage
  <2>8. records'[attempt'.id].kind = "CNOT" /\ records'[attempt'.id].stage = 1
    BY <1>1, <2>1, <2>3, <2>6 DEF AtStage
  <2>9. DeferredInv'
    <3> HIDE DEF s
    <3> QED
      BY <1>1, <1>5, <2>1, <2>2, <2>7, <2>8 DEF DeferredInv, AtStage, Attempted
  <2> QED
    BY <2>5, <2>9
<1>6. CASE round = "apply"
  <2> DEFINE s == current_wave.decomposed
  <2>1. /\ current_wave' = [current_wave EXCEPT !.decomposed = Tail(@)] /\ s # << >>
        /\ attempt' = [id |-> Head(s), origin |-> "list"]
    BY <1>1, <1>6 DEF Take, ListOf
  <2>2. /\ current_wave'.proximate = current_wave.proximate
        /\ current_wave'.heads = current_wave.heads
        /\ current_wave'.deferred = current_wave.deferred
        /\ current_wave'.decomposed = Tail(s)
    BY <1>2, <2>1 DEF WavesOver
  <2>3. /\ 1 \in DOMAIN s /\ Head(s) = s[1]
        /\ \A k \in DOMAIN Tail(s) : k + 1 \in DOMAIN s /\ Tail(s)[k] = s[k + 1]
    <3>1. s \in Seq(Ids) /\ s # << >>
      BY <1>2, <2>1
    <3> HIDE DEF s
    <3> QED
      BY <3>1, TailElements
  <2>4. EDPC
    BY <1>2, <2>1 DEF RoundsInv
  <2>5. RoundsInv'
    BY <1>1, <1>6, <2>2, <2>4 DEF RoundsInv, EmptyWave
  <2>6. AtStage(s, 2)
    BY DEF DeferredInv
  <2>7. \A k \in DOMAIN Tail(s) : records'[Tail(s)[k]].kind = "CNOT"
                                  /\ records'[Tail(s)[k]].stage = 2
    BY <1>1, <2>3, <2>6 DEF AtStage
  <2>8. records'[attempt'.id].kind = "CNOT" /\ records'[attempt'.id].stage = 2
    BY <1>1, <2>1, <2>3, <2>6 DEF AtStage
  <2>9. DeferredInv'
    <3> HIDE DEF s
    <3> QED
      BY <1>1, <1>6, <2>1, <2>2, <2>7, <2>8 DEF DeferredInv, AtStage, Attempted
  <2> QED
    BY <2>5, <2>9
<1> QED
  BY <1>1, <1>3, <1>4, <1>5, <1>6 DEF TypeOK, Rounds

\* Answers that leave the lists of deferred instructions alone.
LEMMA RoundsElsewhere ==
  ASSUME TypeOK, RoundsInv, DeferredInv, round \in {"proximate", "heads"}, UNCHANGED round,
         current_wave'.deferred = current_wave.deferred,
         current_wave'.decomposed = current_wave.decomposed,
         round = "proximate" \/ current_wave'.proximate = current_wave.proximate,
         next_wave'.deferred = next_wave.deferred,
         next_wave'.decomposed = next_wave.decomposed,
         \A k \in DOMAIN current_wave.deferred :
           /\ records'[current_wave.deferred[k]].kind = records[current_wave.deferred[k]].kind
           /\ records'[current_wave.deferred[k]].stage = records[current_wave.deferred[k]].stage,
         \A k \in DOMAIN current_wave.decomposed :
           /\ records'[current_wave.decomposed[k]].kind = records[current_wave.decomposed[k]].kind
           /\ records'[current_wave.decomposed[k]].stage = records[current_wave.decomposed[k]].stage
  PROVE  RoundsInv' /\ DeferredInv'
<1>1. RoundsInv'
  BY DEF RoundsInv
<1>2. DeferredInv'
  BY DEF DeferredInv, AtStage
<1> QED
  BY <1>1, <1>2

-----------------------------------------------------------------------------
\* Answers that no deferred instruction gives.
LEMMA EarlyAnswers ==
  ASSUME Typed, RoundsInv, DeferredInv, attempt # Nobody, NEW answer \in Answers(Attempted),
         answer \notin {"error", "rescheduled"}
  PROVE  round \in {"proximate", "heads"}
<1>1. round \notin {"decompose", "apply"}
  BY AnswersToDeferred
<1>2. round # "idle"
  BY DEF RoundsInv
<1> QED
  BY <1>1, <1>2 DEF Typed, TypeOK, Rounds

\* Only the record of the attempt is overwritten, and it is in no list of deferred ones.
LEMMA OthersStay ==
  ASSUME TypeOK, CustodyInv, attempt # Nobody,
         \A j \in Ids \ {attempt.id} : records'[j] = records[j]
  PROVE  /\ \A k \in DOMAIN current_wave.deferred :
              records'[current_wave.deferred[k]] = records[current_wave.deferred[k]]
         /\ \A k \in DOMAIN current_wave.decomposed :
              records'[current_wave.decomposed[k]] = records[current_wave.decomposed[k]]
BY AttemptIsElsewhere, ListsAreIds

\* An instruction ends: not in the rounds over the deferred ones.
LEMMA RoundsEnd ==
  ASSUME Typed, RoundsInv, DeferredInv, ApplyEnds
  PROVE  RoundsInv' /\ DeferredInv'
<1>1. attempt # Nobody /\ "applied" \in Answers(Attempted)
      /\ UNCHANGED <<records, current_wave, next_wave, round>>
  BY DEF ApplyEnds, Answered
<1>2. round \in {"proximate", "heads"}
  BY <1>1, EarlyAnswers
<1> QED
  BY <1>1, <1>2, RoundsElsewhere DEF Typed

\* A follow-up is made: not in the rounds over the deferred ones.
LEMMA RoundsContinue ==
  ASSUME Typed, RoundsInv, DeferredInv, ApplyContinues
  PROVE  RoundsInv' /\ DeferredInv'
<1>1. attempt # Nobody /\ "followup" \in Answers(Attempted) /\ UNCHANGED <<current_wave, round>>
  BY DEF ApplyContinues, Answered
<1>2. round \in {"proximate", "heads"}
  BY <1>1, EarlyAnswers
<1>3. \A i \in Ids : records'[i] = records[i]
  BY FollowupIsAdded DEF Typed
<1>4. next_wave'.deferred = next_wave.deferred /\ next_wave'.decomposed = next_wave.decomposed
  <2>1. next_wave \in WavesOver(Ids)
    BY ListsAreIds DEF Typed
  <2>2. \/ UNCHANGED next_wave
        \/ next_wave' = [next_wave EXCEPT !.proximate = Append(@, FollowupId)]
    BY DEF ApplyContinues
  <2> QED
    BY <2>1, <2>2 DEF WavesOver
<1>5. /\ \A k \in DOMAIN current_wave.deferred :
           records'[current_wave.deferred[k]] = records[current_wave.deferred[k]]
      /\ \A k \in DOMAIN current_wave.decomposed :
           records'[current_wave.decomposed[k]] = records[current_wave.decomposed[k]]
  BY <1>3, ListsAreIds DEF Typed
<1> QED
  BY <1>1, <1>2, <1>4, <1>5, RoundsElsewhere DEF Typed

\* An instruction goes to the next wave, in the last round too.
LEMMA RoundsReschedule ==
  ASSUME Typed, RoundsInv, DeferredInv, CustodyInv, ApplyReschedules
  PROVE  RoundsInv' /\ DeferredInv'
<1>1. /\ attempt # Nobody /\ "rescheduled" \in Answers(Attempted)
      /\ UNCHANGED <<current_wave, round, callers>> /\ attempt' = Nobody
      /\ next_wave' = [next_wave EXCEPT !.proximate = Append(@, attempt.id)]
  BY DEF ApplyReschedules, Answered
<1>2. round # "idle"
  BY <1>1 DEF RoundsInv
<1>3. \A j \in Ids \ {attempt.id} : records'[j] = records[j]
  <2>1. PICK stage \in StagesAfter(Attempted) :
          records' = [records EXCEPT ![attempt.id].stage = stage]
    BY DEF ApplyReschedules
  <2>2. TypeOK /\ attempt.id \in Ids
    BY <1>1, AttemptedIsTyped DEF Typed
  <2> QED
    BY <2>1, <2>2, RecordOverwritten
<1>4. /\ \A k \in DOMAIN current_wave.deferred :
           records'[current_wave.deferred[k]] = records[current_wave.deferred[k]]
      /\ \A k \in DOMAIN current_wave.decomposed :
           records'[current_wave.decomposed[k]] = records[current_wave.decomposed[k]]
  BY <1>1, <1>3, OthersStay DEF Typed
<1>5. next_wave'.deferred = next_wave.deferred /\ next_wave'.decomposed = next_wave.decomposed
  <2>1. next_wave \in WavesOver(Ids)
    BY ListsAreIds DEF Typed
  <2> QED
    BY <1>1, <2>1 DEF WavesOver
<1>6. RoundsInv'
  BY <1>1, <1>2, <1>5 DEF RoundsInv
<1>7. DeferredInv'
  BY <1>1, <1>4 DEF DeferredInv, AtStage
<1> QED
  BY <1>6, <1>7

\* An instruction found in a list fails.
LEMMA RoundsFail ==
  ASSUME Typed, RoundsInv, DeferredInv, CustodyInv, ApplyFails
  PROVE  RoundsInv' /\ DeferredInv'
<1>1. /\ attempt # Nobody /\ round \in {"proximate", "heads"}
      /\ UNCHANGED <<current_wave, round>>
      /\ \/ UNCHANGED <<records, next_wave>>
         \/ /\ records' = [records EXCEPT ![attempt.id].wait = WaitedOnce(@)]
            /\ next_wave' = [next_wave EXCEPT !.heads = Append(@, attempt.id)]
  BY DEF ApplyFails, Answered
<1>2. \A j \in Ids \ {attempt.id} : records'[j] = records[j]
  <2>1. records \in Seq(RecordType)
    BY DEF Typed, TypeOK
  <2> QED
    BY <1>1, <2>1 DEF Ids
<1>3. /\ \A k \in DOMAIN current_wave.deferred :
           records'[current_wave.deferred[k]] = records[current_wave.deferred[k]]
      /\ \A k \in DOMAIN current_wave.decomposed :
           records'[current_wave.decomposed[k]] = records[current_wave.decomposed[k]]
  BY <1>1, <1>2, OthersStay DEF Typed
<1>4. next_wave'.deferred = next_wave.deferred /\ next_wave'.decomposed = next_wave.decomposed
  <2>1. next_wave \in WavesOver(Ids)
    BY ListsAreIds DEF Typed
  <2> QED
    BY <1>1, <2>1 DEF WavesOver
<1> QED
  BY <1>1, <1>3, <1>4, RoundsElsewhere DEF Typed

\* An instruction that was not found in a list fails.
LEMMA RoundsFailEarly ==
  ASSUME Typed, RoundsInv, DeferredInv, ApplyFailsEarly
  PROVE  RoundsInv' /\ DeferredInv'
<1>1. /\ attempt # Nobody /\ attempt.origin # "list"
      /\ UNCHANGED <<records, current_wave, round>>
      /\ \/ next_wave' = [next_wave EXCEPT !.proximate = Append(@, attempt.id)]
         \/ next_wave' = [next_wave EXCEPT !.heads = Append(@, attempt.id)]
  BY DEF ApplyFailsEarly, Answered
<1>2. round \in {"proximate", "heads"}
  BY <1>1 DEF RoundsInv, DeferredInv, Typed, TypeOK, Rounds
<1>3. next_wave'.deferred = next_wave.deferred /\ next_wave'.decomposed = next_wave.decomposed
  <2>1. next_wave \in WavesOver(Ids)
    BY ListsAreIds DEF Typed
  <2> QED
    BY <1>1, <2>1 DEF WavesOver
<1> QED
  BY <1>1, <1>2, <1>3, RoundsElsewhere DEF Typed

\* A loop over dependents makes a turn.
LEMMA RoundsRelease ==
  ASSUME Typed, RoundsInv, DeferredInv, callers # << >>, NEW e, Freed(e),
         UNCHANGED <<records, round>>
  PROVE  RoundsInv' /\ DeferredInv'
<1>1. round \in {"proximate", "heads"}
  BY DEF RoundsInv, DeferredInv, Typed, TypeOK, Rounds
<1>2. current_wave \in WavesOver(Ids) /\ next_wave \in WavesOver(Ids)
  BY ListsAreIds DEF Typed
<1>3. /\ \/ UNCHANGED current_wave
         \/ current_wave' = [current_wave EXCEPT !.heads = Append(@, e[1])]
      /\ \/ UNCHANGED next_wave
         \/ next_wave' = [next_wave EXCEPT !.heads = Append(@, e[1])]
  BY DEF Freed
<1>4. /\ current_wave'.deferred = current_wave.deferred
      /\ current_wave'.decomposed = current_wave.decomposed
      /\ current_wave'.proximate = current_wave.proximate
      /\ next_wave'.deferred = next_wave.deferred
      /\ next_wave'.decomposed = next_wave.decomposed
  BY <1>2, <1>3 DEF WavesOver
<1> QED
  BY <1>1, <1>4, RoundsElsewhere DEF Typed

\* An instruction goes to the list of deferred ones at the stage that list is for.
LEMMA StageAppended ==
  ASSUME NEW S, NEW list \in Seq(S), NEW i \in S, NEW stage,
         \A k \in DOMAIN list : records'[list[k]].kind = "CNOT" /\ records'[list[k]].stage = stage,
         records'[i].kind = "CNOT", records'[i].stage = stage
  PROVE  \A k \in DOMAIN Append(list, i) :
           records'[Append(list, i)[k]].kind = "CNOT" /\ records'[Append(list, i)[k]].stage = stage
<1>1. \A k \in DOMAIN Append(list, i) :
        \/ k \in DOMAIN list /\ Append(list, i)[k] = list[k]
        \/ Append(list, i)[k] = i
  <2>1. /\ Len(list) \in Nat /\ DOMAIN list = 1 .. Len(list)
        /\ DOMAIN Append(list, i) = 1 .. (Len(list) + 1)
        /\ \A k \in DOMAIN list : Append(list, i)[k] = list[k]
        /\ Append(list, i)[Len(list) + 1] = i
    BY AppendElements
  <2> QED
    BY <2>1
<1> QED
  BY <1>1

\* The stage of the attempt is overwritten.
LEMMA StageWritten ==
  ASSUME TypeOK, NEW stage, attempt.id \in Ids,
         records' = [records EXCEPT ![attempt.id].stage = stage]
  PROVE  /\ records'[attempt.id].stage = stage
         /\ records'[attempt.id].kind = Attempted.kind
         /\ \A j \in Ids \ {attempt.id} : records'[j] = records[j]
<1>1. records \in Seq(RecordType) /\ records[attempt.id] \in RecordType
  <2>1. records \in Seq(RecordType)
    BY DEF TypeOK
  <2> QED
    BY <2>1 DEF Ids
<1>2. records'[attempt.id] = [records[attempt.id] EXCEPT !.stage = stage]
  BY <1>1 DEF Ids
<1>3. \A j \in Ids \ {attempt.id} : records'[j] = records[j]
  BY <1>1 DEF Ids
<1> QED
  BY <1>1, <1>2, <1>3 DEF RecordType, Attempted

\* A CNOT is routed: stage 1, and in the list for the next round.
LEMMA RoundsDefer ==
  ASSUME Typed, RoundsInv, DeferredInv, CustodyInv, ApplyDefers
  PROVE  RoundsInv' /\ DeferredInv'
<1>1. /\ attempt # Nobody /\ "deferred" \in Answers(Attempted)
      /\ UNCHANGED <<next_wave, round, callers>> /\ attempt' = Nobody
      /\ records' = [records EXCEPT ![attempt.id].stage = 1]
      /\ current_wave' = [current_wave EXCEPT !.deferred = Append(@, attempt.id)]
  BY DEF ApplyDefers, Answered
<1>2. round \in {"proximate", "heads"} /\ EDPC /\ Attempted.kind = "CNOT"
  BY <1>1, EarlyAnswers, DeferringIsBell DEF Typed
<1>3. attempt.id \in Ids /\ TypeOK
  BY <1>1, AttemptedIsTyped DEF Typed
<1>4. /\ records'[attempt.id].stage = 1 /\ records'[attempt.id].kind = "CNOT"
      /\ \A j \in Ids \ {attempt.id} : records'[j] = records[j]
  BY <1>1, <1>2, <1>3, StageWritten
<1>5. /\ \A k \in DOMAIN current_wave.deferred :
           records'[current_wave.deferred[k]] = records[current_wave.deferred[k]]
      /\ \A k \in DOMAIN current_wave.decomposed :
           records'[current_wave.decomposed[k]] = records[current_wave.decomposed[k]]
  BY <1>1, <1>3, <1>4, OthersStay
<1>6. /\ current_wave'.proximate = current_wave.proximate
      /\ current_wave'.deferred = Append(current_wave.deferred, attempt.id)
      /\ current_wave'.decomposed = current_wave.decomposed
  <2>1. current_wave \in WavesOver(Ids)
    BY <1>3, ListsAreIds
  <2> QED
    BY <1>1, <2>1 DEF WavesOver
<1>7. RoundsInv'
  BY <1>1, <1>2, <1>6 DEF RoundsInv
<1>8. \A k \in DOMAIN current_wave.deferred :
        records'[current_wave.deferred[k]].kind = "CNOT" /\ records'[current_wave.deferred[k]].stage = 1
  BY <1>5 DEF DeferredInv, AtStage
<1>9. AtStage(current_wave.deferred, 1)'
  <2>1. current_wave.deferred \in Seq(Ids)
    BY <1>3, ListsAreIds
  <2>2. \A k \in DOMAIN Append(current_wave.deferred, attempt.id) :
          /\ records'[Append(current_wave.deferred, attempt.id)[k]].kind = "CNOT"
          /\ records'[Append(current_wave.deferred, attempt.id)[k]].stage = 1
    BY <1>3, <1>4, <1>8, <2>1, StageAppended
  <2> QED
    BY <1>6, <2>2 DEF AtStage
<1>10. AtStage(current_wave.decomposed, 2)'
  BY <1>5, <1>6 DEF DeferredInv, AtStage
<1> QED
  BY <1>1, <1>2, <1>7, <1>9, <1>10 DEF DeferredInv

\* A CNOT is decomposed: stage 2, and in the list for the last round.
LEMMA RoundsDecompose ==
  ASSUME Typed, RoundsInv, DeferredInv, CustodyInv, ApplyDecomposes
  PROVE  RoundsInv' /\ DeferredInv'
<1>1. /\ attempt # Nobody /\ round = "decompose"
      /\ UNCHANGED <<next_wave, round, callers>> /\ attempt' = Nobody
      /\ records' = [records EXCEPT ![attempt.id].stage = 2]
      /\ current_wave' = [current_wave EXCEPT !.decomposed = Append(@, attempt.id)]
  BY DEF ApplyDecomposes, Answered
<1>2. EDPC /\ Attempted.kind = "CNOT" /\ callers = << >>
  BY <1>1 DEF DeferredInv, Typed, RoundsOfMode
<1>3. attempt.id \in Ids /\ TypeOK
  BY <1>1, AttemptedIsTyped DEF Typed
<1>4. /\ records'[attempt.id].stage = 2 /\ records'[attempt.id].kind = "CNOT"
      /\ \A j \in Ids \ {attempt.id} : records'[j] = records[j]
  BY <1>1, <1>2, <1>3, StageWritten
<1>5. /\ \A k \in DOMAIN current_wave.deferred :
           records'[current_wave.deferred[k]] = records[current_wave.deferred[k]]
      /\ \A k \in DOMAIN current_wave.decomposed :
           records'[current_wave.decomposed[k]] = records[current_wave.decomposed[k]]
  BY <1>1, <1>3, <1>4, OthersStay
<1>6. /\ current_wave'.proximate = current_wave.proximate
      /\ current_wave'.heads = current_wave.heads
      /\ current_wave'.deferred = current_wave.deferred
      /\ current_wave'.decomposed = Append(current_wave.decomposed, attempt.id)
  <2>1. current_wave \in WavesOver(Ids)
    BY <1>3, ListsAreIds
  <2> QED
    BY <1>1, <2>1 DEF WavesOver
<1>7. RoundsInv'
  BY <1>1, <1>2, <1>6 DEF RoundsInv
<1>8. \A k \in DOMAIN current_wave.decomposed :
        /\ records'[current_wave.decomposed[k]].kind = "CNOT"
        /\ records'[current_wave.decomposed[k]].stage = 2
  BY <1>5 DEF DeferredInv, AtStage
<1>9. AtStage(current_wave.decomposed, 2)'
  <2>1. current_wave.decomposed \in Seq(Ids)
    BY <1>3, ListsAreIds
  <2>2. \A k \in DOMAIN Append(current_wave.decomposed, attempt.id) :
          /\ records'[Append(current_wave.decomposed, attempt.id)[k]].kind = "CNOT"
          /\ records'[Append(current_wave.decomposed, attempt.id)[k]].stage = 2
    BY <1>3, <1>4, <1>8, <2>1, StageAppended
  <2> QED
    BY <1>6, <2>2 DEF AtStage
<1>10. AtStage(current_wave.deferred, 1)'
  BY <1>5, <1>6 DEF DeferredInv, AtStage
<1> QED
  BY <1>1, <1>2, <1>7, <1>9, <1>10 DEF DeferredInv

-----------------------------------------------------------------------------
(***************************************************************************)
(* What has begun had all its predecessors done.                           *)
(***************************************************************************)
PredecessorsFirst == \A r \in begun : Order!Before(r) \subseteq ended

SchedulerInv ==
  /\ Typed /\ LinkedInv /\ CountedInv /\ CustodyInv /\ RoundsInv /\ DeferredInv
  /\ PredecessorsFirst /\ SlowOnesWait

-----------------------------------------------------------------------------
\* An instruction that is handed to the slice has its predecessors done.
LEMMA AttemptIsReady ==
  ASSUME SchedulerInv, attempt # Nobody
  PROVE  /\ Attempted.root \in Roots \ ended
         /\ dependency_counts[attempt.id] = 0
         /\ Order!Before(Attempted.root) \subseteq ended
<1> DEFINE q == Attempted.root
<1>1. /\ TypeOK /\ LinkedInv /\ CountedInv /\ CustodyInv /\ LinksInv /\ ended \subseteq Roots
      /\ ended \subseteq begun
  BY DEF SchedulerInv, Typed, LinkedInv, CountedInv, ScopeInv, TypeOK
<1>2. /\ attempt.id \in Ids /\ q \in Roots /\ (attempt.id \in Roots => q = attempt.id)
  BY <1>1, AttemptedIsRooted
<1>3. HeldIn(Places, Owner, q)
  BY <1>1, <1>2, AttemptTaken
<1>4. q \notin ended /\ dependency_counts[q] = 0
  BY <1>1, <1>2, <1>3 DEF CustodyInv
<1>5. dependency_counts[attempt.id] = 0
  <2>1. CASE attempt.id \in Roots
    BY <1>2, <1>4, <2>1
  <2>2. CASE attempt.id \notin Roots
    BY <1>1, <1>2, <2>2 DEF CountedInv, ScopeInv
  <2> QED
    BY <2>1, <2>2
<1>6. Roots \subseteq Ids /\ Roots = 1 .. Len(program) /\ Len(program) \in Nat
  BY <1>1, RootsAreIds DEF LinkedInv
<1>7. Waiting(q) = {}
  BY <1>1, <1>2, <1>4, <1>6, CountIsZero DEF CountedInv
<1>8. ASSUME NEW j \in Order!Before(q)
      PROVE  j \in ended
  <2>1. j \in 1 .. (q - 1) /\ program[q] \cap program[j] # {}
    BY DEF Order!Before
  <2>2. j \in Roots /\ j < q
    BY <1>2, <1>6, <2>1
  <2>3. PICK p \in program[q] \cap program[j] : TRUE
    BY <2>1
  <2>4. PICK r \in Roots : j <= r /\ <<q, p>> \in Links(r)
    BY <1>1, <1>2, <2>2, <2>3 DEF LinksInv
  <2>5. p \in Patches
    <3>1. program[q] \in SUBSET Patches
      BY <1>1, <1>2, RootsAreIds DEF LinkedInv
    <3> QED
      BY <2>3, <3>1
  <2>6. <<q, p>> \notin Outstanding
    BY <1>7, <2>5 DEF Waiting
  <2>7. r \in ended
    BY <2>4, <2>6, OutstandingIs DEF IsOutstanding
  <2>8. p \in program[r]
    <3>1. <<q, p>>[2] \in program[r]
      BY <1>1, <2>4 DEF LinksInv
    <3> QED
      BY <3>1
  <2>9. CASE r = j
    BY <2>7, <2>9
  <2>10. CASE r # j
    <3>1. j \in 1 .. (r - 1)
      BY <1>6, <2>2, <2>4, <2>10
    <3>2. j \in Order!Before(r)
      BY <2>3, <2>8, <3>1 DEF Order!Before
    <3> QED
      BY <1>1, <2>7, <3>2 DEF SchedulerInv, PredecessorsFirst
  <2> QED
    BY <2>9, <2>10
<1> QED
  BY <1>2, <1>4, <1>5, <1>8

\* Nothing begins before its predecessors are done.
LEMMA PredecessorsKept ==
  ASSUME SchedulerInv, UNCHANGED program, ended \subseteq ended',
         \/ UNCHANGED begun
         \/ attempt # Nobody /\ BeginRoot
  PROVE  PredecessorsFirst'
<1>1. \A r : Order!Before(r)' = Order!Before(r)
  BY DEF Order!Before
<1>2. \A r \in begun' : Order!Before(r) \subseteq ended
  BY AttemptIsReady DEF SchedulerInv, PredecessorsFirst, BeginRoot
<1> QED
  BY <1>1, <1>2 DEF PredecessorsFirst

\* What the list of the next heads holds.
In(list, i) == \E k \in DOMAIN list : list[k] = i

\* An appended list holds the new element and the old ones.
LEMMA InAppended ==
  ASSUME NEW S, NEW list \in Seq(S), NEW i \in S
  PROVE  In(Append(list, i), i) /\ \A j : In(list, j) => In(Append(list, i), j)
<1>1. /\ Len(list) \in Nat /\ DOMAIN list = 1 .. Len(list)
      /\ DOMAIN Append(list, i) = 1 .. (Len(list) + 1)
      /\ \A k \in DOMAIN list : Append(list, i)[k] = list[k]
      /\ Append(list, i)[Len(list) + 1] = i
  BY AppendElements
<1>2. Len(list) + 1 \in DOMAIN Append(list, i) /\ DOMAIN list \subseteq DOMAIN Append(list, i)
  BY <1>1
<1> QED
  BY <1>1, <1>2 DEF In

\* Slow instructions stay in the list of the next heads while the wave lasts.
LEMMA SlowKept ==
  ASSUME TypeOK, SlowOnesWait, released \subseteq Roots, Roots \subseteq Ids,
         UNCHANGED <<round, released>>,
         \A i \in Ids : records'[i].kind = records[i].kind,
         \/ next_wave'.heads = next_wave.heads
         \/ \E i \in Ids : next_wave'.heads = Append(next_wave.heads, i)
  PROVE  SlowOnesWait'
<1>1. next_wave.heads \in Seq(Ids)
  BY DEF TypeOK, WaveType
<1>2. \A j : In(next_wave.heads, j) => In(next_wave'.heads, j)
  <2> DEFINE list == next_wave.heads
  <2>1. CASE next_wave'.heads = list
    BY <2>1
  <2>2. ASSUME NEW i \in Ids, next_wave'.heads = Append(list, i)
        PROVE  \A j : In(list, j) => In(next_wave'.heads, j)
    <3>1. list \in Seq(Ids)
      BY <1>1
    <3> HIDE DEF list
    <3>2. \A j : In(list, j) => In(Append(list, i), j)
      BY <3>1, InAppended
    <3> QED
      BY <2>2, <3>2
  <2> QED
    BY <2>1, <2>2
<1> QED
  BY <1>2 DEF SlowOnesWait, In

\* A slow instruction that is released goes to the list of the next heads.
LEMMA SlowReleased ==
  ASSUME TypeOK, SlowOnesWait, released \subseteq Roots, Roots \subseteq Ids,
         NEW e, e[1] \in Ids, Taken(e), Freed(e), UNCHANGED <<records, round>>
  PROVE  SlowOnesWait'
<1>1. next_wave.heads \in Seq(Ids) /\ next_wave \in WavesOver(Ids)
  BY ListsAreIds DEF TypeOK, WaveType
<1>2. /\ released' \subseteq released \cup {e[1]}
      /\ e[1] \in released' => e[1] \in released \/ dependency_counts[e[1]] = 1
  BY DEF Taken
<1>3. CASE ~ IsImmediate(records[e[1]].kind) /\ dependency_counts[e[1]] = 1
  <2>1. next_wave' = [next_wave EXCEPT !.heads = Append(@, e[1])]
    BY <1>3 DEF Freed
  <2>2. next_wave'.heads = Append(next_wave.heads, e[1])
    BY <1>1, <2>1 DEF WavesOver
  <2>3. In(next_wave'.heads, e[1]) /\ \A j : In(next_wave.heads, j) => In(next_wave'.heads, j)
    BY <1>1, <2>2, InAppended
  <2> QED
    BY <1>2, <2>3 DEF SlowOnesWait, In
<1>4. CASE IsImmediate(records[e[1]].kind)
  <2>1. UNCHANGED next_wave
    BY <1>4 DEF Freed
  <2>2. records[e[1]].kind \notin {"H", "S"} \cup BusyKinds
    BY <1>4 DEF IsImmediate, BusyKinds
  <2> QED
    BY <1>2, <2>1, <2>2 DEF SlowOnesWait
<1>5. CASE dependency_counts[e[1]] # 1
  <2>1. UNCHANGED next_wave /\ released' = released
    BY <1>5 DEF Freed, Taken
  <2> QED
    BY <2>1 DEF SlowOnesWait
<1> QED
  BY <1>3, <1>4, <1>5

-----------------------------------------------------------------------------
\* The facts about the state that the steps below start from.
LEMMA SchedulerFacts ==
  ASSUME SchedulerInv
  PROVE  /\ TypeOK /\ Typed /\ LinkedInv /\ CountedInv /\ CustodyInv /\ RoundsInv /\ DeferredInv
         /\ SlowOnesWait /\ OwnersInv /\ ScopeInv
         /\ begun \subseteq Roots /\ ended \subseteq Roots /\ released \subseteq Roots
         /\ Roots \subseteq Ids
         /\ attempt # Nobody \/ callers # << >> \/ round # "idle" => ~ loading
<1>1. /\ TypeOK /\ Typed /\ LinkedInv /\ CountedInv /\ CustodyInv /\ RoundsInv /\ DeferredInv
      /\ SlowOnesWait /\ OwnersInv /\ ScopeInv
  BY DEF SchedulerInv, Typed, LinkedInv, CountedInv
<1>2. /\ begun \subseteq Roots /\ ended \subseteq Roots /\ released \subseteq Roots
  BY <1>1 DEF ScopeInv, TypeOK
<1>3. Roots \subseteq Ids
  BY <1>1, RootsAreIds
<1>4. attempt # Nobody \/ callers # << >> \/ round # "idle" => ~ loading
  BY <1>1 DEF ScopeInv
<1> QED
  BY <1>1, <1>2, <1>3, <1>4

\* The program is read.
LEMMA SchedulerLoads ==
  ASSUME SchedulerInv, Load, Typed'
  PROVE  SchedulerInv'
<1>1. /\ TypeOK /\ Typed /\ LinkedInv /\ CountedInv /\ CustodyInv /\ RoundsInv /\ DeferredInv
      /\ SlowOnesWait /\ ScopeInv /\ ended \subseteq Roots
      /\ released \subseteq Roots /\ Roots \subseteq Ids
  BY SchedulerFacts
<1>2. TypeOK' /\ loading
  BY DEF Typed, Load, LoadInstruction, EndOfProgram
<1>3. begun = {} /\ round = "idle" /\ attempt = Nobody
  BY <1>1, <1>2 DEF ScopeInv
<1>4. CASE EndOfProgram
  <2>1. UNCHANGED <<records, dependency_counts, current_wave, next_wave, round, attempt, callers,
                    released, begun, ended>>
    BY <1>4 DEF EndOfProgram, history
  <2>2. Keeping
    BY <1>4 DEF Keeping
  <2>3. LinkedInv'
    BY <1>1, <1>2, <2>2, LinkedKept
  <2>4. CountedInv'
    BY <1>1, <1>3, <2>1, <2>2, CountedKept DEF ScopeInv
  <2>5. CustodyInv'
    BY <1>1, <2>1, <2>2, CustodyStays
  <2>6. RoundsInv' /\ DeferredInv'
    BY <1>1, RoundsLoad
  <2>7. PredecessorsFirst'
    BY <1>3, <2>1 DEF PredecessorsFirst
  <2>8. SlowOnesWait'
    BY <1>3, <2>1 DEF SlowOnesWait
  <2> QED
    BY <2>3, <2>4, <2>5, <2>6, <2>7, <2>8 DEF SchedulerInv
<1>5. ASSUME NEW ins \in Instructions, LoadInstruction(ins)
      PROVE  SchedulerInv'
  <2>1. UNCHANGED <<round, begun>>
    BY <1>5 DEF LoadInstruction
  <2>3. LinkedInv'
    BY <1>1, <1>5, LinkedLoads
  <2>4. CountedInv'
    BY <1>1, <1>5, CountedLoads
  <2>5. CustodyInv'
    BY <1>1, <1>2, <1>5, CustodyLoads
  <2>6. RoundsInv' /\ DeferredInv'
    BY <1>1, RoundsLoad
  <2>7. PredecessorsFirst'
    BY <1>3, <2>1 DEF PredecessorsFirst
  <2>8. SlowOnesWait'
    BY <1>3, <2>1 DEF SlowOnesWait
  <2> QED
    BY <2>3, <2>4, <2>5, <2>6, <2>7, <2>8 DEF SchedulerInv
<1> QED
  BY <1>4, <1>5 DEF Load

\* The rounds of a wave begin, follow each other and end.
LEMMA SchedulerTurns ==
  ASSUME SchedulerInv, StartWave \/ NextRound \/ EndWave, Typed'
  PROVE  SchedulerInv'
<1>1. /\ TypeOK /\ Typed /\ LinkedInv /\ CountedInv /\ CustodyInv /\ RoundsInv /\ DeferredInv
      /\ SlowOnesWait /\ ScopeInv /\ begun \subseteq Roots /\ ended \subseteq Roots
      /\ released \subseteq Roots /\ Roots \subseteq Ids
      /\ (round # "idle" => ~ loading)
  BY SchedulerFacts
<1>2. TypeOK' /\ Keeping
  BY DEF Typed, Keeping
<1>3. UNCHANGED <<records, dependency_counts, program, loading, attempt, callers, begun, ended>>
      /\ ~ loading
  BY <1>1 DEF StartWave, NextRound, EndWave, RoundOver, constructed, history
<1>4. LinkedInv'
  BY <1>1, <1>2, LinkedKept
<1>5. CountedInv'
  <2>1. released' \subseteq Roots
    BY <1>1 DEF StartWave, NextRound, EndWave, history
  <2> QED
    BY <1>1, <1>2, <1>3, <2>1, CountedKept
<1>6. RoundsInv' /\ DeferredInv' /\ CustodyInv'
  <2>1. CASE StartWave \/ NextRound
    <3>1. UNCHANGED <<current_wave, next_wave>>
      BY <2>1 DEF StartWave, NextRound
    <3> QED
      BY <1>1, <1>2, <1>3, <2>1, <3>1, RoundsTurn, CustodyStays
  <2>2. CASE EndWave
    BY <1>1, <1>2, <2>2, RoundsSwap, CustodySwaps
  <2> QED
    BY <2>1, <2>2
<1>7. PredecessorsFirst'
  BY <1>3, PredecessorsKept
<1>8. SlowOnesWait'
  <2>1. CASE StartWave
    BY <2>1 DEF StartWave, SlowOnesWait
  <2>2. CASE NextRound
    <3>1. UNCHANGED <<released, next_wave>> /\ round # "idle"
      BY <2>2 DEF NextRound, RoundOver, history
    <3> QED
      BY <1>1, <1>3, <3>1 DEF SlowOnesWait
  <2>3. CASE EndWave
    BY <2>3 DEF EndWave, SlowOnesWait
  <2> QED
    BY <2>1, <2>2, <2>3
<1> QED
  BY <1>4, <1>5, <1>6, <1>7, <1>8 DEF SchedulerInv

\* The next instruction is handed to the slice.
LEMMA SchedulerTakes ==
  ASSUME SchedulerInv, Take, Typed'
  PROVE  SchedulerInv'
<1>1. /\ TypeOK /\ Typed /\ LinkedInv /\ CountedInv /\ CustodyInv /\ RoundsInv /\ DeferredInv
      /\ SlowOnesWait /\ ScopeInv /\ begun \subseteq Roots /\ ended \subseteq Roots
      /\ released \subseteq Roots /\ Roots \subseteq Ids
      /\ (round # "idle" => ~ loading)
  BY SchedulerFacts
<1>2. TypeOK' /\ Keeping
  BY DEF Typed, Keeping
<1>3. UNCHANGED <<records, dependency_counts, program, loading, round, callers, begun, ended,
                  released, next_wave>>
      /\ ~ loading
  BY <1>1 DEF Take, constructed, history
<1>4. LinkedInv'
  BY <1>1, <1>2, LinkedKept
<1>5. CountedInv'
  BY <1>1, <1>2, <1>3, CountedKept
<1>6. RoundsInv' /\ DeferredInv' /\ CustodyInv'
  BY <1>1, <1>2, RoundsTake, CustodyTakes
<1>7. PredecessorsFirst'
  BY <1>3, PredecessorsKept
<1>8. SlowOnesWait'
  BY <1>1, <1>3 DEF SlowOnesWait
<1> QED
  BY <1>4, <1>5, <1>6, <1>7, <1>8 DEF SchedulerInv

\* The instruction is done.
LEMMA SchedulerEnds ==
  ASSUME SchedulerInv, ApplyEnds, Typed'
  PROVE  SchedulerInv'
<1>1. /\ TypeOK /\ Typed /\ LinkedInv /\ CountedInv /\ CustodyInv /\ RoundsInv /\ DeferredInv
      /\ SlowOnesWait /\ ScopeInv /\ begun \subseteq Roots /\ ended \subseteq Roots
      /\ released \subseteq Roots /\ Roots \subseteq Ids
  BY SchedulerFacts
<1>2. TypeOK' /\ Keeping
  BY DEF Typed, Keeping
<1>3. UNCHANGED <<records, program, round, released, next_wave>>
      /\ attempt # Nobody /\ BeginRoot /\ ended \subseteq ended'
  BY DEF ApplyEnds, Answered, constructed
<1>4. LinkedInv'
  BY <1>1, <1>2, LinkedKept
<1>5. CustodyInv' /\ Attempted.root \in Roots \ ended
  BY <1>1, <1>2, CustodyEnds
<1>6. CountedInv'
  BY <1>1, <1>5, CountedEnds
<1>7. RoundsInv' /\ DeferredInv'
  BY <1>1, RoundsEnd
<1>8. PredecessorsFirst'
  BY <1>3, PredecessorsKept
<1>9. SlowOnesWait'
  BY <1>1, <1>3 DEF SlowOnesWait
<1> QED
  BY <1>4, <1>5, <1>6, <1>7, <1>8, <1>9 DEF SchedulerInv

\* The instruction is continued by another one.
LEMMA SchedulerContinues ==
  ASSUME SchedulerInv, ApplyContinues, Typed', GrowthMoves
  PROVE  SchedulerInv'
<1>1. /\ TypeOK /\ Typed /\ LinkedInv /\ CountedInv /\ CustodyInv /\ RoundsInv /\ DeferredInv
      /\ SlowOnesWait /\ ScopeInv /\ begun \subseteq Roots /\ ended \subseteq Roots
      /\ released \subseteq Roots /\ Roots \subseteq Ids
      /\ (attempt # Nobody => ~ loading)
  BY SchedulerFacts
<1>2. TypeOK'
  BY DEF Typed
<1>3. /\ attempt # Nobody /\ BeginRoot /\ ~ loading
      /\ UNCHANGED <<program, current_wave, round, released, ended>>
      /\ \/ attempt' = [id |-> FollowupId, origin |-> "followup"] /\ UNCHANGED next_wave
         \/ /\ attempt' = Nobody
            /\ next_wave' = [next_wave EXCEPT !.proximate = Append(@, FollowupId)]
  BY <1>1 DEF ApplyContinues, Answered, constructed
<1>4. /\ FollowupId = Len(records) + 1 /\ FollowupId \notin Ids
      /\ Ids' = Ids \cup {FollowupId}
      /\ \A i \in Ids : records'[i] = records[i]
      /\ records'[FollowupId].root = Attempted.root
      /\ \A i \in Ids : dependency_counts'[i] = dependency_counts[i]
  BY <1>1, FollowupIsAdded
<1>5. LinkedInv'
  BY <1>1, <1>2, <1>3, LinkedContinues
<1>6. CountedInv'
  BY <1>1, <1>3, CountedContinues
<1>7. CustodyInv'
  <2>1. OwnersKept
    BY <1>4 DEF OwnersKept
  <2>2. FollowupId \in Ids' /\ FollowupId # 0
    BY <1>1, <1>4, RootsAreIds DEF LinkedInv
  <2>3. \/ attempt' # Nobody /\ attempt'.id = FollowupId /\ UNCHANGED <<current_wave, next_wave>>
        \/ /\ attempt' = Nobody /\ UNCHANGED current_wave
           /\ next_wave' = [next_wave EXCEPT !.proximate = Append(@, FollowupId)]
    BY <1>3 DEF Nobody
  <2>4. \A r \in Roots : dependency_counts'[r] = dependency_counts[r]
    BY <1>1, <1>4
  <2> HIDE DEF FollowupId
  <2> QED
    BY <1>1, <1>2, <1>3, <1>4, <2>1, <2>2, <2>3, <2>4, CustodyPutBack
<1>8. RoundsInv' /\ DeferredInv'
  BY <1>1, RoundsContinue
<1>9. PredecessorsFirst'
  BY <1>3, PredecessorsKept
<1>10. SlowOnesWait'
  <2>1. next_wave'.heads = next_wave.heads
    <3>1. next_wave \in WavesOver(Ids)
      BY <1>1, ListsAreIds
    <3> QED
      BY <1>3, <3>1 DEF WavesOver
  <2> QED
    BY <1>1, <1>3, <1>4, <2>1, SlowKept
<1> QED
  BY <1>5, <1>6, <1>7, <1>8, <1>9, <1>10 DEF SchedulerInv

\* The instruction goes back to a list.
LEMMA SchedulerPutsBack ==
  ASSUME SchedulerInv, Typed',
         ApplyReschedules \/ ApplyDefers \/ ApplyDecomposes \/ ApplyFailsEarly \/ ApplyFails
  PROVE  SchedulerInv'
<1>1. /\ TypeOK /\ Typed /\ LinkedInv /\ CountedInv /\ CustodyInv /\ RoundsInv /\ DeferredInv
      /\ SlowOnesWait /\ ScopeInv /\ begun \subseteq Roots /\ ended \subseteq Roots
      /\ released \subseteq Roots /\ Roots \subseteq Ids
      /\ (attempt # Nobody => ~ loading)
  BY SchedulerFacts
<1>2. TypeOK' /\ Keeping
  BY DEF Typed, Keeping
<1>3. /\ attempt # Nobody /\ ~ loading
      /\ UNCHANGED <<program, dependency_counts, callers, round, released, ended, loading>>
  BY <1>1 DEF ApplyReschedules, ApplyDefers, ApplyDecomposes, ApplyFailsEarly, ApplyFails,
              Answered, constructed, history
<1>4. UNCHANGED begun \/ BeginRoot
  BY DEF ApplyReschedules, ApplyDefers, ApplyDecomposes, ApplyFailsEarly, ApplyFails, history
<1>5. LinkedInv'
  BY <1>1, <1>2, LinkedKept
<1>6. attempt.id \in Ids /\ Attempted.root \in Roots /\ attempt.id # 0
  <2>1. attempt.id \in Ids /\ Attempted.root \in Roots
    BY <1>1, <1>3, AttemptedIsRooted
  <2>2. Ids = 1 .. Len(records)
    BY <1>1, RootsAreIds DEF LinkedInv
  <2> QED
    BY <2>1, <2>2
<1>7. CountedInv'
  <2>1. begun' \subseteq Roots
    BY <1>1, <1>4, <1>6 DEF BeginRoot
  <2> QED
    BY <1>1, <1>2, <1>3, <2>1, CountedKept
<1>8. KeepsRecords
  BY <1>1, <1>2, RecordsAreKept
<1>9. \/ UNCHANGED <<attempt, current_wave, next_wave>>
       \/ /\ attempt' = Nobody /\ UNCHANGED next_wave
          /\ \/ current_wave' = [current_wave EXCEPT !.deferred = Append(@, attempt.id)]
             \/ current_wave' = [current_wave EXCEPT !.decomposed = Append(@, attempt.id)]
       \/ /\ attempt' = Nobody /\ UNCHANGED current_wave
          /\ \/ next_wave' = [next_wave EXCEPT !.proximate = Append(@, attempt.id)]
             \/ next_wave' = [next_wave EXCEPT !.heads = Append(@, attempt.id)]
  BY DEF ApplyReschedules, ApplyDefers, ApplyDecomposes, ApplyFailsEarly, ApplyFails
<1>10. CustodyInv'
  <2>1. CASE UNCHANGED <<attempt, current_wave, next_wave>>
    BY <1>1, <1>2, <1>3, <2>1, CustodyStays
  <2>2. CASE ~ UNCHANGED <<attempt, current_wave, next_wave>>
    <3>1. /\ OwnersKept /\ attempt.id \in Ids'
          /\ records'[attempt.id].root = Attempted.root
      BY <1>6, <1>8 DEF KeepsRecords, OwnersKept, Attempted
    <3>2. \A r \in Roots : dependency_counts'[r] = dependency_counts[r]
      BY <1>3
    <3> DEFINE i == attempt.id
    <3>3. /\ i \in Ids' /\ i # 0 /\ records'[i].root = Attempted.root
          /\ \/ /\ attempt' = Nobody /\ UNCHANGED next_wave
                /\ \/ current_wave' = [current_wave EXCEPT !.deferred = Append(@, i)]
                   \/ current_wave' = [current_wave EXCEPT !.decomposed = Append(@, i)]
             \/ /\ attempt' = Nobody /\ UNCHANGED current_wave
                /\ \/ next_wave' = [next_wave EXCEPT !.proximate = Append(@, i)]
                   \/ next_wave' = [next_wave EXCEPT !.heads = Append(@, i)]
      BY <1>6, <1>9, <2>2, <3>1
    <3> HIDE DEF i
    <3> QED
      BY <1>1, <1>2, <1>3, <3>1, <3>2, <3>3, CustodyPutBack
  <2> QED
    BY <2>1, <2>2
<1>11. RoundsInv' /\ DeferredInv'
  BY <1>1, RoundsReschedule, RoundsDefer, RoundsDecompose, RoundsFailEarly, RoundsFail
<1>12. PredecessorsFirst'
  BY <1>3, <1>4, PredecessorsKept
<1>13. SlowOnesWait'
  <2>1. \/ next_wave'.heads = next_wave.heads
        \/ next_wave'.heads = Append(next_wave.heads, attempt.id)
    <3>1. next_wave \in WavesOver(Ids)
      BY <1>1, ListsAreIds
    <3> QED
      BY <1>9, <3>1 DEF WavesOver
  <2> QED
    BY <1>1, <1>3, <1>6, <1>8, <2>1, SlowKept DEF KeepsRecords
<1> QED
  BY <1>5, <1>7, <1>10, <1>11, <1>12, <1>13 DEF SchedulerInv

\* A dependent is released.
LEMMA SchedulerReleases ==
  ASSUME SchedulerInv, Release, Typed'
  PROVE  SchedulerInv'
<1>1. /\ TypeOK /\ Typed /\ LinkedInv /\ CountedInv /\ CustodyInv /\ RoundsInv /\ DeferredInv
      /\ SlowOnesWait /\ ScopeInv /\ begun \subseteq Roots /\ ended \subseteq Roots
      /\ released \subseteq Roots /\ Roots \subseteq Ids
      /\ (callers # << >> => ~ loading)
  BY SchedulerFacts
<1>2. TypeOK' /\ Keeping
  BY DEF Typed, Keeping
<1>3. /\ attempt = Nobody /\ callers # << >>
      /\ UNCHANGED <<records, constructed, round, begun, ended>>
      /\ ~ loading
  BY <1>1, ReleaseTakes
<1>4. PICK e : Taken(e) /\ Freed(e)
  BY ReleaseTakes
<1>5. LinkedInv'
  BY <1>1, <1>2, LinkedKept
<1>6. CountedInv' /\ e[1] \in Roots
  BY <1>1, <1>3, <1>4, CountedReleases
<1>7. CustodyInv'
  BY <1>1, <1>2, <1>3, <1>4, CustodyReleases
<1>8. RoundsInv' /\ DeferredInv'
  BY <1>1, <1>3, <1>4, RoundsRelease
<1>9. PredecessorsFirst'
  BY <1>3, PredecessorsKept DEF constructed
<1>10. SlowOnesWait'
  BY <1>1, <1>3, <1>4, <1>6, SlowReleased
<1> QED
  BY <1>5, <1>6, <1>7, <1>8, <1>9, <1>10 DEF SchedulerInv

-----------------------------------------------------------------------------
\* The empty scheduler.
LEMMA InitScheduler == Init => SchedulerInv
<1> SUFFICES ASSUME Init
             PROVE  SchedulerInv
  OBVIOUS
<1>1. /\ records = << >> /\ dependency_counts = << >> /\ callers = << >> /\ program = << >>
      /\ current_wave = EmptyWave /\ next_wave = EmptyWave /\ attempt = Nobody
      /\ begun = {} /\ ended = {} /\ released = {} /\ round = "idle" /\ loading
      /\ last_instruction = [p \in Patches |-> 0]
  BY DEF Init
<1>2. Ids = {} /\ Roots = {} /\ Len(program) = 0 /\ Len(records) = 0 /\ DOMAIN callers = {}
  BY <1>1 DEF Ids, Roots
<1>3. Typed
  BY InitTyped
<1>4. LinkedInv
  BY <1>1, <1>2 DEF LinkedInv, OwnersInv, LinksInv, LastInv
<1>5. CountedInv
  BY <1>1, <1>2 DEF CountedInv, ScopeInv, FramesInv, CountsExact
<1>6. CustodyInv
  <2>1. \A a \in PlaceNames : DOMAIN Places[a] = {}
    BY <1>1, PlacesAre DEF EmptyWave, PlaceNames
  <2> QED
    BY <1>1, <1>2, <2>1, PlacesAre DEF CustodyInv, OnceIn
<1>7. RoundsInv /\ DeferredInv
  BY <1>1 DEF RoundsInv, DeferredInv, AtStage, EmptyWave
<1>8. PredecessorsFirst /\ SlowOnesWait
  BY <1>1 DEF PredecessorsFirst, SlowOnesWait
<1> QED
  BY <1>3, <1>4, <1>5, <1>6, <1>7, <1>8 DEF SchedulerInv

\* Steps that change nothing.
LEMMA SchedulerStutters ==
  ASSUME SchedulerInv, UNCHANGED vars, Typed'
  PROVE  SchedulerInv'
<1>1. /\ TypeOK /\ Typed /\ LinkedInv /\ CountedInv /\ CustodyInv /\ RoundsInv /\ DeferredInv
      /\ SlowOnesWait /\ ScopeInv /\ ended \subseteq Roots
  BY SchedulerFacts
<1>2. TypeOK' /\ Keeping
  BY DEF Typed, Keeping
<1>3. UNCHANGED <<records, dependency_counts, current_wave, next_wave, round, attempt, callers,
                  released, begun, ended, program, loading>>
  BY DEF vars, constructed, history
<1>4. LinkedInv'
  BY <1>1, <1>2, LinkedKept
<1>5. CountedInv'
  BY <1>1, <1>2, <1>3, CountedKept DEF ScopeInv
<1>6. CustodyInv'
  BY <1>1, <1>2, <1>3, CustodyStays
<1>7. RoundsInv' /\ DeferredInv'
  BY <1>1, <1>3 DEF RoundsInv, DeferredInv, AtStage, Attempted, EmptyWave, Nobody
<1>8. PredecessorsFirst'
  BY <1>3, PredecessorsKept
<1>9. SlowOnesWait'
  BY <1>1, <1>3 DEF SlowOnesWait
<1> QED
  BY <1>4, <1>5, <1>6, <1>7, <1>8, <1>9 DEF SchedulerInv

\* Every step of the scheduler.
LEMMA NextScheduler ==
  ASSUME GrowthMoves, SchedulerInv, [Next]_vars
  PROVE  SchedulerInv'
<1>1. Typed'
  BY NextTyped DEF SchedulerInv
<1> QED
  BY <1>1, SchedulerLoads, SchedulerTurns, SchedulerTakes, SchedulerEnds, SchedulerContinues,
     SchedulerPutsBack, SchedulerReleases, SchedulerStutters DEF Next, ScheduleStep, Apply

(***************************************************************************)
(* The invariant of the scheduler holds, whatever the program is and       *)
(* whatever the slice answers.                                             *)
(***************************************************************************)
THEOREM SchedulerCorrect ==
  ASSUME GrowthMoves
  PROVE  Spec => []SchedulerInv
<1>1. SchedulerInv /\ [Next]_vars => SchedulerInv'
  BY NextScheduler
<1> QED
  BY <1>1, InitScheduler, PTL DEF Spec

(***************************************************************************)
(* dependency_counts_ counts exactly the links that are not served yet,    *)
(* for any program, any nesting of the loops over dependents and any       *)
(* answers of the slice.                                                   *)
(***************************************************************************)
THEOREM CountsAreExact ==
  ASSUME GrowthMoves
  PROVE  Spec => []CountsExact
<1>1. SchedulerInv => CountsExact
  BY DEF SchedulerInv, CountedInv
<1> QED
  BY <1>1, SchedulerCorrect, PTL

(***************************************************************************)
(* The assertions on dependency_counts_ in schedule_instructions and in    *)
(* schedule_dependent_instructions hold, so that no count wraps around.    *)
(***************************************************************************)
THEOREM AssertionsHold ==
  ASSUME GrowthMoves
  PROVE  Spec => []AssertedCounts
<1>1. SchedulerInv => AssertedCounts
  <2> SUFFICES ASSUME SchedulerInv
               PROVE  AssertedCounts
    OBVIOUS
  <2>1. /\ TypeOK /\ LinkedInv /\ CountedInv /\ Roots \subseteq Ids
    BY SchedulerFacts
  <2>2. attempt # Nobody => dependency_counts[attempt.id] = 0
    BY AttemptIsReady
  <2>3. ASSUME NEW f \in DOMAIN callers, NEW e \in callers[f]
        PROVE  dependency_counts[e[1]] > 0
    <3>1. e \in Outstanding
      BY OutstandingIs DEF IsOutstanding
    <3>2. e[1] \in Ids /\ e[2] \in Patches /\ e = <<e[1], e[2]>>
      BY <2>1, <3>1, OutstandingIsTyped DEF CountedInv
    <3>3. Waiting(e[1]) # {}
      BY <3>1, <3>2 DEF Waiting
    <3>4. dependency_counts[e[1]] # 0
      BY <2>1, <3>2, <3>3, CountIsZero DEF CountedInv
    <3>5. dependency_counts[e[1]] \in Nat
      BY <2>1, <3>2 DEF TypeOK
    <3> QED
      BY <3>4, <3>5
  <2> QED
    BY <2>2, <2>3 DEF AssertedCounts
<1> QED
  BY <1>1, SchedulerCorrect, PTL

(***************************************************************************)
(* No instruction is lost and none is scheduled twice.                     *)
(***************************************************************************)
THEOREM CustodyIsKept ==
  ASSUME GrowthMoves
  PROVE  Spec => []Custody
<1>1. SchedulerInv => Custody
  BY CustodyIs DEF SchedulerInv, Typed
<1> QED
  BY <1>1, SchedulerCorrect, PTL

(***************************************************************************)
(* What is not immediate is left for the next wave.                        *)
(***************************************************************************)
THEOREM SlowOnesDoWait ==
  ASSUME GrowthMoves
  PROVE  Spec => []SlowOnesWait
<1>1. SchedulerInv => SlowOnesWait
  BY DEF SchedulerInv
<1> QED
  BY <1>1, SchedulerCorrect, PTL

\* A set of numbers has a least element.
LEMMA LeastNumber ==
  ASSUME NEW T, T \subseteq Nat, T # {}
  PROVE  \E m \in T : \A n \in T : m <= n
<1>1. PICK m \in T : \A n \in T : ~ (<<n, m>> \in OpToRel(<, Nat))
  BY NatLessThanWellFounded, WFMin
<1>2. ASSUME NEW n \in T
      PROVE  m <= n
  <2>1. ~ (n < m)
    BY <1>1 DEF OpToRel
  <2> QED
    BY <2>1
<1> QED
  BY <1>2

(***************************************************************************)
(* When both lists of the current wave are empty between two waves, every  *)
(* instruction has ended: the first one that has not ended would have to   *)
(* wait for an earlier one.                                                *)
(***************************************************************************)
THEOREM DoneIsTold ==
  ASSUME GrowthMoves
  PROVE  Spec => []DoneIsDone
<1>1. SchedulerInv => DoneIsDone
  <2> SUFFICES ASSUME SchedulerInv, ~ loading, round = "idle", Done, ended # Roots
               PROVE  FALSE
    BY DEF DoneIsDone
  <2>1. /\ TypeOK /\ LinkedInv /\ CountedInv /\ CustodyInv /\ RoundsInv /\ OwnersInv
        /\ ended \subseteq Roots /\ Roots \subseteq Ids
    BY SchedulerFacts
  <2>2. \A a \in PlaceNames : DOMAIN Places[a] = {}
    BY <2>1, PlacesAre DEF EmptyWave, PlaceNames, RoundsInv, Done
  <2>3. \A r : ~ HeldIn(Places, Owner, r)
    BY <2>2, PlacesAre DEF HeldIn
  <2>4. Roots \subseteq Nat
    BY <2>1, RootsAreIds
  <2>5. PICK m \in Roots \ ended : \A n \in Roots \ ended : m <= n
    BY <2>1, <2>4, LeastNumber
  <2>6. dependency_counts[m] # 0
    BY <2>1, <2>3, <2>5 DEF CustodyInv
  <2>7. Waiting(m) # {}
    BY <2>1, <2>5, <2>6, CountIsZero DEF CountedInv
  <2>8. PICK p \in Patches : <<m, p>> \in Outstanding
    BY <2>7 DEF Waiting
  <2>9. callers = << >>
    BY <2>1 DEF RoundsInv
  <2>10. PICK r \in Roots \ ended : <<m, p>> \in Links(r)
    BY <2>8, <2>9, OutstandingIs DEF IsOutstanding
  <2>11. r < <<m, p>>[1]
    BY <2>1, <2>10 DEF LinkedInv, LinksInv
  <2>12. r < m /\ r \in Nat /\ m \in Nat
    BY <2>4, <2>5, <2>10, <2>11
  <2> QED
    BY <2>5, <2>10, <2>12
<1> QED
  BY <1>1, SchedulerCorrect, PTL

-----------------------------------------------------------------------------
\* Every step of the scheduler is a step of PatchOrder, or changes nothing there.
LEMMA SchedulerOrders ==
  ASSUME SchedulerInv, [Next]_vars
  PROVE  [Order!Next]_Order!abstractVars
<1> USE DEF Order!abstractVars
<1>1. /\ TypeOK /\ ended \subseteq Roots /\ begun \subseteq Roots /\ ended \subseteq begun
      /\ DOMAIN program = Roots
  BY SchedulerFacts DEF TypeOK, Roots
<1>2. attempt # Nobody => /\ Attempted.root \in Roots \ ended
                          /\ Order!Before(Attempted.root) \subseteq ended
  BY AttemptIsReady
<1>3. ASSUME NEW ins \in Instructions, LoadInstruction(ins)
      PROVE  [Order!Next]_Order!abstractVars
  <2>1. Order!Read(ins.patches)
    BY <1>3 DEF LoadInstruction, Order!Read
  <2>2. ins.patches \in SUBSET Patches
    BY InstructionIsTyped
  <2> QED
    BY <2>1, <2>2 DEF Order!Next
<1>4. CASE ApplyEnds
  <2> DEFINE q == Attempted.root
  <2>1. attempt # Nobody /\ q \in Roots \ ended /\ Order!Before(q) \subseteq ended
    BY <1>2, <1>4 DEF ApplyEnds, Answered
  <2>2. begun' = begun \cup {q} /\ ended' = ended \cup {q} /\ UNCHANGED program
    BY <1>4 DEF ApplyEnds, BeginRoot, constructed
  <2> HIDE DEF q
  <2>3. CASE q \in begun
    <3>1. Order!End(q)
      BY <2>1, <2>2, <2>3 DEF Order!End
    <3> QED
      BY <1>1, <2>1, <3>1 DEF Order!Next
  <2>4. CASE q \notin begun
    <3>1. Order!BeginAndEnd(q)
      BY <1>1, <2>1, <2>2, <2>4 DEF Order!BeginAndEnd, Order!Ready
    <3> QED
      BY <1>1, <2>1, <3>1 DEF Order!Next
  <2> QED
    BY <2>3, <2>4
<1>5. CASE ApplyContinues \/ ApplyReschedules \/ ApplyDefers
  <2> DEFINE q == Attempted.root
  <2>1. attempt # Nobody /\ q \in Roots \ ended /\ Order!Before(q) \subseteq ended
    BY <1>2, <1>5 DEF ApplyContinues, ApplyReschedules, ApplyDefers, Answered
  <2>2. begun' = begun \cup {q} /\ UNCHANGED <<program, ended>>
    BY <1>5 DEF ApplyContinues, ApplyReschedules, ApplyDefers, BeginRoot, constructed
  <2> HIDE DEF q
  <2>3. CASE q \in begun
    BY <2>2, <2>3
  <2>4. CASE q \notin begun
    <3>1. Order!Begin(q)
      BY <1>1, <2>1, <2>2, <2>4 DEF Order!Begin, Order!Ready
    <3> QED
      BY <1>1, <2>1, <3>1 DEF Order!Next
  <2> QED
    BY <2>3, <2>4
<1>6. CASE UNCHANGED <<program, begun, ended>>
  BY <1>6
<1>7. CASE EndOfProgram \/ StartWave \/ NextRound \/ Take \/ EndWave \/ Release
  BY <1>6, <1>7 DEF EndOfProgram, StartWave, NextRound, Take, EndWave, Release, constructed, history
<1>8. CASE ApplyDecomposes \/ ApplyFails \/ ApplyFailsEarly \/ UNCHANGED vars
  BY <1>6, <1>8 DEF ApplyDecomposes, ApplyFails, ApplyFailsEarly, vars, constructed, history
<1> QED
  BY <1>3, <1>4, <1>5, <1>7, <1>8 DEF Next, Load, ScheduleStep, Apply

(***************************************************************************)
(* The wave pipelines run every program in patch order: the scheduler      *)
(* implements PatchOrder.                                                  *)
(***************************************************************************)
THEOREM WavesImplementPatchOrder ==
  ASSUME GrowthMoves
  PROVE  Spec => RunsInPatchOrder
<1>1. Init => Order!Init
  BY DEF Init, Order!Init
<1>2. SchedulerInv /\ [Next]_vars => [Order!Next]_Order!abstractVars
  BY SchedulerOrders
<1> QED
  BY <1>1, <1>2, SchedulerCorrect, PTL DEF Spec, RunsInPatchOrder, Order!Spec

=============================================================================
