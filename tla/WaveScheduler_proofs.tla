------------------------ MODULE WaveScheduler_proofs ------------------------
(***************************************************************************)
(* What holds of the wave scheduler for every program, every set of        *)
(* patches, with and without EDPC, and however records_ grows.             *)
(*                                                                         *)
(* The type invariant says that every reference is a live one: the lists   *)
(* of both waves, the attempt, the loops over dependents and the history   *)
(* only name instructions that records_ holds.  It is not inductive by     *)
(* itself: the first deferred round marks an instruction as decomposed,    *)
(* and that stage exists with EDPC only.  RoundsOfMode supplies this.      *)
(*                                                                         *)
(* First come facts about sequences and waves, then one lemma per action.  *)
(* The second half is about the order of instructions.                     *)
(***************************************************************************)
EXTENDS WaveScheduler, FiniteSetTheorems, TLAPS

\* What the constructor copies from an instruction fits a record.
LEMMA InstructionIsTyped ==
  ASSUME NEW ins \in Instructions
  PROVE  /\ ins.kind \in Kinds
         /\ ins.wait \in Nat
         /\ ins.patches \in SUBSET Patches
BY InstructionsAssumption, BoundsAssumption DEF Kinds

\* The stages that the actions assign are stages.
LEMMA StagesAreTyped ==
  /\ LastStage \in Nat
  /\ {0, 1, 2} \subseteq Nat
  /\ 0 \in 0 .. LastStage /\ 1 \in 0 .. LastStage
  /\ EDPC => 2 \in 0 .. LastStage
BY BoundsAssumption DEF LastStage, FirstStage

\* A sequence over a set is one over a larger set.
LEMMA SequencesWiden ==
  ASSUME NEW S, NEW T, S \subseteq T, NEW s \in Seq(S)
  PROVE  s \in Seq(T)
OBVIOUS

\* A wave over a set of ids is one over a larger set: records_ only grows.
LEMMA WavesWiden ==
  ASSUME NEW S, NEW T, S \subseteq T,
         NEW w \in [proximate: Seq(S), heads: Seq(S), deferred: Seq(S), decomposed: Seq(S)]
  PROVE  w \in [proximate: Seq(T), heads: Seq(T), deferred: Seq(T), decomposed: Seq(T)]
<1>1. ASSUME NEW s \in Seq(S)
      PROVE  s \in Seq(T)
  BY <1>1
<1> QED
  BY <1>1

WavesOver(S) == [proximate: Seq(S), heads: Seq(S), deferred: Seq(S), decomposed: Seq(S)]

\* push_back stays within the element type.
LEMMA AppendTyped ==
  ASSUME NEW S, NEW s \in Seq(S), NEW e \in S
  PROVE  Append(s, e) \in Seq(S)
OBVIOUS

\* So does dropping the first element.
LEMMA TailTyped ==
  ASSUME NEW S, NEW s \in Seq(S), s # << >>
  PROVE  Tail(s) \in Seq(S)
OBVIOUS

\* Replacing one list of a wave.
LEMMA WaveReplaced ==
  ASSUME NEW S, NEW w \in WavesOver(S), NEW s \in Seq(S)
  PROVE  /\ [w EXCEPT !.proximate = s] \in WavesOver(S)
         /\ [w EXCEPT !.heads = s] \in WavesOver(S)
         /\ [w EXCEPT !.deferred = s] \in WavesOver(S)
         /\ [w EXCEPT !.decomposed = s] \in WavesOver(S)
<1> DEFINE T == Seq(S)
<1>1. w \in [proximate: T, heads: T, deferred: T, decomposed: T] /\ s \in T
  BY DEF WavesOver
<1> HIDE DEF T
<1>2. /\ [w EXCEPT !.proximate = s] \in [proximate: T, heads: T, deferred: T, decomposed: T]
      /\ [w EXCEPT !.heads = s] \in [proximate: T, heads: T, deferred: T, decomposed: T]
      /\ [w EXCEPT !.deferred = s] \in [proximate: T, heads: T, deferred: T, decomposed: T]
      /\ [w EXCEPT !.decomposed = s] \in [proximate: T, heads: T, deferred: T, decomposed: T]
  BY <1>1
<1> QED
  BY <1>2 DEF T, WavesOver

\* Appending an id to one list of a wave.
LEMMA WaveAppended ==
  ASSUME NEW S, NEW w \in WavesOver(S), NEW i \in S
  PROVE  /\ [w EXCEPT !.proximate = Append(@, i)] \in WavesOver(S)
         /\ [w EXCEPT !.heads = Append(@, i)] \in WavesOver(S)
         /\ [w EXCEPT !.deferred = Append(@, i)] \in WavesOver(S)
         /\ [w EXCEPT !.decomposed = Append(@, i)] \in WavesOver(S)
<1>1. /\ w.proximate \in Seq(S) /\ w.heads \in Seq(S)
      /\ w.deferred \in Seq(S) /\ w.decomposed \in Seq(S)
  BY DEF WavesOver
<1>2. /\ Append(w.proximate, i) \in Seq(S) /\ Append(w.heads, i) \in Seq(S)
      /\ Append(w.deferred, i) \in Seq(S) /\ Append(w.decomposed, i) \in Seq(S)
  BY <1>1, AppendTyped
<1> QED
  BY <1>2, WaveReplaced

Attempts == [id: Ids, origin: {"list", "dependent", "followup"}] \cup {Nobody}

\* What is attempted is an instruction that records_ holds.
LEMMA AttemptedIsTyped ==
  ASSUME TypeOK, attempt # Nobody
  PROVE  attempt.id \in Ids /\ Attempted \in RecordType
<1>1. attempt.id \in Ids
  BY DEF TypeOK
<1>2. records \in Seq(RecordType)
  BY DEF TypeOK
<1> QED
  BY <1>1, <1>2 DEF Ids, Attempted

\* Actions that leave records_ alone.
LEMMA EndOfProgramTyped == TypeOK /\ EndOfProgram => TypeOK'
BY DEF TypeOK, EndOfProgram, Ids, WaveType, Edges, RecordType, Rounds, history

LEMMA StartWaveTyped == TypeOK /\ StartWave => TypeOK'
BY DEF TypeOK, StartWave, Ids, WaveType, Edges, RecordType, Rounds, constructed, Done

LEMMA NextRoundTyped == TypeOK /\ NextRound => TypeOK'
BY DEF TypeOK, NextRound, Ids, WaveType, Edges, RecordType, Rounds, constructed, history

LEMMA EndWaveTyped ==
  ASSUME TypeOK, EndWave
  PROVE  TypeOK'
<1>1. UNCHANGED records /\ Ids' = Ids
  BY DEF EndWave, Ids
<1>2. current_wave' \in WaveType /\ next_wave' \in WaveType
  <2>1. EmptyWave \in WaveType
    BY DEF EmptyWave, WaveType
  <2> QED
    BY <2>1 DEF EndWave, SwappedIn, TypeOK
<1>3. round' \in Rounds
  BY DEF EndWave, Rounds
<1> QED
  BY <1>1, <1>2, <1>3 DEF TypeOK, EndWave, WaveType, Edges, RecordType, constructed, history

LEMMA TakeTyped ==
  ASSUME TypeOK, Take
  PROVE  TypeOK'
<1>1. UNCHANGED records /\ Ids' = Ids
  BY DEF Take, Ids
<1>2. round \in {"proximate", "heads", "decompose", "apply"}
  BY DEF Take, TypeOK, Rounds
<1>3. ListOf[round] \in Seq(Ids) /\ ListOf[round] # << >>
  BY <1>2 DEF ListOf, TypeOK, WaveType, Take
<1>4. attempt' \in Attempts
  BY <1>3 DEF Take, Attempts
<1>5. current_wave' \in WaveType
  <2>1. CASE round = "proximate"
    <3>1. current_wave' = [current_wave EXCEPT !.proximate = Tail(@)]
      BY <2>1 DEF Take
    <3>2. current_wave.proximate \in Seq(Ids) /\ current_wave.proximate # << >>
      BY <1>3, <2>1 DEF ListOf
    <3>3. Tail(current_wave.proximate) \in Seq(Ids)
      BY <3>2, TailTyped
    <3>4. current_wave \in WavesOver(Ids)
      BY DEF TypeOK, WaveType, WavesOver
    <3>5. [current_wave EXCEPT !.proximate = Tail(current_wave.proximate)] \in WavesOver(Ids)
      BY <3>3, <3>4, WaveReplaced
    <3> QED
      BY <3>1, <3>5 DEF WaveType, WavesOver
  <2>2. CASE round = "heads"
    <3>1. current_wave' = [current_wave EXCEPT !.heads = Tail(@)]
      BY <2>2 DEF Take
    <3>2. current_wave.heads \in Seq(Ids) /\ current_wave.heads # << >>
      BY <1>3, <2>2 DEF ListOf
    <3>3. Tail(current_wave.heads) \in Seq(Ids)
      BY <3>2, TailTyped
    <3>4. current_wave \in WavesOver(Ids)
      BY DEF TypeOK, WaveType, WavesOver
    <3>5. [current_wave EXCEPT !.heads = Tail(current_wave.heads)] \in WavesOver(Ids)
      BY <3>3, <3>4, WaveReplaced
    <3> QED
      BY <3>1, <3>5 DEF WaveType, WavesOver
  <2>3. CASE round = "decompose"
    <3>1. current_wave' = [current_wave EXCEPT !.deferred = Tail(@)]
      BY <2>3 DEF Take
    <3>2. current_wave.deferred \in Seq(Ids) /\ current_wave.deferred # << >>
      BY <1>3, <2>3 DEF ListOf
    <3>3. Tail(current_wave.deferred) \in Seq(Ids)
      BY <3>2, TailTyped
    <3>4. current_wave \in WavesOver(Ids)
      BY DEF TypeOK, WaveType, WavesOver
    <3>5. [current_wave EXCEPT !.deferred = Tail(current_wave.deferred)] \in WavesOver(Ids)
      BY <3>3, <3>4, WaveReplaced
    <3> QED
      BY <3>1, <3>5 DEF WaveType, WavesOver
  <2>4. CASE round = "apply"
    <3>1. current_wave' = [current_wave EXCEPT !.decomposed = Tail(@)]
      BY <2>4 DEF Take
    <3>2. current_wave.decomposed \in Seq(Ids) /\ current_wave.decomposed # << >>
      BY <1>3, <2>4 DEF ListOf
    <3>3. Tail(current_wave.decomposed) \in Seq(Ids)
      BY <3>2, TailTyped
    <3>4. current_wave \in WavesOver(Ids)
      BY DEF TypeOK, WaveType, WavesOver
    <3>5. [current_wave EXCEPT !.decomposed = Tail(current_wave.decomposed)] \in WavesOver(Ids)
      BY <3>3, <3>4, WaveReplaced
    <3> QED
      BY <3>1, <3>5 DEF WaveType, WavesOver
  <2> QED
    BY <1>2, <2>1, <2>2, <2>3, <2>4
<1> QED
  BY <1>1, <1>4, <1>5
     DEF TypeOK, Take, WaveType, Edges, RecordType, Rounds, Attempts, constructed, history

\* Counting an applied instruction.
LEMMA CountedIsTyped ==
  ASSUME TypeOK, Counted
  PROVE  applied' \in BOOLEAN
BY DEF Counted

\* Noting that an instruction has begun.
LEMMA RootIsTyped ==
  ASSUME TypeOK, attempt # Nobody, BeginRoot
  PROVE  begun' \subseteq Ids /\ begun \subseteq begun' /\ Attempted.root \in begun'
<1>1. Attempted.root \in Ids
  BY AttemptedIsTyped DEF RecordType
<1> QED
  BY <1>1 DEF BeginRoot, TypeOK

LEMMA ApplyEndsTyped ==
  ASSUME TypeOK, ApplyEnds
  PROVE  TypeOK'
<1>1. UNCHANGED records /\ Ids' = Ids
  BY DEF ApplyEnds, Ids
<1>2. attempt # Nobody
  BY DEF ApplyEnds, Answered
<1>3. applied' \in BOOLEAN
  BY CountedIsTyped DEF ApplyEnds
<1>4. begun' \subseteq Ids /\ ended' \subseteq begun'
  <2>1. begun' \subseteq Ids /\ begun \subseteq begun' /\ Attempted.root \in begun'
    BY <1>2, RootIsTyped DEF ApplyEnds
  <2> QED
    BY <2>1 DEF ApplyEnds, TypeOK
<1>5. callers' \in Seq(SUBSET Edges)
  <2>1. Attempted.dependents \in SUBSET Edges
    BY <1>2, AttemptedIsTyped DEF RecordType
  <2>2. callers \in Seq(SUBSET Edges)
    BY DEF TypeOK
  <2>3. <<Attempted.dependents>> \o callers \in Seq(SUBSET Edges)
    <3> DEFINE d == Attempted.dependents
               T == SUBSET Edges
    <3>1. d \in T /\ callers \in Seq(T)
      BY <2>1, <2>2
    <3> HIDE DEF d, T
    <3>2. <<d>> \o callers \in Seq(T)
      BY <3>1
    <3> QED
      BY <3>2 DEF d, T
  <2> QED
    BY <2>2, <2>3 DEF ApplyEnds
<1> QED
  BY <1>1, <1>3, <1>4, <1>5
     DEF TypeOK, ApplyEnds, WaveType, Edges, RecordType, Rounds, constructed

\* Overwriting one record keeps the ids and the edges.
LEMMA ReplacingRecords ==
  ASSUME TypeOK, NEW i \in Ids, NEW r \in RecordType, records' = [records EXCEPT ![i] = r]
  PROVE  records' \in Seq(RecordType)' /\ Ids' = Ids /\ RecordType' = RecordType
<1>1. records \in Seq(RecordType)
  BY DEF TypeOK
<1>2. records' \in Seq(RecordType) /\ Ids' = Ids
  BY <1>1 DEF Ids
<1>3. RecordType' = RecordType
  BY <1>2 DEF RecordType, Edges
<1> QED
  BY <1>2, <1>3

\* Actions that overwrite the record of the attempt.
LEMMA ApplyReschedulesTyped ==
  ASSUME TypeOK, ApplyReschedules
  PROVE  TypeOK'
<1>0. PICK stage \in StagesAfter(Attempted) :
        records' = [records EXCEPT ![attempt.id].stage = stage]
  BY DEF ApplyReschedules
<1> DEFINE r == [Attempted EXCEPT !.stage = stage]
<1>1. attempt # Nobody /\ attempt.id \in Ids /\ Attempted \in RecordType
  BY AttemptedIsTyped DEF ApplyReschedules, Answered
<1>2. r \in RecordType
  <2>1. Attempted.stage \in 0 .. LastStage /\ LastStage \in Nat
    BY <1>1, StagesAreTyped DEF RecordType
  <2>2. stage \in 0 .. LastStage
    BY <1>0, <2>1 DEF StagesAfter
  <2> QED
    BY <1>1, <2>2 DEF RecordType
<1>3. records' = [records EXCEPT ![attempt.id] = r]
  BY <1>0 DEF Attempted
<1>4. records' \in Seq(RecordType)' /\ Ids' = Ids /\ RecordType' = RecordType
  <2> HIDE DEF r
  <2> QED
    BY <1>1, <1>2, <1>3, ReplacingRecords
<1>5. next_wave' \in WaveType
  <2>1. next_wave \in WavesOver(Ids)
    BY DEF TypeOK, WaveType, WavesOver
  <2>2. next_wave' \in WavesOver(Ids)
    BY <1>1, <2>1, WaveAppended DEF ApplyReschedules
  <2> QED
    BY <2>2 DEF WaveType, WavesOver
<1>6. applied' \in BOOLEAN
  BY CountedIsTyped DEF ApplyReschedules
<1>7. begun' \subseteq Ids /\ ended' \subseteq begun'
  BY <1>1, RootIsTyped DEF ApplyReschedules, TypeOK
<1> QED
  BY <1>4, <1>5, <1>6, <1>7
     DEF TypeOK, ApplyReschedules, WaveType, Edges, Rounds, constructed

LEMMA ApplyDefersTyped ==
  ASSUME TypeOK, ApplyDefers
  PROVE  TypeOK'
<1> DEFINE r == [Attempted EXCEPT !.stage = 1]
<1>1. attempt # Nobody /\ attempt.id \in Ids /\ Attempted \in RecordType
  BY AttemptedIsTyped DEF ApplyDefers, Answered
<1>2. r \in RecordType
  BY <1>1, StagesAreTyped DEF RecordType
<1>3. records' = [records EXCEPT ![attempt.id] = r]
  BY DEF ApplyDefers, Attempted
<1>4. records' \in Seq(RecordType)' /\ Ids' = Ids /\ RecordType' = RecordType
  <2> HIDE DEF r
  <2> QED
    BY <1>1, <1>2, <1>3, ReplacingRecords
<1>5. current_wave' \in WaveType
  <2>1. current_wave \in WavesOver(Ids)
    BY DEF TypeOK, WaveType, WavesOver
  <2>2. current_wave' \in WavesOver(Ids)
    BY <1>1, <2>1, WaveAppended DEF ApplyDefers
  <2> QED
    BY <2>2 DEF WaveType, WavesOver
<1>6. begun' \subseteq Ids /\ ended' \subseteq begun'
  BY <1>1, RootIsTyped DEF ApplyDefers, TypeOK
<1> QED
  BY <1>4, <1>5, <1>6
     DEF TypeOK, ApplyDefers, WaveType, Edges, Rounds, constructed

LEMMA ApplyDecomposesTyped ==
  ASSUME TypeOK, ApplyDecomposes, LastStage >= 2
  PROVE  TypeOK'
<1> DEFINE r == [Attempted EXCEPT !.stage = 2]
<1>1. attempt # Nobody /\ attempt.id \in Ids /\ Attempted \in RecordType
  BY AttemptedIsTyped DEF ApplyDecomposes, Answered
<1>2. r \in RecordType
  BY <1>1, StagesAreTyped DEF RecordType
<1>3. records' = [records EXCEPT ![attempt.id] = r]
  BY DEF ApplyDecomposes, Attempted
<1>4. records' \in Seq(RecordType)' /\ Ids' = Ids /\ RecordType' = RecordType
  <2> HIDE DEF r
  <2> QED
    BY <1>1, <1>2, <1>3, ReplacingRecords
<1>5. current_wave' \in WaveType
  <2>1. current_wave \in WavesOver(Ids)
    BY DEF TypeOK, WaveType, WavesOver
  <2>2. current_wave' \in WavesOver(Ids)
    BY <1>1, <2>1, WaveAppended DEF ApplyDecomposes
  <2> QED
    BY <2>2 DEF WaveType, WavesOver
<1> QED
  BY <1>4, <1>5
     DEF TypeOK, ApplyDecomposes, WaveType, Edges, Rounds, constructed, history

LEMMA ApplyFailsTyped ==
  ASSUME TypeOK, ApplyFails
  PROVE  TypeOK'
<1>1. attempt # Nobody /\ attempt.id \in Ids /\ Attempted \in RecordType
  BY AttemptedIsTyped DEF ApplyFails, Answered
<1>2. CASE round = "proximate" \/ Attempted.wait = 0
  <2>1. UNCHANGED <<records, next_wave, attempt>> /\ Ids' = Ids
    BY <1>2 DEF ApplyFails, Ids
  <2>2. status' \in {"running", "proximate failed", "out of retries"}
    BY <1>2 DEF ApplyFails
  <2> QED
    BY <2>1, <2>2
       DEF TypeOK, ApplyFails, WaveType, Edges, RecordType, Rounds, constructed,
           history
<1>3. CASE ~(round = "proximate" \/ Attempted.wait = 0)
  <2> DEFINE r == [Attempted EXCEPT !.wait = WaitedOnce(@)]
  <2>1. r \in RecordType
    <3>1. Attempted.wait \in Nat /\ Attempted.wait # 0
      BY <1>1, <1>3 DEF RecordType
    <3>2. WaitedOnce(Attempted.wait) \in Nat
      BY <3>1 DEF WaitedOnce
    <3> QED
      BY <1>1, <3>2 DEF RecordType
  <2>2. records' = [records EXCEPT ![attempt.id] = r]
    BY <1>3 DEF ApplyFails, Attempted
  <2>3. records' \in Seq(RecordType)' /\ Ids' = Ids /\ RecordType' = RecordType
    <3> HIDE DEF r
    <3> QED
      BY <1>1, <2>1, <2>2, ReplacingRecords
  <2>4. next_wave' \in WaveType
    <3>1. next_wave \in WavesOver(Ids)
      BY DEF TypeOK, WaveType, WavesOver
    <3>2. next_wave' = [next_wave EXCEPT !.heads = Append(@, attempt.id)]
      BY <1>3 DEF ApplyFails
    <3>3. next_wave' \in WavesOver(Ids)
      BY <1>1, <3>1, <3>2, WaveAppended
    <3> QED
      BY <3>3 DEF WaveType, WavesOver
  <2>5. attempt' = Nobody /\ UNCHANGED status
    BY <1>3 DEF ApplyFails
  <2> QED
    BY <2>3, <2>4, <2>5
       DEF TypeOK, ApplyFails, WaveType, Edges, Rounds, constructed, history
<1> QED
  BY <1>2, <1>3

\* An early attempt that fails only moves an id.
LEMMA ApplyFailsEarlyTyped ==
  ASSUME TypeOK, ApplyFailsEarly
  PROVE  TypeOK'
<1>1. attempt # Nobody /\ attempt.id \in Ids
  BY AttemptedIsTyped DEF ApplyFailsEarly, Answered
<1>2. UNCHANGED records /\ Ids' = Ids
  BY DEF ApplyFailsEarly, Ids
<1>3. next_wave' \in WaveType
  <2>1. next_wave \in WavesOver(Ids)
    BY DEF TypeOK, WaveType, WavesOver
  <2>2. next_wave' \in WavesOver(Ids)
    BY <1>1, <2>1, WaveAppended DEF ApplyFailsEarly
  <2> QED
    BY <2>2 DEF WaveType, WavesOver
<1> QED
  BY <1>2, <1>3
     DEF TypeOK, ApplyFailsEarly, WaveType, Edges, RecordType, Rounds, constructed, history


\* A record is pushed back: every id and every edge stays one.
LEMMA RecordsGrow ==
  ASSUME TypeOK, Len(records') = Len(records) + 1, DOMAIN records' = 1 .. Len(records')
  PROVE  /\ Len(records) + 1 \in Ids'
         /\ Ids \subseteq Ids' /\ Ids = 1 .. Len(records) /\ Ids' = 1 .. Len(records) + 1
         /\ RecordType \subseteq RecordType' /\ Edges \subseteq Edges'
         /\ SUBSET Edges \subseteq (SUBSET Edges)'
<1>1. Len(records) \in Nat /\ Ids = 1 .. Len(records)
  <2>1. records \in Seq(RecordType)
    BY DEF TypeOK
  <2> QED
    BY <2>1 DEF Ids
<1>2. Ids' = 1 .. Len(records) + 1
  BY DEF Ids
<1>3. Ids \subseteq Ids' /\ Len(records) + 1 \in Ids'
  BY <1>1, <1>2
<1>4. Edges \subseteq Edges'
  BY <1>3 DEF Edges
<1> QED
  BY <1>1, <1>2, <1>3, <1>4 DEF RecordType

\* Functions on an interval from 1 and sequences are the same.
LEMMA FunctionsAreSequences ==
  ASSUME NEW S, NEW n \in Nat, NEW f, DOMAIN f = 1 .. n, f = [i \in 1 .. n |-> f[i]],
         \A i \in 1 .. n : f[i] \in S
  PROVE  f \in Seq(S) /\ Len(f) = n
OBVIOUS

LEMMA SequencesAreFunctions ==
  ASSUME NEW S, NEW s \in Seq(S)
  PROVE  s \in [1 .. Len(s) -> S]
OBVIOUS

\* dependency_counts_ grows with records_.
LEMMA CountsGrow ==
  ASSUME TypeOK, NEW c \in Nat, dependency_counts' = Append(dependency_counts, c),
         Ids' = 1 .. Len(records) + 1
  PROVE  dependency_counts' \in [Ids' -> Nat]
<1>1. Len(records) \in Nat /\ Ids = 1 .. Len(records)
  <2>1. records \in Seq(RecordType)
    BY DEF TypeOK
  <2> QED
    BY <2>1 DEF Ids
<1> DEFINE n == Len(records)
           counts == dependency_counts
<1>2. n \in Nat /\ counts \in [1 .. n -> Nat]
  BY <1>1 DEF TypeOK
<1> HIDE DEF n, counts
<1>3. DOMAIN counts = 1 .. n /\ counts = [i \in 1 .. n |-> counts[i]]
      /\ \A i \in 1 .. n : counts[i] \in Nat
  BY <1>2
<1>4. counts \in Seq(Nat) /\ Len(counts) = n
  BY <1>2, <1>3, FunctionsAreSequences
<1>5. Append(counts, c) \in Seq(Nat)
  BY <1>4, AppendTyped
<1>6. Len(Append(counts, c)) = n + 1
  BY <1>4
<1>7. Append(counts, c) \in [1 .. Len(Append(counts, c)) -> Nat]
  BY <1>5, SequencesAreFunctions
<1> QED
  BY <1>6, <1>7 DEF n, counts

\* What refers to ids still does when there are more of them.
LEMMA RestGrows ==
  ASSUME TypeOK, Ids \subseteq Ids'
  PROVE  /\ Attempts \subseteq Attempts'
         /\ \A w \in WavesOver(Ids) : w \in WavesOver(Ids')
BY WavesWiden DEF WavesOver, Attempts

\* Actions that push a record back.
LEMMA LoadInstructionTyped ==
  ASSUME TypeOK, NEW ins \in Instructions, LoadInstruction(ins)
  PROVE  TypeOK'
<1> DEFINE id == Len(records) + 1
           shared == {p \in ins.patches : last_instruction[p] # 0}
           linked(i) == {<<id, p>> : p \in {q \in shared : last_instruction[q] = i}}
           old == [i \in Ids |-> [records[i] EXCEPT !.dependents = @ \cup linked(i)]]
           new == [kind |-> ins.kind, wait |-> ins.wait, stage |-> 0,
                   dependents |-> {}, root |-> id]
<1>1. /\ records' = Append(old, new)
      /\ dependency_counts' = Append(dependency_counts, CountLinks(shared))
      /\ last_instruction' = LastOnPatch(ins, id)
      /\ current_wave' = IF shared = {} THEN [current_wave EXCEPT !.heads = Append(@, id)]
                         ELSE current_wave
      /\ program' = Append(program, ins.patches)
      /\ UNCHANGED <<loading, next_wave, round, attempt, callers, applied,
                     status, released, begun, ended>>
  BY DEF LoadInstruction
<1>2. ins.kind \in Kinds /\ ins.wait \in Nat /\ ins.patches \in SUBSET Patches
  BY InstructionIsTyped
<1>3. shared \in SUBSET Patches
  BY <1>2
<1> HIDE DEF shared
<1>4. Len(records) \in Nat /\ Ids = 1 .. Len(records) /\ records \in Seq(RecordType)
  <2>1. records \in Seq(RecordType)
    BY DEF TypeOK
  <2> QED
    BY <2>1 DEF Ids
<1>5. Len(old) = Len(records) /\ old \in Seq({old[i] : i \in Ids})
  <2>1. DOMAIN old = 1 .. Len(records) /\ old = [i \in 1 .. Len(records) |-> old[i]]
    BY <1>4
  <2>2. \A i \in 1 .. Len(records) : old[i] \in {old[j] : j \in Ids}
    BY <1>4
  <2> HIDE DEF old
  <2> QED
    BY <1>4, <2>1, <2>2, FunctionsAreSequences
<1>6. Len(records') = Len(records) + 1 /\ DOMAIN records' = 1 .. Len(records')
  <2> HIDE DEF old, new
  <2> QED
    BY <1>1, <1>4, <1>5
<1>7. /\ Len(records) + 1 \in Ids'
      /\ Ids \subseteq Ids' /\ Ids = 1 .. Len(records) /\ Ids' = 1 .. Len(records) + 1
      /\ RecordType \subseteq RecordType' /\ Edges \subseteq Edges'
      /\ SUBSET Edges \subseteq (SUBSET Edges)'
  BY <1>6, RecordsGrow
<1>8. records' \in Seq(RecordType)'
  <2>1. new \in RecordType'
    BY <1>2, <1>7, StagesAreTyped DEF RecordType
  <2>2. ASSUME NEW i \in Ids
        PROVE  old[i] \in RecordType'
    <3>1. records[i] \in RecordType'
      BY <1>4, <1>7
    <3>2. linked(i) \subseteq Edges'
      BY <1>3, <1>7 DEF Edges
    <3> HIDE DEF linked
    <3> QED
      BY <3>1, <3>2 DEF RecordType
  <2>3. old \in Seq(RecordType')
    <3> DEFINE T == RecordType'
    <3>1. \A i \in 1 .. Len(records) : old[i] \in T
      BY <2>2, <1>4
    <3>2. old = [i \in 1 .. Len(records) |-> old[i]]
      BY <1>4
    <3> HIDE DEF old, T
    <3>3. old \in Seq(T)
      BY <1>4, <3>1, <3>2
    <3> QED
      BY <3>3 DEF T
  <2> HIDE DEF old, new
  <2> QED
    BY <1>1, <2>1, <2>3, AppendTyped
<1>9. dependency_counts' \in [Ids' -> Nat]
  <2>1. CountLinks(shared) \in Nat
    BY <1>3, PatchesAssumption, FS_Subset, FS_CardinalityType DEF CountLinks
  <2> QED
    BY <1>1, <1>7, <2>1, CountsGrow
<1>10. last_instruction' \in [Patches -> Ids' \cup {0}]
  BY <1>1, <1>7 DEF LastOnPatch, TypeOK
<1>11. current_wave' \in WavesOver(Ids') /\ next_wave' \in WavesOver(Ids')
  <2>1. current_wave \in WavesOver(Ids) /\ next_wave \in WavesOver(Ids)
    BY DEF TypeOK, WaveType, WavesOver
  <2>2. current_wave \in WavesOver(Ids') /\ next_wave \in WavesOver(Ids')
    BY <1>7, <2>1, RestGrows
  <2>3. [current_wave EXCEPT !.heads = Append(@, id)] \in WavesOver(Ids')
    BY <1>7, <2>2, WaveAppended
  <2> QED
    BY <1>1, <2>2, <2>3
<1>12. attempt' \in Attempts'
  BY <1>1, <1>7, RestGrows DEF TypeOK, Attempts
<1>13. callers' \in Seq((SUBSET Edges)')
  BY <1>1, <1>7, SequencesWiden DEF TypeOK
<1>14. program' \in Seq(SUBSET Patches)
  BY <1>1, <1>2, AppendTyped DEF TypeOK
<1>15. released' \subseteq Ids' /\ begun' \subseteq Ids' /\ ended' \subseteq begun'
  BY <1>1, <1>7 DEF TypeOK
<1> QED
  <2> HIDE DEF id, old, new, linked
  <2> QED
  BY <1>1, <1>8, <1>9, <1>10, <1>11, <1>12, <1>13, <1>14, <1>15
     DEF TypeOK, WaveType, WavesOver, Attempts

LEMMA ApplyContinuesTyped ==
  ASSUME TypeOK, ApplyContinues
  PROVE  TypeOK'
<1> DEFINE kind == Followup(Attempted.kind)
           new == [kind |-> kind, wait |-> DEFAULT_MAX_WAIT, stage |-> 0,
                   root |-> Attempted.root, dependents |-> Attempted.dependents]
<1>1. attempt # Nobody /\ attempt.id \in Ids /\ Attempted \in RecordType
  BY AttemptedIsTyped DEF ApplyContinues, Answered
<1>2. records' = Append(records, new) /\ dependency_counts' = Append(dependency_counts, 0)
  BY DEF ApplyContinues
<1>3. Len(records) \in Nat /\ Ids = 1 .. Len(records) /\ records \in Seq(RecordType)
  <2>1. records \in Seq(RecordType)
    BY DEF TypeOK
  <2> QED
    BY <2>1 DEF Ids
<1>4. Len(records') = Len(records) + 1 /\ DOMAIN records' = 1 .. Len(records')
  <2> HIDE DEF new
  <2> QED
    BY <1>2, <1>3
<1>5. /\ Len(records) + 1 \in Ids'
      /\ Ids \subseteq Ids' /\ Ids = 1 .. Len(records) /\ Ids' = 1 .. Len(records) + 1
      /\ RecordType \subseteq RecordType' /\ Edges \subseteq Edges'
      /\ SUBSET Edges \subseteq (SUBSET Edges)'
  BY <1>4, RecordsGrow
<1>6. new \in RecordType
  <2>1. Attempted.kind \in {"S", "Rotate", "Busy2", "Busy1"}
    BY <1>1 DEF ApplyContinues, Answered, Answers, CNOTAnswers, RecordType, Kinds,
                ProgramKinds, BusyKinds
  <2>2. kind \in Kinds
    BY <2>1 DEF Followup, Kinds, ProgramKinds, BusyKinds
  <2> HIDE DEF kind
  <2> QED
    BY <1>1, <2>2, StagesAreTyped, BoundsAssumption DEF RecordType
<1>7. records' \in Seq(RecordType)'
  <2> HIDE DEF new
  <2>1. records \in Seq(RecordType')
    BY <1>3, <1>5, SequencesWiden
  <2>2. new \in RecordType'
    BY <1>5, <1>6
  <2> QED
    BY <1>2, <2>1, <2>2, AppendTyped
<1>8. dependency_counts' \in [Ids' -> Nat]
  BY <1>2, <1>5, CountsGrow
<1>9. callers' \in Seq((SUBSET Edges)')
  <2>1. callers \in Seq(SUBSET Edges)
    BY DEF TypeOK
  <2>2. callers' \in Seq(SUBSET Edges)
    <3>1. CASE GrowthMoves \/ ~Full
      BY <2>1, <3>1 DEF ApplyContinues, AfterGrowth
    <3>2. CASE ~(GrowthMoves \/ ~Full)
      <4>1. PICK read \in [DOMAIN callers ->
                     [UNION {callers[f] : f \in DOMAIN callers} -> Ids]] :
              callers' = [f \in DOMAIN callers |->
                           {<<read[f][e], e[2]>> : e \in callers[f]}]
        BY <3>2 DEF ApplyContinues, AfterGrowth
      <4>2. ASSUME NEW f \in DOMAIN callers
            PROVE  callers'[f] \in SUBSET Edges
        <5>1. callers[f] \in SUBSET Edges
          BY <2>1
        <5>2. callers'[f] = {<<read[f][e], e[2]>> : e \in callers[f]}
          BY <4>1
        <5>3. ASSUME NEW e \in callers[f]
              PROVE  <<read[f][e], e[2]>> \in Edges
          <6>1. e[2] \in Patches
            BY <5>1, <5>3 DEF Edges
          <6>2. e \in UNION {callers[g] : g \in DOMAIN callers}
            BY <5>3
          <6>3. read[f][e] \in Ids
            BY <4>1, <6>2
          <6> QED
            BY <6>1, <6>3 DEF Edges
        <5> QED
          BY <5>2, <5>3
      <4>3. Len(callers) \in Nat /\ DOMAIN callers = 1 .. Len(callers)
        BY <2>1
      <4> DEFINE S == SUBSET Edges
                 g == callers'
                 n == Len(callers)
      <4>4. n \in Nat /\ DOMAIN g = 1 .. n /\ \A f \in 1 .. n : g[f] \in S
        BY <4>1, <4>2, <4>3
      <4>5. g = [f \in 1 .. n |-> g[f]]
        BY <4>1, <4>3
      <4> HIDE DEF S, g, n
      <4>6. g \in Seq(S)
        BY <4>4, <4>5
      <4> QED
        BY <4>6 DEF S, g
    <3> QED
      BY <3>1, <3>2
  <2> QED
    BY <1>5, <2>2, SequencesWiden
<1>10. /\ attempt' \in Attempts'
       /\ next_wave' \in WavesOver(Ids')
  <2>1. next_wave \in WavesOver(Ids)
    BY DEF TypeOK, WaveType, WavesOver
  <2>2. next_wave \in WavesOver(Ids')
    BY <1>5, <2>1, RestGrows
  <2>3. CASE IsImmediate(kind)
    <3>1. attempt' = [id |-> Len(records) + 1, origin |-> "followup"] /\ UNCHANGED next_wave
      BY <2>3 DEF ApplyContinues, FollowupId
    <3> QED
      BY <1>5, <2>2, <3>1 DEF Attempts
  <2>4. CASE ~IsImmediate(kind)
    <3>1. /\ attempt' = Nobody
          /\ next_wave' = [next_wave EXCEPT !.proximate = Append(@, Len(records) + 1)]
      BY <2>4 DEF ApplyContinues, FollowupId
    <3> QED
      BY <1>5, <2>2, <3>1, WaveAppended DEF Attempts, Nobody
  <2> QED
    BY <2>3, <2>4
<1>11. applied' \in BOOLEAN
  BY CountedIsTyped DEF ApplyContinues
<1>12. begun' \subseteq Ids' /\ ended' \subseteq begun' /\ released' \subseteq Ids'
  BY <1>1, <1>5, RootIsTyped DEF ApplyContinues, TypeOK
<1>13. current_wave' \in WavesOver(Ids')
  <2>1. current_wave \in WavesOver(Ids)
    BY DEF TypeOK, WaveType, WavesOver
  <2> QED
    BY <1>5, <2>1, RestGrows DEF ApplyContinues
<1>14. last_instruction' \in [Patches -> Ids' \cup {0}]
  BY <1>5 DEF ApplyContinues, constructed, TypeOK
<1> QED
  <2> HIDE DEF new, kind
  <2> QED
    BY <1>7, <1>8, <1>9, <1>10, <1>11, <1>12, <1>13, <1>14
       DEF TypeOK, ApplyContinues, WaveType, WavesOver, Attempts, constructed

\* The loop over dependents.
LEMMA ReleaseTyped ==
  ASSUME TypeOK, Release
  PROVE  TypeOK'
<1>1. UNCHANGED records /\ Ids' = Ids
  BY DEF Release, Ids
<1>2. callers \in Seq(SUBSET Edges) /\ callers # << >>
  BY DEF Release, TypeOK
<1>3. Head(callers) \in SUBSET Edges /\ Tail(callers) \in Seq(SUBSET Edges)
  <2> DEFINE T == SUBSET Edges
  <2>1. callers \in Seq(T) /\ callers # << >>
    BY <1>2
  <2> HIDE DEF T
  <2>2. Head(callers) \in T /\ Tail(callers) \in Seq(T)
    BY <2>1
  <2> QED
    BY <2>2 DEF T
<1>4. PICK e \in NextDependents :
        LET dependent == e[1]
            left      == Head(callers) \ {e}
            free      == dependency_counts[dependent] = 1
            immediate == IsImmediate(records[dependent].kind)
            inCurrent == free /\ immediate /\ round = "proximate"
            atOnce    == free /\ immediate /\ round # "proximate"
        IN
        /\ callers' = IF left = {} THEN Tail(callers) ELSE <<left>> \o Tail(callers)
        /\ dependency_counts' = [dependency_counts EXCEPT ![dependent] = Decremented(@)]
        /\ released' = IF free THEN released \cup {dependent} ELSE released
        /\ attempt' = IF atOnce THEN [id |-> dependent, origin |-> "dependent"] ELSE Nobody
        /\ current_wave' = IF inCurrent
                             THEN [current_wave EXCEPT !.heads = Append(@, dependent)]
                             ELSE current_wave
        /\ next_wave' = IF free /\ ~immediate
                          THEN [next_wave EXCEPT !.heads = Append(@, dependent)]
                          ELSE next_wave
  BY DEF Release
<1>5. e[1] \in Ids
  BY <1>3 DEF NextDependents, Edges
<1>6. callers' \in Seq(SUBSET Edges)
  <2> DEFINE T == SUBSET Edges
             left == Head(callers) \ {e}
             rest == Tail(callers)
  <2>1. left \in T /\ rest \in Seq(T)
    BY <1>3
  <2>2. callers' = rest \/ callers' = <<left>> \o rest
    BY <1>4
  <2> HIDE DEF T, left, rest
  <2>3. <<left>> \o rest \in Seq(T)
    BY <2>1
  <2>4. callers' \in Seq(T)
    BY <2>1, <2>2, <2>3
  <2> QED
    BY <2>4 DEF T
<1>7. dependency_counts' \in [Ids -> Nat]
  <2>1. dependency_counts \in [Ids -> Nat]
    BY DEF TypeOK
  <2>2. Decremented(dependency_counts[e[1]]) \in Nat
    BY <1>5, <2>1 DEF Decremented
  <2>3. dependency_counts' = [dependency_counts EXCEPT ![e[1]] = Decremented(@)]
    BY <1>4
  <2> QED
    BY <2>1, <2>2, <2>3
<1>8. released' \subseteq Ids
  BY <1>4, <1>5 DEF TypeOK
<1>9. attempt' \in Attempts
  BY <1>4, <1>5 DEF Attempts
<1>10. current_wave' \in WavesOver(Ids) /\ next_wave' \in WavesOver(Ids)
  <2>1. current_wave \in WavesOver(Ids) /\ next_wave \in WavesOver(Ids)
    BY DEF TypeOK, WaveType, WavesOver
  <2>2. /\ [current_wave EXCEPT !.heads = Append(@, e[1])] \in WavesOver(Ids)
        /\ [next_wave EXCEPT !.heads = Append(@, e[1])] \in WavesOver(Ids)
    BY <1>5, <2>1, WaveAppended
  <2> QED
    BY <1>4, <2>1, <2>2
<1> QED
  BY <1>1, <1>6, <1>7, <1>8, <1>9, <1>10
     DEF TypeOK, Release, WaveType, WavesOver, Edges, RecordType, Rounds, Attempts,
         constructed


(***************************************************************************)
(* Without EDPC nothing is decomposed, so that stage 2 stays out of reach. *)
(***************************************************************************)
RoundsOfMode == round \in {"decompose", "apply"} => EDPC

Typed == TypeOK /\ RoundsOfMode

LEMMA RoundsStep == RoundsOfMode /\ Next => RoundsOfMode'
BY DEF RoundsOfMode, Next, Load, LoadInstruction, EndOfProgram, StartWave, ScheduleStep,
       NextRound, EndWave, Take, Apply, ApplyEnds, ApplyContinues, ApplyReschedules,
       ApplyDefers, ApplyDecomposes, ApplyFails, ApplyFailsEarly, Release, constructed,
       history

\* Steps that change nothing.
LEMMA StutterTyped == TypeOK /\ UNCHANGED vars => TypeOK'
BY DEF TypeOK, vars, constructed, history, Ids, WaveType, Edges, RecordType, Rounds

\* The empty scheduler.
LEMMA InitTyped == Init => Typed
<1> SUFFICES ASSUME Init
             PROVE  Typed
  OBVIOUS
<1>1. records = << >> /\ dependency_counts = << >> /\ callers = << >> /\ program = << >>
  BY DEF Init
<1>2. Ids = {}
  BY <1>1 DEF Ids
<1>3. /\ records \in Seq(RecordType) /\ callers \in Seq(SUBSET Edges)
      /\ program \in Seq(SUBSET Patches)
  BY <1>1
<1>4. dependency_counts \in [Ids -> Nat]
  BY <1>1, <1>2
<1>5. last_instruction \in [Patches -> Ids \cup {0}]
  BY DEF Init
<1>6. current_wave \in WaveType /\ next_wave \in WaveType
  BY DEF Init, EmptyWave, WaveType
<1> QED
  BY <1>2, <1>3, <1>4, <1>5, <1>6 DEF Init, Typed, TypeOK, RoundsOfMode, Rounds, Nobody

\* Every step of the scheduler.
LEMMA NextTyped == Typed /\ [Next]_vars => Typed'
<1> SUFFICES ASSUME Typed, [Next]_vars
             PROVE  Typed'
  OBVIOUS
<1> USE DEF Typed
<1>1. CASE Load
  BY <1>1, LoadInstructionTyped, EndOfProgramTyped, RoundsStep DEF Load, Next
<1>2. CASE StartWave
  BY <1>2, StartWaveTyped, RoundsStep DEF Next
<1>3. CASE NextRound
  BY <1>3, NextRoundTyped, RoundsStep DEF Next, ScheduleStep
<1>4. CASE Take
  BY <1>4, TakeTyped, RoundsStep DEF Next, ScheduleStep
<1>5. CASE Apply
  <2>1. CASE ApplyDecomposes
    <3>1. LastStage >= 2
      BY <2>1, BoundsAssumption DEF ApplyDecomposes, RoundsOfMode, LastStage, FirstStage
    <3> QED
      BY <2>1, <3>1, <1>5, ApplyDecomposesTyped, RoundsStep DEF Next, ScheduleStep
  <2> QED
    BY <1>5, <2>1, ApplyEndsTyped, ApplyContinuesTyped, ApplyReschedulesTyped,
       ApplyDefersTyped, ApplyFailsTyped, ApplyFailsEarlyTyped, RoundsStep
       DEF Apply, Next, ScheduleStep
<1>6. CASE Release
  BY <1>6, ReleaseTyped, RoundsStep DEF Next, ScheduleStep
<1>7. CASE EndWave
  BY <1>7, EndWaveTyped, RoundsStep DEF Next
<1>8. CASE UNCHANGED vars
  BY <1>8, StutterTyped DEF RoundsOfMode, vars
<1> QED
  BY <1>1, <1>2, <1>3, <1>4, <1>5, <1>6, <1>7, <1>8 DEF Next, ScheduleStep

(***************************************************************************)
(* The type invariant.  Every id that schedule_wave or one of its loops    *)
(* dereferences is the index of an element of records_ and of              *)
(* dependency_counts_ (which the code reads without a bounds check), every *)
(* wait and every count is a natural number (WaitedOnce never goes below   *)
(* zero), and nothing ends that has not begun.                             *)
(***************************************************************************)
THEOREM TypeCorrect == Spec => []TypeOK
<1>1. Typed => TypeOK
  BY DEF Typed
<1> QED
  BY <1>1, InitTyped, NextTyped, PTL DEF Spec

-----------------------------------------------------------------------------
(***************************************************************************)
(* Where the instructions are, whose links they have and how many of the   *)
(* links are counted: the parts of the inductive invariant that are about  *)
(* records_, dependency_counts_ and the two waves, with one lemma for each *)
(* kind of step that touches them.  WaveOrder_proofs puts them together.   *)
(*                                                                         *)
(*   LinkedInv   the records, the links between them, last_instruction     *)
(*   CountedInv  the loops over dependents and the counts                  *)
(*   CustodyInv  the lists an instruction can be in                        *)
(***************************************************************************)

(***************************************************************************)
(* Q maps names of lists to lists of ids, owner maps ids to instructions.  *)
(***************************************************************************)
OnceIn(Q, owner) ==
  \A a, b \in DOMAIN Q : \A j \in DOMAIN Q[a], k \in DOMAIN Q[b] :
    owner[Q[a][j]] = owner[Q[b][k]] => a = b /\ j = k

HeldIn(Q, owner, r) == \E a \in DOMAIN Q : \E k \in DOMAIN Q[a] : owner[Q[a][k]] = r

\* What the provers need to know of Tail and Append.
LEMMA TailElements ==
  ASSUME NEW S, NEW s \in Seq(S), s # << >>
  PROVE  /\ Tail(s) \in Seq(S) /\ Len(s) \in Nat /\ DOMAIN s = 1 .. Len(s) /\ 1 \in DOMAIN s
         /\ Head(s) = s[1] /\ s[1] \in S
         /\ DOMAIN Tail(s) = 1 .. (Len(s) - 1)
         /\ \A k \in DOMAIN Tail(s) : k + 1 \in DOMAIN s /\ Tail(s)[k] = s[k + 1]
         /\ \A k \in DOMAIN s : k = 1 \/ (k - 1 \in DOMAIN Tail(s) /\ s[k] = Tail(s)[k - 1])
OBVIOUS

\* An element appended is the last one.
LEMMA AppendElements ==
  ASSUME NEW S, NEW s \in Seq(S), NEW e \in S
  PROVE  /\ Append(s, e) \in Seq(S) /\ Len(s) \in Nat /\ DOMAIN s = 1 .. Len(s)
         /\ DOMAIN Append(s, e) = 1 .. (Len(s) + 1)
         /\ \A k \in DOMAIN s : Append(s, e)[k] = s[k]
         /\ Append(s, e)[Len(s) + 1] = e
OBVIOUS

ListsOver(N, S, Q, R) == Q \in [N -> Seq(S)] /\ R \in [N -> Seq(S)]

TakesFrom(N, Q, R, a) ==
  a \in N /\ Q[a] # << >> /\ R[a] = Tail(Q[a]) /\ \A b \in N \ {a} : R[b] = Q[b]

Extends(N, Q, R, a, i) ==
  a \in N /\ R[a] = Append(Q[a], i) /\ \A b \in N \ {a} : R[b] = Q[b]

\* The first of a list is taken away.
LEMMA ListTaken ==
  ASSUME NEW N, NEW S, NEW Q, NEW R, NEW owner, NEW a,
         ListsOver(N, S, Q, R), TakesFrom(N, Q, R, a), OnceIn(Q, owner)
  PROVE  /\ OnceIn(R, owner)
         /\ \A r : HeldIn(R, owner, r) <=> HeldIn(Q, owner, r) /\ r # owner[Head(Q[a])]
<1>0. /\ Q \in [N -> Seq(S)] /\ R \in [N -> Seq(S)] /\ a \in N /\ Q[a] \in Seq(S)
      /\ Q[a] # << >> /\ R[a] = Tail(Q[a]) /\ \A b \in N \ {a} : R[b] = Q[b]
  BY DEF ListsOver, TakesFrom
<1> DEFINE s == Q[a]
           t == R[a]
<1>1. /\ 1 \in DOMAIN s /\ Head(s) = s[1] /\ s[1] \in S
      /\ DOMAIN s \subseteq Nat /\ DOMAIN t \subseteq Nat /\ 0 \notin DOMAIN t
      /\ \A k \in DOMAIN t : k + 1 \in DOMAIN s /\ t[k] = s[k + 1]
      /\ \A k \in DOMAIN s : k = 1 \/ (k - 1 \in DOMAIN t /\ s[k] = t[k - 1])
  BY <1>0, TailElements
<1>2. ASSUME NEW b \in N, NEW k \in DOMAIN R[b]
      PROVE  IF b = a THEN k + 1 \in DOMAIN s /\ R[b][k] = s[k + 1] /\ k \in Nat
             ELSE k \in DOMAIN Q[b] /\ R[b][k] = Q[b][k]
  BY <1>0, <1>1
<1>3. ASSUME NEW b \in N, NEW k \in DOMAIN Q[b]
      PROVE  IF b = a THEN k = 1 \/ (k - 1 \in DOMAIN t /\ s[k] = t[k - 1])
             ELSE k \in DOMAIN R[b] /\ R[b][k] = Q[b][k]
  BY <1>0, <1>1
<1>4. DOMAIN Q = N /\ DOMAIN R = N /\ a \in N
  BY <1>0
<1>5. OnceIn(R, owner)
  <2> SUFFICES ASSUME NEW b \in N, NEW c \in N, NEW j \in DOMAIN R[b], NEW k \in DOMAIN R[c],
                      owner[R[b][j]] = owner[R[c][k]]
               PROVE  b = c /\ j = k
    BY <1>4 DEF OnceIn
  <2>1. \A x, y \in N : \A i \in DOMAIN Q[x], l \in DOMAIN Q[y] :
          owner[Q[x][i]] = owner[Q[y][l]] => x = y /\ i = l
    BY <1>4 DEF OnceIn
  <2> HIDE DEF s, t
  <2>2. CASE b = a /\ c = a
    <3>1. j + 1 \in DOMAIN Q[a] /\ k + 1 \in DOMAIN Q[a] /\ j \in Nat /\ k \in Nat
      BY <2>2, <1>2 DEF s
    <3>0. a \in N
      BY <1>0
    <3>2. R[b][j] = Q[a][j + 1] /\ R[c][k] = Q[a][k + 1]
      BY <2>2, <1>2 DEF s
    <3>3. j + 1 = k + 1
      BY <2>1, <3>0, <3>1, <3>2
    <3> QED
      BY <2>2, <3>1, <3>3
  <2>3. CASE b = a /\ c # a
    <3>1. j + 1 \in DOMAIN Q[a] /\ R[b][j] = Q[a][j + 1]
      BY <2>3, <1>2 DEF s
    <3>2. k \in DOMAIN Q[c] /\ R[c][k] = Q[c][k]
      BY <2>3, <1>2
    <3> QED
      BY <2>1, <2>3, <3>1, <3>2
  <2>4. CASE b # a /\ c = a
    <3>1. k + 1 \in DOMAIN Q[a] /\ R[c][k] = Q[a][k + 1]
      BY <2>4, <1>2 DEF s
    <3>2. j \in DOMAIN Q[b] /\ R[b][j] = Q[b][j]
      BY <2>4, <1>2
    <3> QED
      BY <2>1, <2>4, <3>1, <3>2
  <2>5. CASE b # a /\ c # a
    BY <2>1, <2>5, <1>2
  <2> QED
    BY <2>2, <2>3, <2>4, <2>5
<1>6. ASSUME NEW r
      PROVE  HeldIn(R, owner, r) => HeldIn(Q, owner, r) /\ r # owner[Head(Q[a])]
  <2> SUFFICES ASSUME NEW b \in N, NEW k \in DOMAIN R[b], owner[R[b][k]] = r
               PROVE  HeldIn(Q, owner, r) /\ r # owner[Head(Q[a])]
    BY <1>4 DEF HeldIn
  <2>1. CASE b = a
    <3>1. k + 1 \in DOMAIN Q[a] /\ R[b][k] = Q[a][k + 1] /\ k \in Nat /\ k + 1 # 1
      BY <1>1, <1>2, <1>4, <2>1
    <3>2. r # owner[Q[a][1]]
      BY <1>1, <1>4, <3>1 DEF OnceIn
    <3> QED
      BY <1>1, <1>4, <3>1, <3>2 DEF HeldIn
  <2>2. CASE b # a
    <3>1. k \in DOMAIN Q[b] /\ R[b][k] = Q[b][k]
      BY <1>2, <2>2
    <3>2. r # owner[Q[a][1]]
      BY <1>1, <1>4, <2>2, <3>1 DEF OnceIn
    <3> QED
      BY <1>1, <1>4, <3>1, <3>2 DEF HeldIn
  <2> QED
    BY <2>1, <2>2
<1>7. ASSUME NEW r, HeldIn(Q, owner, r), r # owner[Head(Q[a])]
      PROVE  HeldIn(R, owner, r)
  <2>1. PICK b \in N : \E k \in DOMAIN Q[b] : owner[Q[b][k]] = r
    BY <1>4, <1>7 DEF HeldIn
  <2>2. PICK k \in DOMAIN Q[b] : owner[Q[b][k]] = r
    BY <2>1
  <2>3. CASE b = a
    BY <1>1, <1>4, <1>7, <2>2, <2>3 DEF HeldIn
  <2>4. CASE b # a
    BY <1>3, <1>4, <2>2, <2>4 DEF HeldIn
  <2> QED
    BY <2>3, <2>4
<1> QED
  BY <1>5, <1>6, <1>7

\* An id is put at the end of a list.
LEMMA ListExtended ==
  ASSUME NEW N, NEW S, NEW Q, NEW R, NEW owner, NEW a, NEW i \in S, NEW w,
         ListsOver(N, S, Q, R), Extends(N, Q, R, a, i),
         OnceIn(Q, owner), owner[i] = w, ~ HeldIn(Q, owner, w)
  PROVE  /\ OnceIn(R, owner)
         /\ \A r : HeldIn(R, owner, r) <=> HeldIn(Q, owner, r) \/ r = w
<1>0. /\ Q \in [N -> Seq(S)] /\ R \in [N -> Seq(S)] /\ a \in N /\ Q[a] \in Seq(S)
      /\ R[a] = Append(Q[a], i) /\ \A b \in N \ {a} : R[b] = Q[b]
  BY DEF ListsOver, Extends
<1> DEFINE n == Len(Q[a]) + 1
<1>1. /\ n \in DOMAIN R[a] /\ R[a][n] = i /\ n \notin DOMAIN Q[a]
      /\ \A k \in DOMAIN R[a] : k = n \/ k \in DOMAIN Q[a]
      /\ \A k \in DOMAIN Q[a] : k \in DOMAIN R[a] /\ R[a][k] = Q[a][k]
  BY <1>0, AppendElements
<1> HIDE DEF n
<1>2. ASSUME NEW b \in N, NEW k \in DOMAIN R[b]
      PROVE  \/ b = a /\ k = n /\ R[b][k] = i
             \/ k \in DOMAIN Q[b] /\ R[b][k] = Q[b][k]
  BY <1>0, <1>1
<1>3. ASSUME NEW b \in N, NEW k \in DOMAIN Q[b]
      PROVE  k \in DOMAIN R[b] /\ R[b][k] = Q[b][k]
  BY <1>0, <1>1
<1>4. DOMAIN Q = N /\ DOMAIN R = N /\ a \in N
  BY <1>0
<1>5. \A b \in N : \A k \in DOMAIN Q[b] : owner[Q[b][k]] # owner[i]
  BY <1>4 DEF HeldIn
<1>6. OnceIn(R, owner)
  <2> SUFFICES ASSUME NEW b \in N, NEW c \in N, NEW j \in DOMAIN R[b], NEW k \in DOMAIN R[c],
                      owner[R[b][j]] = owner[R[c][k]]
               PROVE  b = c /\ j = k
    BY <1>4 DEF OnceIn
  <2>1. CASE j \in DOMAIN Q[b] /\ k \in DOMAIN Q[c]
    BY <2>1, <1>3, <1>4 DEF OnceIn
  <2>2. CASE ~ (j \in DOMAIN Q[b] /\ k \in DOMAIN Q[c])
    BY <2>2, <1>2, <1>5
  <2> QED
    BY <2>1, <2>2
<1>7. ASSUME NEW r
      PROVE  HeldIn(R, owner, r) <=> HeldIn(Q, owner, r) \/ r = w
  BY <1>1, <1>2, <1>3, <1>4 DEF HeldIn
<1> QED
  BY <1>6, <1>7

\* Only the owners of the ids that are there matter.
LEMMA OwnersAgree ==
  ASSUME NEW N, NEW S, NEW Q \in [N -> Seq(S)], NEW owner, NEW other,
         \A i \in S : other[i] = owner[i], OnceIn(Q, owner)
  PROVE  /\ OnceIn(Q, other)
         /\ \A r : HeldIn(Q, other, r) <=> HeldIn(Q, owner, r)
<1>1. \A a \in N : \A k \in DOMAIN Q[a] : Q[a][k] \in S
  OBVIOUS
<1>2. DOMAIN Q = N
  OBVIOUS
<1> QED
  BY <1>1, <1>2 DEF OnceIn, HeldIn

Renames(N, Q, R, to) ==
  /\ to \in [N -> N]
  /\ \A a \in N : Q[a] # << >> => R[to[a]] = Q[a]
  /\ \A b \in N : R[b] # << >> => \E a \in N : to[a] = b /\ R[b] = Q[a]

\* The lists exchange their places, all but empty ones.
LEMMA ListsRenamed ==
  ASSUME NEW N, NEW S, NEW Q, NEW R, NEW owner, NEW to,
         ListsOver(N, S, Q, R), Renames(N, Q, R, to), OnceIn(Q, owner)
  PROVE  /\ OnceIn(R, owner)
         /\ \A r : HeldIn(R, owner, r) <=> HeldIn(Q, owner, r)
<1>0. /\ Q \in [N -> Seq(S)] /\ R \in [N -> Seq(S)] /\ to \in [N -> N]
      /\ \A a \in N : Q[a] # << >> => R[to[a]] = Q[a]
      /\ \A b \in N : R[b] # << >> => \E a \in N : to[a] = b /\ R[b] = Q[a]
  BY DEF ListsOver, Renames
<1>1. DOMAIN Q = N /\ DOMAIN R = N
  BY <1>0
<1>2. \A b \in N : (DOMAIN R[b] # {} => R[b] # << >>) /\ (DOMAIN Q[b] # {} => Q[b] # << >>)
  BY <1>0
<1>3. OnceIn(R, owner)
  <2> SUFFICES ASSUME NEW b \in N, NEW c \in N, NEW j \in DOMAIN R[b], NEW k \in DOMAIN R[c],
                      owner[R[b][j]] = owner[R[c][k]]
               PROVE  b = c /\ j = k
    BY <1>1 DEF OnceIn
  <2>1. PICK d \in N : to[d] = b /\ R[b] = Q[d]
    BY <1>0, <1>2
  <2>2. PICK e \in N : to[e] = c /\ R[c] = Q[e]
    BY <1>0, <1>2
  <2>3. d = e /\ j = k
    BY <1>1, <2>1, <2>2 DEF OnceIn
  <2> QED
    BY <2>1, <2>2, <2>3
<1>4. ASSUME NEW r
      PROVE  HeldIn(R, owner, r) <=> HeldIn(Q, owner, r)
  BY <1>0, <1>1, <1>2 DEF HeldIn
<1> QED
  BY <1>3, <1>4

-----------------------------------------------------------------------------
(***************************************************************************)
(* records_ and the program.  Every record belongs to an instruction of    *)
(* the program, itself or as a follow-up, and a follow-up has the          *)
(* dependents of its instruction.                                          *)
(***************************************************************************)
Links(r) == records[r].dependents

OwnersInv ==
  /\ Len(program) <= Len(records)
  /\ loading => Len(program) = Len(records)
  /\ \A i \in Ids : records[i].root \in Roots /\ Links(i) = Links(records[i].root)
  /\ \A r \in Roots : records[r].root = r

(***************************************************************************)
(* The links: each leads to a later instruction on the same patch, no link *)
(* is there twice, and on each of its patches an instruction is linked to  *)
(* the last instruction before it.  last_instruction is that last one.     *)
(***************************************************************************)
LinksInv ==
  /\ \A r \in Roots : \A e \in Links(r) :
       e[1] \in Roots /\ r < e[1] /\ e[2] \in program[r] /\ e[2] \in program[e[1]]
  /\ \A r, s \in Roots : r # s => Links(r) \cap Links(s) = {}
  /\ \A j, k \in Roots : \A p \in program[j] \cap program[k] :
       k < j => \E r \in Roots : k <= r /\ <<j, p>> \in Links(r)

LastInv ==
  \A p \in Patches :
    /\ last_instruction[p] # 0 => /\ last_instruction[p] \in Roots
                                  /\ p \in program[last_instruction[p]]
    /\ \A k \in Roots : p \in program[k] => last_instruction[p] # 0 /\ k <= last_instruction[p]

LinkedInv == OwnersInv /\ LinksInv /\ LastInv

-----------------------------------------------------------------------------
\* Instructions of the program are records.
LEMMA RootsAreIds ==
  ASSUME TypeOK, OwnersInv
  PROVE  /\ Roots \subseteq Ids /\ Roots = 1 .. Len(program) /\ Ids = 1 .. Len(records)
         /\ Len(program) \in Nat /\ Len(records) \in Nat
         /\ \A r \in Roots : program[r] \in SUBSET Patches
         /\ \A i \in Ids : records[i] \in RecordType
<1>1. records \in Seq(RecordType) /\ program \in Seq(SUBSET Patches)
  BY DEF TypeOK
<1>2. Len(program) \in Nat /\ Len(records) \in Nat /\ Ids = 1 .. Len(records)
      /\ Roots = 1 .. Len(program) /\ \A r \in Roots : program[r] \in SUBSET Patches
      /\ \A i \in Ids : records[i] \in RecordType
  BY <1>1 DEF Ids, Roots
<1> QED
  BY <1>2 DEF OwnersInv

(***************************************************************************)
(* What a step does to records_.  All but two kinds of steps leave alone   *)
(* whose record it is, its kind and its dependents.                        *)
(***************************************************************************)
KeepsRecords ==
  /\ Ids' = Ids
  /\ \A i \in Ids : /\ records'[i].root = records[i].root
                    /\ records'[i].dependents = records[i].dependents
                    /\ records'[i].kind = records[i].kind

\* Writing the wait or the stage of a record keeps the rest.
LEMMA RecordOverwritten ==
  ASSUME TypeOK, NEW i \in Ids, NEW x,
         \/ records' = [records EXCEPT ![i].stage = x]
         \/ records' = [records EXCEPT ![i].wait = x]
  PROVE  KeepsRecords /\ \A j \in Ids \ {i} : records'[j] = records[j]
<1>1. records \in Seq(RecordType)
  BY DEF TypeOK
<1>2. Ids' = Ids /\ \A j \in Ids \ {i} : records'[j] = records[j]
  BY <1>1 DEF Ids
<1>3. records[i] \in RecordType
  BY <1>1 DEF Ids
<1>4. \/ records'[i] = [records[i] EXCEPT !.stage = x]
      \/ records'[i] = [records[i] EXCEPT !.wait = x]
  BY DEF Ids
<1>5. /\ records'[i].root = records[i].root /\ records'[i].kind = records[i].kind
      /\ records'[i].dependents = records[i].dependents
  BY <1>3, <1>4 DEF RecordType
<1> QED
  BY <1>2, <1>5 DEF KeepsRecords

Keeping ==
  \/ EndOfProgram \/ StartWave \/ NextRound \/ Take \/ ApplyEnds \/ ApplyReschedules
  \/ ApplyDefers \/ ApplyDecomposes \/ ApplyFails \/ ApplyFailsEarly \/ Release \/ EndWave
  \/ UNCHANGED vars

\* Every step of Keeping keeps the records, the program and the last instructions.
LEMMA RecordsAreKept ==
  ASSUME TypeOK, Keeping
  PROVE  KeepsRecords /\ UNCHANGED <<program, last_instruction>> /\ (loading' => loading)
<1>1. UNCHANGED <<program, last_instruction>> /\ (loading' => loading)
  <2>1. CASE EndOfProgram
    BY <2>1 DEF EndOfProgram
  <2>2. CASE StartWave \/ NextRound \/ Take \/ Release \/ EndWave
    <3>1. UNCHANGED constructed
      BY <2>2 DEF StartWave, NextRound, Take, Release, EndWave
    <3> QED
      BY <3>1 DEF constructed
  <2>3. CASE ApplyEnds \/ ApplyReschedules \/ ApplyDefers \/ ApplyDecomposes
    <3>1. UNCHANGED constructed
      BY <2>3 DEF ApplyEnds, ApplyReschedules, ApplyDefers, ApplyDecomposes
    <3> QED
      BY <3>1 DEF constructed
  <2>4. CASE ApplyFails \/ ApplyFailsEarly \/ UNCHANGED vars
    <3>1. UNCHANGED constructed
      BY <2>4 DEF ApplyFails, ApplyFailsEarly, vars
    <3> QED
      BY <3>1 DEF constructed
  <2> QED
    BY <2>1, <2>2, <2>3, <2>4 DEF Keeping
<1>2. UNCHANGED records => KeepsRecords
  BY DEF KeepsRecords, Ids
<1>3. attempt # Nobody => attempt.id \in Ids
  BY AttemptedIsTyped
<1>4. CASE ApplyReschedules
  BY <1>3, <1>4, RecordOverwritten, <1>1 DEF ApplyReschedules, Answered
<1>5. CASE ApplyDefers
  BY <1>3, <1>5, RecordOverwritten, <1>1 DEF ApplyDefers, Answered
<1>6. CASE ApplyDecomposes
  BY <1>3, <1>6, RecordOverwritten, <1>1 DEF ApplyDecomposes, Answered
<1>7. CASE ApplyFails
  BY <1>2, <1>3, <1>7, RecordOverwritten, <1>1 DEF ApplyFails, Answered
<1>8. ASSUME ~ (ApplyReschedules \/ ApplyDefers \/ ApplyDecomposes \/ ApplyFails)
      PROVE  UNCHANGED records
  BY <1>8 DEF Keeping, EndOfProgram, StartWave, NextRound, Take, ApplyEnds,
              ApplyFailsEarly, Release, EndWave, vars
<1> QED
  BY <1>1, <1>2, <1>4, <1>5, <1>6, <1>7, <1>8

\* A follow-up is pushed back.
LEMMA FollowupIsAdded ==
  ASSUME TypeOK, ApplyContinues
  PROVE  /\ attempt.id \in Ids /\ FollowupId = Len(records) + 1 /\ FollowupId \notin Ids
         /\ Ids' = Ids \cup {FollowupId}
         /\ \A i \in Ids : records'[i] = records[i]
         /\ records'[FollowupId].root = Attempted.root
         /\ records'[FollowupId].dependents = Attempted.dependents
         /\ \A i \in Ids : dependency_counts'[i] = dependency_counts[i]
         /\ dependency_counts'[FollowupId] = 0
         /\ UNCHANGED <<program, last_instruction, loading>>
<1> DEFINE new == [kind |-> Followup(Attempted.kind), wait |-> DEFAULT_MAX_WAIT, stage |-> 0,
                   root |-> Attempted.root, dependents |-> Attempted.dependents]
           n == Len(records)
           counts == dependency_counts
<1>1. attempt.id \in Ids
  BY AttemptedIsTyped DEF ApplyContinues, Answered
<1>2. records' = Append(records, new) /\ counts' = Append(counts, 0)
  BY DEF ApplyContinues
<1>3. new.root = Attempted.root /\ new.dependents = Attempted.dependents
  OBVIOUS
<1>4. records \in Seq(RecordType) /\ n \in Nat /\ Ids = 1 .. n
  <2>1. records \in Seq(RecordType)
    BY DEF TypeOK
  <2> QED
    BY <2>1 DEF Ids
<1>5. counts \in Seq(Nat) /\ Len(counts) = n
  <2>1. counts \in [1 .. n -> Nat]
    BY <1>4 DEF TypeOK
  <2> HIDE DEF counts, n
  <2>2. DOMAIN counts = 1 .. n /\ counts = [i \in 1 .. n |-> counts[i]]
        /\ \A i \in 1 .. n : counts[i] \in Nat
    BY <2>1
  <2> QED
    BY <1>4, <2>2, FunctionsAreSequences
<1> HIDE DEF new, n, counts
<1>6. DOMAIN records' = 1 .. (n + 1) /\ records'[n + 1] = new
      /\ \A i \in 1 .. n : records'[i] = records[i]
  <2>1. Len(records) = n
    BY DEF n
  <2> QED
    BY <1>2, <1>4, <2>1
<1>7. counts'[n + 1] = 0 /\ \A i \in 1 .. n : counts'[i] = counts[i]
  BY <1>2, <1>4, <1>5
<1>8. Ids' = Ids \cup {n + 1} /\ n + 1 \notin Ids
  BY <1>4, <1>6 DEF Ids
<1>9. FollowupId = n + 1
  BY DEF FollowupId, n
<1> QED
  BY <1>1, <1>3, <1>4, <1>6, <1>7, <1>8, <1>9 DEF counts, n, ApplyContinues, constructed

\* The constructor pushes an instruction back and links it.
Shared(ins) == {p \in ins.patches : last_instruction[p] # 0}

\* What LoadInstruction adds: a record, its count, and a link for every shared patch.
LEMMA InstructionIsAdded ==
  ASSUME TypeOK, OwnersInv, NEW ins \in Instructions, LoadInstruction(ins),
         NEW id, id = Len(program) + 1
  PROVE  /\ id \notin Ids /\ id \in Nat /\ id > 0
         /\ Roots = Ids /\ Roots' = Roots \cup {id} /\ Ids' = Ids \cup {id}
         /\ \A i \in Ids : records'[i].root = records[i].root
         /\ \A i \in Ids : records'[i].dependents =
              records[i].dependents
                \cup {<<id, p>> : p \in {q \in Shared(ins) : last_instruction[q] = i}}
         /\ records'[id].root = id /\ records'[id].dependents = {}
         /\ \A i \in Ids : dependency_counts'[i] = dependency_counts[i]
         /\ dependency_counts'[id] = Cardinality(Shared(ins))
         /\ program'[id] = ins.patches /\ ins.patches \in SUBSET Patches
         /\ \A r \in Roots : program'[r] = program[r]
         /\ last_instruction' = LastOnPatch(ins, id)
         /\ loading /\ UNCHANGED loading
         /\ Len(program') = Len(program) + 1 /\ Len(program') = Len(records')
<1> DEFINE shared == Shared(ins)
           linked(i) == {<<id, p>> : p \in {q \in shared : last_instruction[q] = i}}
           old == [i \in Ids |-> [records[i] EXCEPT !.dependents = @ \cup linked(i)]]
           new == [kind |-> ins.kind, wait |-> ins.wait, stage |-> 0,
                   dependents |-> {}, root |-> id]
           n == Len(program)
           counts == dependency_counts
<1>1. loading /\ Len(records) = n /\ n \in Nat /\ Ids = 1 .. n /\ Roots = 1 .. n
  BY RootsAreIds DEF LoadInstruction, OwnersInv
<1>2. records' = Append(old, new) /\ counts' = Append(counts, Cardinality(shared))
  BY <1>1 DEF LoadInstruction, Shared, CountLinks
<1>3. last_instruction' = LastOnPatch(ins, id) /\ program' = Append(program, ins.patches)
      /\ UNCHANGED loading
  BY <1>1 DEF LoadInstruction
<1>4. old \in Seq({old[i] : i \in Ids}) /\ Len(old) = n
  <2>1. DOMAIN old = 1 .. n /\ old = [i \in 1 .. n |-> old[i]]
    BY <1>1
  <2>2. \A i \in 1 .. n : old[i] \in {old[j] : j \in Ids}
    BY <1>1
  <2> HIDE DEF old, n
  <2> QED
    BY <1>1, <2>1, <2>2, FunctionsAreSequences
<1>5. counts \in Seq(Nat) /\ Len(counts) = n
  <2>1. counts \in [1 .. n -> Nat]
    BY <1>1 DEF TypeOK
  <2> HIDE DEF counts, n
  <2>2. DOMAIN counts = 1 .. n /\ counts = [i \in 1 .. n |-> counts[i]]
        /\ \A i \in 1 .. n : counts[i] \in Nat
    BY <2>1
  <2> QED
    BY <1>1, <2>2, FunctionsAreSequences
<1>6. ins.patches \in SUBSET Patches
  BY InstructionIsTyped
<1>7. program \in Seq(SUBSET Patches)
  BY DEF TypeOK
<1>8. ASSUME NEW i \in Ids
      PROVE  old[i].root = records[i].root /\ old[i].dependents = records[i].dependents \cup linked(i)
  <2>1. records[i] \in RecordType
    BY RootsAreIds
  <2>2. old[i] = [records[i] EXCEPT !.dependents = @ \cup linked(i)]
    OBVIOUS
  <2> HIDE DEF old, linked
  <2> QED
    BY <2>1, <2>2 DEF RecordType
<1>9. new.root = id /\ new.dependents = {}
  OBVIOUS
<1>10. DOMAIN records' = 1 .. (n + 1) /\ records'[n + 1] = new
       /\ Len(records') = n + 1 /\ \A i \in 1 .. n : records'[i] = old[i]
  <2> HIDE DEF old, new, n
  <2> QED
    BY <1>1, <1>2, <1>4
<1>11. counts'[n + 1] = Cardinality(shared) /\ \A i \in 1 .. n : counts'[i] = counts[i]
  <2> HIDE DEF counts, n, shared
  <2> QED
    BY <1>1, <1>2, <1>5
<1>12. DOMAIN program' = 1 .. (n + 1) /\ program'[n + 1] = ins.patches
       /\ Len(program') = n + 1 /\ \A i \in 1 .. n : program'[i] = program[i]
  <2>1. Len(program) = n
    OBVIOUS
  <2> HIDE DEF n
  <2> QED
    BY <1>1, <1>3, <1>6, <1>7, <2>1
<1>13. Ids' = Ids \cup {id} /\ Roots' = Roots \cup {id} /\ id \notin Ids
  BY <1>1, <1>10, <1>12 DEF Ids, Roots
<1>14. id \in Nat /\ id > 0 /\ Roots = Ids
  BY <1>1
<1>15. \A i \in Ids : /\ records'[i].root = records[i].root
                     /\ records'[i].dependents = records[i].dependents \cup linked(i)
  BY <1>1, <1>8, <1>10
<1>16. \A i \in Ids : counts'[i] = counts[i] /\ program'[i] = program[i]
  BY <1>1, <1>11, <1>12
<1>17. /\ records'[id].root = id /\ records'[id].dependents = {}
       /\ counts'[id] = Cardinality(shared) /\ program'[id] = ins.patches
  BY <1>9, <1>10, <1>11, <1>12
<1> QED
  <2> HIDE DEF old, new, counts
  <2> QED
    BY <1>1, <1>3, <1>6, <1>10, <1>12, <1>13, <1>14, <1>15, <1>16, <1>17 DEF counts

-----------------------------------------------------------------------------
\* The links survive whatever keeps the records.
LEMMA LinkedKept ==
  ASSUME TypeOK, LinkedInv, Keeping, TypeOK'
  PROVE  LinkedInv'
<1>1. KeepsRecords /\ UNCHANGED <<program, last_instruction>> /\ (loading' => loading)
  BY RecordsAreKept
<1>2. Roots' = Roots /\ Roots \subseteq Ids /\ Ids' = Ids
  BY <1>1, RootsAreIds DEF LinkedInv, Roots, KeepsRecords
<1>3. \A i \in Ids : Links(i)' = Links(i) /\ records'[i].root = records[i].root
  BY <1>1 DEF KeepsRecords, Links
<1>4. OwnersInv'
  <2>1. Len(records') = Len(records)
    <3>1. records \in Seq(RecordType) /\ records' \in Seq(RecordType')
      BY DEF TypeOK
    <3>2. Len(records) \in Nat /\ Len(records') \in Nat
          /\ 1 .. Len(records) = 1 .. Len(records')
      BY <1>2, <3>1 DEF Ids
    <3> QED
      BY <3>2
  <2>2. ASSUME NEW i \in Ids
        PROVE  records'[i].root \in Roots /\ records'[i].dependents = records'[records'[i].root].dependents
    BY <1>2, <1>3 DEF LinkedInv, OwnersInv, Links
  <2> QED
    BY <1>1, <1>2, <1>3, <2>1, <2>2 DEF LinkedInv, OwnersInv, Links
<1>5. LinksInv'
  BY <1>1, <1>2, <1>3 DEF LinkedInv, LinksInv, Links
<1>6. LastInv'
  BY <1>1, <1>2 DEF LinkedInv, LastInv
<1> QED
  BY <1>4, <1>5, <1>6 DEF LinkedInv

\* A follow-up brings no link of its own.
LEMMA LinkedContinues ==
  ASSUME TypeOK, LinkedInv, ApplyContinues, TypeOK', ~loading
  PROVE  LinkedInv'
<1>1. /\ attempt.id \in Ids /\ FollowupId \notin Ids
      /\ Ids' = Ids \cup {FollowupId}
      /\ \A i \in Ids : records'[i] = records[i]
      /\ records'[FollowupId].root = Attempted.root
      /\ records'[FollowupId].dependents = Attempted.dependents
      /\ UNCHANGED <<program, last_instruction, loading>>
      /\ FollowupId = Len(records) + 1
  BY FollowupIsAdded
<1>2. Roots' = Roots /\ Roots \subseteq Ids /\ Len(records) \in Nat /\ Len(program) \in Nat
  BY <1>1, RootsAreIds DEF LinkedInv, Roots
<1>3. \A i \in Ids : Links(i)' = Links(i) /\ records'[i].root = records[i].root
  BY <1>1 DEF Links
<1>4. Attempted.root \in Roots /\ Attempted.dependents = Links(Attempted.root)
  BY <1>1 DEF Attempted, LinkedInv, OwnersInv, Links
<1>5. OwnersInv'
  <2>1. Len(records') >= Len(records)
    <3>1. records' \in Seq(RecordType')
      BY DEF TypeOK
    <3>2. Len(records') \in Nat /\ Ids' = 1 .. Len(records')
      BY <3>1 DEF Ids
    <3>3. Len(records) + 1 \in 1 .. Len(records')
      BY <1>1, <3>2
    <3> QED
      BY <1>2, <3>2, <3>3
  <2>0. Len(records') \in Nat
    <3>1. records' \in Seq(RecordType')
      BY DEF TypeOK
    <3> QED
      BY <3>1
  <2>2. ASSUME NEW i \in Ids'
        PROVE  records'[i].root \in Roots /\ records'[i].dependents = records'[records'[i].root].dependents
    BY <1>1, <1>2, <1>3, <1>4 DEF LinkedInv, OwnersInv, Links
  <2> QED
    BY <1>1, <1>2, <1>3, <2>0, <2>1, <2>2 DEF LinkedInv, OwnersInv, Links
<1>6. LinksInv'
  BY <1>1, <1>2, <1>3 DEF LinkedInv, LinksInv, Links
<1>7. LastInv'
  BY <1>1, <1>2 DEF LinkedInv, LastInv
<1> QED
  BY <1>5, <1>6, <1>7 DEF LinkedInv

\* A new instruction is linked to the last ones before it.
LEMMA LinkedLoads ==
  ASSUME TypeOK, LinkedInv, NEW ins \in Instructions, LoadInstruction(ins)
  PROVE  LinkedInv'
<1> DEFINE id == Len(program) + 1
           shared == Shared(ins)
           linked(i) == {<<id, p>> : p \in {q \in shared : last_instruction[q] = i}}
<1>1. /\ id \notin Roots /\ id \in Nat /\ id > 0
      /\ Roots = Ids /\ Roots' = Roots \cup {id} /\ Ids' = Ids \cup {id}
      /\ \A i \in Roots : records'[i].root = records[i].root
      /\ \A i \in Roots : records'[i].dependents = Links(i) \cup linked(i)
      /\ records'[id].root = id /\ records'[id].dependents = {}
      /\ program'[id] = ins.patches /\ ins.patches \in SUBSET Patches
      /\ \A r \in Roots : program'[r] = program[r]
      /\ last_instruction' = LastOnPatch(ins, id)
      /\ Len(program') = Len(program) + 1 /\ Len(program') = Len(records')
      /\ loading /\ loading'
  <2>1. id = Len(program) + 1 /\ OwnersInv
    BY DEF LinkedInv
  <2> HIDE DEF id
  <2> QED
    BY <2>1, InstructionIsAdded DEF Links
<1>2. /\ Roots = 1 .. Len(program) /\ Len(program) \in Nat
      /\ \A r \in Roots : program[r] \in SUBSET Patches
  BY RootsAreIds DEF LinkedInv
<1>3. \A p \in shared : /\ p \in ins.patches /\ last_instruction[p] \in Roots
                        /\ p \in program[last_instruction[p]]
  BY <1>1 DEF LinkedInv, LastInv, Shared
<1>4. \A r \in Roots : r < id /\ r # id
  BY <1>1, <1>2
<1>5. Len(records') \in Nat /\ Len(program') \in Nat
  BY <1>1, <1>2
<1> HIDE DEF id, shared
<1>6. OwnersInv'
  <2>1. \A i \in Roots : records[i].root = i
    BY DEF LinkedInv, OwnersInv
  <2> QED
    BY <1>1, <1>5, <2>1 DEF OwnersInv, Links
<1>7. LinksInv'
  <2>1. ASSUME NEW r \in Roots', NEW e \in records'[r].dependents
        PROVE  /\ e[1] \in Roots' /\ r < e[1]
               /\ e[2] \in program'[r] /\ e[2] \in program'[e[1]]
    <3>1. r \in Roots
      BY <1>1, <2>1
    <3>2. CASE e \in Links(r)
      BY <1>1, <3>1, <3>2 DEF LinkedInv, LinksInv
    <3>3. CASE e \in linked(r)
      BY <1>1, <1>3, <1>4, <3>1, <3>3
    <3> QED
      BY <1>1, <2>1, <3>1, <3>2, <3>3
  <2>2. ASSUME NEW r \in Roots', NEW s \in Roots', r # s
        PROVE  records'[r].dependents \cap records'[s].dependents = {}
    <3>1. CASE r = id \/ s = id
      BY <1>1, <3>1
    <3>2. CASE r \in Roots /\ s \in Roots
      <4>1. Links(r) \cap Links(s) = {}
        BY <2>2, <3>2 DEF LinkedInv, LinksInv
      <4>2. linked(r) \cap linked(s) = {}
        BY <2>2
      <4>3. \A e \in linked(r) \cup linked(s) : e[1] = id
        OBVIOUS
      <4>4. \A e \in Links(r) \cup Links(s) : e[1] \in Roots
        BY <3>2 DEF LinkedInv, LinksInv
      <4> HIDE DEF linked
      <4> QED
        BY <1>1, <3>2, <4>1, <4>2, <4>3, <4>4
    <3> QED
      BY <1>1, <3>1, <3>2
  <2>3. ASSUME NEW j \in Roots', NEW k \in Roots', NEW p \in program'[j] \cap program'[k], k < j
        PROVE  \E r \in Roots' : k <= r /\ <<j, p>> \in records'[r].dependents
    <3>1. k \in Roots
      BY <1>1, <1>2, <1>4, <2>3 DEF id
    <3>2. CASE j = id
      <4>1. p \in ins.patches /\ p \in program[k] /\ p \in Patches
        BY <1>1, <2>3, <3>1, <3>2
      <4>2. last_instruction[p] # 0 /\ k <= last_instruction[p] /\ last_instruction[p] \in Roots
        BY <3>1, <4>1 DEF LinkedInv, LastInv
      <4>3. p \in shared
        BY <4>1, <4>2 DEF shared, Shared
      <4>4. <<id, p>> \in linked(last_instruction[p])
        BY <4>3
      <4> QED
        BY <1>1, <3>2, <4>2, <4>4
    <3>3. CASE j \in Roots
      <4>1. PICK r \in Roots : k <= r /\ <<j, p>> \in Links(r)
        BY <1>1, <2>3, <3>1, <3>3 DEF LinkedInv, LinksInv
      <4> QED
        BY <1>1, <4>1
    <3> QED
      BY <1>1, <3>2, <3>3
  <2> QED
    BY <2>1, <2>2, <2>3 DEF LinksInv, Links
<1>8. LastInv'
  <2> SUFFICES ASSUME NEW p \in Patches
               PROVE  /\ last_instruction'[p] # 0 => /\ last_instruction'[p] \in Roots'
                                                     /\ p \in program'[last_instruction'[p]]
                      /\ \A k \in Roots' : p \in program'[k] =>
                           last_instruction'[p] # 0 /\ k <= last_instruction'[p]
    BY DEF LastInv
  <2>1. CASE p \in ins.patches
    <3>1. last_instruction'[p] = id
      BY <1>1, <2>1 DEF LastOnPatch
    <3> QED
      BY <1>1, <1>2, <1>4, <2>1, <3>1
  <2>2. CASE p \notin ins.patches
    <3>1. last_instruction'[p] = last_instruction[p]
      BY <1>1, <2>2 DEF LastOnPatch
    <3>2. /\ last_instruction[p] # 0 => /\ last_instruction[p] \in Roots
                                        /\ p \in program[last_instruction[p]]
          /\ \A k \in Roots : p \in program[k] => last_instruction[p] # 0 /\ k <= last_instruction[p]
      BY DEF LinkedInv, LastInv
    <3> QED
      BY <1>1, <2>2, <3>1, <3>2
  <2> QED
    BY <2>1, <2>2
<1> QED
  BY <1>6, <1>7, <1>8 DEF LinkedInv

-----------------------------------------------------------------------------
(***************************************************************************)
(* The history is about instructions of the program, nobody waits for a    *)
(* follow-up, and the constructor schedules nothing.                       *)
(***************************************************************************)
ScopeInv ==
  /\ begun \subseteq Roots /\ released \subseteq Roots
  /\ \A i \in Ids \ Roots : dependency_counts[i] = 0
  /\ loading => begun = {} /\ callers = << >> /\ attempt = Nobody /\ round = "idle"

(***************************************************************************)
(* The loops over dependents that are under way: each has something left,  *)
(* no link is in two of them, and what they have left are links of         *)
(* instructions that have ended.                                           *)
(***************************************************************************)
FramesInv ==
  /\ \A f \in DOMAIN callers : callers[f] # {}
  /\ \A f, g \in DOMAIN callers : f # g => callers[f] \cap callers[g] = {}
  /\ \A f \in DOMAIN callers : \A e \in callers[f] : \E r \in ended : e \in Links(r)

CountedInv == ScopeInv /\ FramesInv /\ CountsExact

-----------------------------------------------------------------------------
IsOutstanding(e) ==
  \/ \E r \in Roots \ ended : e \in Links(r)
  \/ \E f \in DOMAIN callers : e \in callers[f]

\* Outstanding, link by link.
LEMMA OutstandingIs == \A e : e \in Outstanding <=> IsOutstanding(e)
<1> SUFFICES ASSUME NEW e
             PROVE  e \in Outstanding <=> IsOutstanding(e)
  OBVIOUS
<1> DEFINE A == UNION {records[r].dependents : r \in Roots \ ended}
           B == UNION {callers[f] : f \in DOMAIN callers}
<1>1. e \in A <=> \E r \in Roots \ ended : e \in records[r].dependents
  OBVIOUS
<1>2. e \in B <=> \E f \in DOMAIN callers : e \in callers[f]
  OBVIOUS
<1>3. Outstanding = A \cup B
  BY DEF Outstanding
<1> HIDE DEF A, B
<1> QED
  BY <1>1, <1>2, <1>3 DEF IsOutstanding, Links

\* And so in the next state.
LEMMA OutstandingIsNext == (\A e : e \in Outstanding <=> IsOutstanding(e))'
BY OutstandingIs, PTL

\* Links that are outstanding lead to instructions of the program.
LEMMA OutstandingIsTyped ==
  ASSUME TypeOK, LinkedInv, ScopeInv, FramesInv, NEW e \in Outstanding
  PROVE  /\ e[1] \in Roots /\ e[2] \in Patches /\ e = <<e[1], e[2]>>
         /\ \E r \in Roots : e \in Links(r)
<1>1. ended \subseteq Roots
  BY DEF TypeOK, ScopeInv
<1>2. PICK r \in Roots : e \in Links(r)
  BY <1>1, OutstandingIs DEF IsOutstanding, FramesInv
<1>3. Links(r) \subseteq Edges
  BY <1>2, RootsAreIds DEF LinkedInv, Links, RecordType
<1>4. e \in Ids \X Patches
  BY <1>2, <1>3 DEF Edges
<1>5. e[1] \in Roots
  BY <1>2 DEF LinkedInv, LinksInv
<1> QED
  BY <1>2, <1>4, <1>5

Waiting(i) == {p \in Patches : <<i, p>> \in Outstanding}

\* The patches an instruction waits on are finitely many.
LEMMA WaitingIsFinite ==
  \A i : IsFiniteSet(Waiting(i)) /\ Cardinality(Waiting(i)) \in Nat
<1> SUFFICES ASSUME NEW i
             PROVE  IsFiniteSet(Waiting(i)) /\ Cardinality(Waiting(i)) \in Nat
  OBVIOUS
<1>1. Waiting(i) \in SUBSET Patches
  BY DEF Waiting
<1> QED
  BY <1>1, PatchesAssumption, FS_Subset, FS_CardinalityType

\* Nothing is outstanding for an instruction exactly if its count is zero.
LEMMA CountIsZero ==
  ASSUME CountsExact, NEW i \in Ids
  PROVE  dependency_counts[i] = 0 <=> Waiting(i) = {}
BY WaitingIsFinite, FS_EmptySet DEF CountsExact, Waiting

\* The same links are outstanding, the same counts are kept.
LEMMA CountsSurvive ==
  ASSUME CountsExact, Outstanding' = Outstanding, Ids' = Ids,
         UNCHANGED dependency_counts
  PROVE  CountsExact'
BY DEF CountsExact

-----------------------------------------------------------------------------
\* Steps that neither end an instruction nor touch the loops.
LEMMA CountedKept ==
  ASSUME TypeOK, LinkedInv, CountedInv, Keeping,
         UNCHANGED <<dependency_counts, callers, ended>>,
         begun' \subseteq Roots, released' \subseteq Roots,
         loading' => begun' = {} /\ attempt' = Nobody /\ round' = "idle"
  PROVE  CountedInv'
<1>1. KeepsRecords /\ Roots' = Roots /\ (loading' => loading)
  BY RecordsAreKept DEF Roots
<1>2. ended \subseteq Roots /\ Roots \subseteq Ids
  BY RootsAreIds DEF TypeOK, CountedInv, ScopeInv, LinkedInv
<1>3. \A r \in Roots : records'[r].dependents = records[r].dependents
  BY <1>1, <1>2 DEF KeepsRecords
<1>4. Outstanding' = Outstanding
  BY <1>1, <1>3 DEF Outstanding
<1>5. ScopeInv'
  BY <1>1 DEF CountedInv, ScopeInv, KeepsRecords
<1>6. FramesInv'
  BY <1>2, <1>3 DEF CountedInv, FramesInv, Links
<1>7. CountsExact'
  BY <1>1, <1>4, CountsSurvive DEF CountedInv, KeepsRecords
<1> QED
  BY <1>5, <1>6, <1>7 DEF CountedInv

\* A stack grows and shrinks at its head.
LEMMA StackPushed ==
  ASSUME NEW S, NEW s \in Seq(S), NEW x \in S
  PROVE  /\ Len(s) \in Nat /\ DOMAIN s = 1 .. Len(s)
         /\ DOMAIN (<<x>> \o s) = 1 .. (Len(s) + 1)
         /\ (<<x>> \o s)[1] = x
         /\ \A f \in DOMAIN s : (<<x>> \o s)[f + 1] = s[f]
         /\ \A f \in DOMAIN (<<x>> \o s) :
              f = 1 \/ (f - 1 \in DOMAIN s /\ (<<x>> \o s)[f] = s[f - 1])
OBVIOUS

\* What an attempted instruction is, in terms of the program.
LEMMA AttemptedIsRooted ==
  ASSUME TypeOK, LinkedInv, attempt # Nobody
  PROVE  /\ attempt.id \in Ids /\ Attempted.root \in Roots
         /\ Attempted.dependents = Links(Attempted.root)
         /\ attempt.id \in Roots => Attempted.root = attempt.id
<1>1. attempt.id \in Ids
  BY AttemptedIsTyped
<1> QED
  BY <1>1 DEF LinkedInv, OwnersInv, Attempted, Links

\* The links of an instruction that ends pass to the loop over them.
LEMMA CountedEnds ==
  ASSUME TypeOK, LinkedInv, CountedInv, ApplyEnds, Attempted.root \notin ended
  PROVE  CountedInv'
<1> DEFINE q == Attempted.root
           d == Links(q)
<1>1. attempt # Nobody /\ q \in Roots /\ Attempted.dependents = d
  BY AttemptedIsRooted DEF ApplyEnds, Answered
<1>2. /\ UNCHANGED <<records, dependency_counts, constructed, round, released>>
      /\ callers' = IF d = {} THEN callers ELSE <<d>> \o callers
      /\ ended' = ended \cup {q} /\ begun' = begun \cup {q} /\ attempt' = Nobody
  BY <1>1 DEF ApplyEnds, BeginRoot
<1>3. Ids' = Ids /\ Roots' = Roots /\ UNCHANGED loading
      /\ \A r : records'[r].dependents = Links(r)
  BY <1>2 DEF Ids, Roots, Links, constructed
<1>4. ended \subseteq Roots
  BY DEF TypeOK, CountedInv, ScopeInv
<1>5. \A f \in DOMAIN callers : callers[f] \cap d = {}
  <2> SUFFICES ASSUME NEW f \in DOMAIN callers, NEW e \in callers[f], e \in d
               PROVE  FALSE
    OBVIOUS
  <2>1. PICK r \in ended : e \in Links(r)
    BY DEF CountedInv, FramesInv
  <2>2. r # q /\ r \in Roots
    BY <1>4, <2>1
  <2> QED
    BY <1>1, <2>1, <2>2 DEF LinkedInv, LinksInv
<1>6. /\ \A f \in DOMAIN callers : \E g \in DOMAIN callers' : callers'[g] = callers[f]
      /\ d # {} => \E g \in DOMAIN callers' : callers'[g] = d
      /\ \A g \in DOMAIN callers' :
           \/ d # {} /\ callers'[g] = d /\ g = 1
           \/ /\ d # {} /\ g # 1 /\ g - 1 \in DOMAIN callers /\ callers'[g] = callers[g - 1]
              /\ g \in Nat
           \/ d = {} /\ g \in DOMAIN callers /\ callers'[g] = callers[g]
  <2>1. CASE d = {}
    BY <1>2, <2>1
  <2>2. CASE d # {}
    <3>1. callers \in Seq(SUBSET Edges)
      BY DEF TypeOK
    <3>2. d \in SUBSET Edges
      BY <1>1, AttemptedIsTyped DEF RecordType
    <3> DEFINE T == SUBSET Edges
    <3>3. callers \in Seq(T) /\ d \in T
      BY <3>1, <3>2
    <3> HIDE DEF T, d
    <3>4. callers' = <<d>> \o callers
      BY <1>2, <2>2
    <3>5. /\ Len(callers) \in Nat /\ DOMAIN callers = 1 .. Len(callers)
          /\ DOMAIN callers' = 1 .. (Len(callers) + 1) /\ callers'[1] = d
          /\ \A f \in DOMAIN callers : callers'[f + 1] = callers[f]
          /\ \A f \in DOMAIN callers' :
               f = 1 \/ (f - 1 \in DOMAIN callers /\ callers'[f] = callers[f - 1])
      BY <3>3, <3>4, StackPushed
    <3>6. \A f \in DOMAIN callers : f + 1 \in DOMAIN callers'
      BY <3>5
    <3>7. 1 \in DOMAIN callers' /\ DOMAIN callers' \subseteq Nat
      BY <3>5
    <3> QED
      BY <2>2, <3>5, <3>6, <3>7
  <2> QED
    BY <2>1, <2>2
<1> HIDE DEF d
<1>7. \A e : IsOutstanding(e)' <=> IsOutstanding(e)
  <2> SUFFICES ASSUME NEW e
               PROVE  (\/ \E r \in Roots \ ended' : e \in Links(r)
                       \/ \E f \in DOMAIN callers' : e \in callers'[f]) <=> IsOutstanding(e)
    BY <1>3 DEF IsOutstanding, Links
  <2>1. ASSUME NEW r \in Roots \ ended', e \in Links(r)
        PROVE  IsOutstanding(e)
    BY <1>2, <2>1 DEF IsOutstanding
  <2>2. ASSUME NEW f \in DOMAIN callers', e \in callers'[f]
        PROVE  IsOutstanding(e)
    BY <1>1, <1>6, <2>2 DEF IsOutstanding, d
  <2>3. ASSUME NEW r \in Roots \ ended, e \in Links(r)
        PROVE  \/ \E s \in Roots \ ended' : e \in Links(s)
               \/ \E f \in DOMAIN callers' : e \in callers'[f]
    BY <1>2, <1>6, <2>3 DEF d
  <2>4. ASSUME NEW f \in DOMAIN callers, e \in callers[f]
        PROVE  \E g \in DOMAIN callers' : e \in callers'[g]
    BY <1>6, <2>4
  <2> QED
    BY <2>1, <2>2, <2>3, <2>4 DEF IsOutstanding
<1>8. Outstanding' = Outstanding
  <2>1. \A e : e \in Outstanding' <=> e \in Outstanding
    BY <1>7, OutstandingIs, OutstandingIsNext
  <2> QED
    BY <2>1 DEF Outstanding
<1>9. ScopeInv'
  BY <1>1, <1>2, <1>3 DEF CountedInv, ScopeInv, ApplyEnds, Answered
<1>10. FramesInv'
  <2>1. \A g \in DOMAIN callers' : callers'[g] # {}
    BY <1>6 DEF CountedInv, FramesInv
  <2>2. ASSUME NEW f \in DOMAIN callers', NEW g \in DOMAIN callers', f # g
        PROVE  callers'[f] \cap callers'[g] = {}
    <3>1. CASE f = 1 /\ d # {}
      BY <1>5, <1>6, <2>2, <3>1
    <3>2. CASE g = 1 /\ d # {}
      BY <1>5, <1>6, <2>2, <3>2
    <3>3. CASE f # 1 /\ g # 1 /\ d # {}
      <4>1. /\ f - 1 \in DOMAIN callers /\ callers'[f] = callers[f - 1] /\ f \in Nat
            /\ g - 1 \in DOMAIN callers /\ callers'[g] = callers[g - 1] /\ g \in Nat
        BY <1>6, <3>3
      <4>2. f - 1 # g - 1
        BY <2>2, <4>1
      <4> QED
        BY <4>1, <4>2 DEF CountedInv, FramesInv
    <3>4. CASE d = {}
      BY <1>6, <2>2, <3>4 DEF CountedInv, FramesInv
    <3> QED
      BY <3>1, <3>2, <3>3, <3>4
  <2>3. ASSUME NEW f \in DOMAIN callers', NEW e \in callers'[f]
        PROVE  \E r \in ended' : e \in records'[r].dependents
    <3>1. CASE callers'[f] = d
      BY <1>2, <1>3, <2>3, <3>1 DEF d
    <3>2. CASE \E g \in DOMAIN callers : callers'[f] = callers[g]
      BY <1>2, <1>3, <2>3, <3>2 DEF CountedInv, FramesInv, Links
    <3> QED
      BY <1>6, <3>1, <3>2
  <2> QED
    BY <2>1, <2>2, <2>3 DEF FramesInv, Links
<1>11. CountsExact'
  BY <1>2, <1>3, <1>8, CountsSurvive DEF CountedInv
<1> QED
  BY <1>9, <1>10, <1>11 DEF CountedInv

\* A turn of the innermost loop: what it takes from the frame, and from the count.
Taken(e) ==
  /\ e \in Head(callers)
  /\ callers' = IF Head(callers) \ {e} = {} THEN Tail(callers)
                ELSE <<Head(callers) \ {e}>> \o Tail(callers)
  /\ dependency_counts' = [dependency_counts EXCEPT ![e[1]] = Decremented(@)]
  /\ released' = IF dependency_counts[e[1]] = 1 THEN released \cup {e[1]} ELSE released

\* Where the dependent goes once it waits for nobody.
Freed(e) ==
  LET immediate == IsImmediate(records[e[1]].kind)
  IN  \/ /\ dependency_counts[e[1]] # 1
         /\ attempt' = Nobody /\ UNCHANGED <<current_wave, next_wave>>
      \/ /\ dependency_counts[e[1]] = 1 /\ immediate /\ round = "proximate"
         /\ current_wave' = [current_wave EXCEPT !.heads = Append(@, e[1])]
         /\ attempt' = Nobody /\ UNCHANGED next_wave
      \/ /\ dependency_counts[e[1]] = 1 /\ immediate /\ round # "proximate"
         /\ attempt' = [id |-> e[1], origin |-> "dependent"]
         /\ UNCHANGED <<current_wave, next_wave>>
      \/ /\ dependency_counts[e[1]] = 1 /\ ~ immediate
         /\ next_wave' = [next_wave EXCEPT !.heads = Append(@, e[1])]
         /\ attempt' = Nobody /\ UNCHANGED current_wave

\* Release takes one link from the innermost loop and frees its instruction.
LEMMA ReleaseTakes ==
  ASSUME Release
  PROVE  /\ \E e : Taken(e) /\ Freed(e)
         /\ attempt = Nobody /\ callers # << >> /\ status = "running"
         /\ UNCHANGED <<records, constructed, round, applied, status,
                        begun, ended>>
<1>1. PICK e \in NextDependents :
        LET dependent == e[1]
            left      == Head(callers) \ {e}
            free      == dependency_counts[dependent] = 1
            immediate == IsImmediate(records[dependent].kind)
            inCurrent == free /\ immediate /\ round = "proximate"
            atOnce    == free /\ immediate /\ round # "proximate"
        IN
        /\ callers' = IF left = {} THEN Tail(callers) ELSE <<left>> \o Tail(callers)
        /\ dependency_counts' = [dependency_counts EXCEPT ![dependent] = Decremented(@)]
        /\ released' = IF free THEN released \cup {dependent} ELSE released
        /\ attempt' = IF atOnce THEN [id |-> dependent, origin |-> "dependent"] ELSE Nobody
        /\ current_wave' = IF inCurrent
                             THEN [current_wave EXCEPT !.heads = Append(@, dependent)]
                             ELSE current_wave
        /\ next_wave' = IF free /\ ~immediate
                          THEN [next_wave EXCEPT !.heads = Append(@, dependent)]
                          ELSE next_wave
  BY DEF Release
<1>2. Taken(e)
  BY <1>1 DEF Taken, NextDependents
<1>3. Freed(e)
  BY <1>1 DEF Freed
<1>4. /\ attempt = Nobody /\ callers # << >> /\ status = "running"
      /\ UNCHANGED <<records, constructed, round, applied, status,
                     begun, ended>>
  BY DEF Release
<1> QED
  BY <1>2, <1>3, <1>4

\* The frames after the turn.
LEMMA FramesAfterTurn ==
  ASSUME TypeOK, callers # << >>, NEW e, Taken(e)
  PROVE  /\ 1 \in DOMAIN callers /\ e \in callers[1]
         /\ \A g \in DOMAIN callers' :
              \/ g = 1 /\ callers'[g] = callers[1] \ {e} /\ callers'[g] # {}
                 /\ callers[1] \ {e} # {}
              \/ /\ callers[1] \ {e} # {} /\ g # 1
                 /\ g \in DOMAIN callers /\ callers'[g] = callers[g]
              \/ /\ callers[1] \ {e} = {} /\ g \in Nat /\ g + 1 # 1
                 /\ g + 1 \in DOMAIN callers /\ callers'[g] = callers[g + 1]
         /\ \A f \in DOMAIN callers : \A x \in callers[f] :
              f # 1 \/ x # e => \E g \in DOMAIN callers' : x \in callers'[g]
<1> DEFINE T == SUBSET Edges
           left == Head(callers) \ {e}
           rest == Tail(callers)
<1>1. callers \in Seq(T)
  BY DEF TypeOK
<1>2. e \in Head(callers) /\ callers' = IF left = {} THEN rest ELSE <<left>> \o rest
  BY DEF Taken
<1>3. left = callers[1] \ {e} /\ left \in T
  <2>1. Head(callers) = callers[1] /\ callers[1] \in T
    BY <1>1
  <2> QED
    BY <2>1
<1> HIDE DEF T
<1>4. /\ rest \in Seq(T) /\ Len(callers) \in Nat /\ DOMAIN callers = 1 .. Len(callers)
      /\ 1 \in DOMAIN callers /\ Head(callers) = callers[1]
      /\ DOMAIN rest = 1 .. (Len(callers) - 1)
      /\ \A k \in DOMAIN rest : k + 1 \in DOMAIN callers /\ rest[k] = callers[k + 1]
      /\ \A k \in DOMAIN callers : k = 1 \/ (k - 1 \in DOMAIN rest /\ callers[k] = rest[k - 1])
  BY <1>1, TailElements
<1> HIDE DEF left, rest
<1>5. CASE left = {}
  <2>1. callers' = rest
    BY <1>2, <1>5
  <2>2. \A g \in DOMAIN callers' : g \in Nat /\ g + 1 # 1
    BY <1>4, <2>1
  <2>3. ASSUME NEW f \in DOMAIN callers, NEW x \in callers[f], f # 1 \/ x # e
        PROVE  \E g \in DOMAIN callers' : x \in callers'[g]
    <3>1. f # 1
      BY <1>3, <1>5, <2>3
    <3> QED
      BY <1>4, <2>1, <2>3, <3>1
  <2> QED
    BY <1>2, <1>3, <1>4, <1>5, <2>1, <2>2, <2>3
<1>6. CASE left # {}
  <2>1. callers' = <<left>> \o rest
    BY <1>2, <1>6
  <2>2. /\ Len(rest) \in Nat /\ DOMAIN rest = 1 .. Len(rest)
        /\ DOMAIN callers' = 1 .. (Len(rest) + 1) /\ callers'[1] = left
        /\ \A f \in DOMAIN rest : callers'[f + 1] = rest[f]
        /\ \A f \in DOMAIN callers' :
             f = 1 \/ (f - 1 \in DOMAIN rest /\ callers'[f] = rest[f - 1])
    <3>1. left \in T /\ rest \in Seq(T)
      BY <1>3, <1>4
    <3> QED
      BY <2>1, <3>1, StackPushed
  <2>3. ASSUME NEW g \in DOMAIN callers', g # 1
        PROVE  g \in DOMAIN callers /\ callers'[g] = callers[g]
    <3>1. g - 1 \in DOMAIN rest /\ callers'[g] = rest[g - 1] /\ g \in Nat
      BY <2>2, <2>3
    <3>2. (g - 1) + 1 \in DOMAIN callers /\ rest[g - 1] = callers[(g - 1) + 1]
      BY <1>4, <3>1
    <3>3. (g - 1) + 1 = g
      BY <3>1
    <3> QED
      BY <3>1, <3>2, <3>3
  <2>4. ASSUME NEW f \in DOMAIN callers, NEW x \in callers[f], f # 1 \/ x # e
        PROVE  \E g \in DOMAIN callers' : x \in callers'[g]
    <3>1. CASE f = 1
      <4>1. 1 \in DOMAIN callers' /\ x \in callers'[1]
        BY <1>3, <2>2, <2>4, <3>1
      <4> QED
        BY <4>1
    <3>2. CASE f # 1
      <4>1. f - 1 \in DOMAIN rest /\ callers[f] = rest[f - 1] /\ f \in Nat
        BY <1>4, <2>4, <3>2
      <4>2. callers'[(f - 1) + 1] = rest[f - 1] /\ (f - 1) + 1 \in DOMAIN callers'
        BY <2>2, <4>1
      <4> QED
        BY <2>4, <4>1, <4>2
    <3> QED
      BY <3>1, <3>2
  <2> QED
    BY <1>2, <1>3, <1>4, <1>6, <2>2, <2>3, <2>4
<1> QED
  BY <1>5, <1>6

\* One link fewer is outstanding, and it was counted.
LEMMA CountedReleases ==
  ASSUME TypeOK, LinkedInv, CountedInv, callers # << >>, NEW e, Taken(e),
         UNCHANGED <<records, constructed, round, begun, ended>>, ~loading
  PROVE  /\ CountedInv'
         /\ e[1] \in Roots /\ dependency_counts[e[1]] \in Nat /\ dependency_counts[e[1]] > 0
         /\ dependency_counts' = [dependency_counts EXCEPT ![e[1]] = @ - 1]
<1>1. /\ 1 \in DOMAIN callers /\ e \in callers[1]
      /\ \A g \in DOMAIN callers' :
           \/ g = 1 /\ callers'[g] = callers[1] \ {e} /\ callers'[g] # {}
              /\ callers[1] \ {e} # {}
           \/ /\ callers[1] \ {e} # {} /\ g # 1
              /\ g \in DOMAIN callers /\ callers'[g] = callers[g]
           \/ /\ callers[1] \ {e} = {} /\ g \in Nat /\ g + 1 # 1
              /\ g + 1 \in DOMAIN callers /\ callers'[g] = callers[g + 1]
      /\ \A f \in DOMAIN callers : \A x \in callers[f] :
           f # 1 \/ x # e => \E g \in DOMAIN callers' : x \in callers'[g]
  BY FramesAfterTurn
<1>2. /\ Ids' = Ids /\ Roots' = Roots /\ UNCHANGED loading
      /\ \A r : records'[r].dependents = Links(r)
  BY DEF Ids, Roots, Links, constructed
<1>3. ended \subseteq Roots /\ Roots \subseteq Ids
  BY RootsAreIds DEF TypeOK, CountedInv, ScopeInv, LinkedInv
<1>4. PICK r \in ended : e \in Links(r)
  BY <1>1 DEF CountedInv, FramesInv
<1>5. e \in Outstanding
  BY <1>1, OutstandingIs DEF IsOutstanding
<1>6. e[1] \in Roots /\ e[2] \in Patches /\ e = <<e[1], e[2]>>
  BY <1>5, OutstandingIsTyped DEF CountedInv
<1>7. \A f \in DOMAIN callers : f # 1 => e \notin callers[f]
  BY <1>1 DEF CountedInv, FramesInv
<1>8. \A s \in Roots \ ended : e \notin Links(s)
  BY <1>3, <1>4 DEF LinkedInv, LinksInv
<1>9. \A x : x \in Outstanding' <=> x \in Outstanding /\ x # e
  <2> SUFFICES ASSUME NEW x
               PROVE  (\/ \E s \in Roots \ ended : x \in Links(s)
                       \/ \E g \in DOMAIN callers' : x \in callers'[g])
                      <=> IsOutstanding(x) /\ x # e
    BY <1>2, OutstandingIs, OutstandingIsNext DEF IsOutstanding, Links
  <2>1. ASSUME NEW s \in Roots \ ended, x \in Links(s)
        PROVE  IsOutstanding(x) /\ x # e
    BY <1>8, <2>1 DEF IsOutstanding
  <2>2. ASSUME NEW g \in DOMAIN callers', x \in callers'[g]
        PROVE  IsOutstanding(x) /\ x # e
    BY <1>1, <1>7, <2>2 DEF IsOutstanding
  <2>3. ASSUME IsOutstanding(x), x # e
        PROVE  \/ \E s \in Roots \ ended : x \in Links(s)
               \/ \E g \in DOMAIN callers' : x \in callers'[g]
    BY <1>1, <2>3 DEF IsOutstanding
  <2> QED
    BY <2>1, <2>2, <2>3
<1>10. Waiting(e[1])' = Waiting(e[1]) \ {e[2]} /\ e[2] \in Waiting(e[1])
       /\ \A i \in Ids : i # e[1] => Waiting(i)' = Waiting(i)
  <2>1. ASSUME NEW i, NEW p \in Patches
        PROVE  <<i, p>> \in Outstanding' <=> <<i, p>> \in Outstanding /\ <<i, p>> # e
    BY <1>9
  <2>2. ASSUME NEW i, NEW p
        PROVE  <<i, p>> = e <=> i = e[1] /\ p = e[2]
    BY <1>6
  <2>3. e[2] \in Waiting(e[1])
    BY <1>5, <1>6 DEF Waiting
  <2>4. \A i \in Ids : i # e[1] => Waiting(i)' = Waiting(i)
    BY <2>1, <2>2 DEF Waiting
  <2>5. Waiting(e[1])' = Waiting(e[1]) \ {e[2]}
    <3>1. \A p \in Patches : <<e[1], p>> \in Outstanding'
                             <=> <<e[1], p>> \in Outstanding /\ p # e[2]
      BY <2>1, <2>2
    <3> QED
      BY <3>1 DEF Waiting
  <2> QED
    BY <2>3, <2>4, <2>5
<1>11. \A i \in Ids : dependency_counts[i] = Cardinality(Waiting(i))
  BY DEF CountedInv, CountsExact, Waiting
<1>12. /\ Cardinality(Waiting(e[1])) \in Nat /\ Cardinality(Waiting(e[1])) > 0
       /\ Cardinality(Waiting(e[1]) \ {e[2]}) = Cardinality(Waiting(e[1])) - 1
  <2>1. IsFiniteSet(Waiting(e[1])) /\ Cardinality(Waiting(e[1])) \in Nat
    BY WaitingIsFinite
  <2>2. Cardinality(Waiting(e[1])) # 0
    BY <1>10, <2>1, FS_EmptySet
  <2>3. Cardinality(Waiting(e[1]) \ {e[2]}) = Cardinality(Waiting(e[1])) - 1
    BY <1>10, <2>1, FS_RemoveElement
  <2> QED
    BY <2>1, <2>2, <2>3
<1>13. /\ dependency_counts[e[1]] \in Nat /\ dependency_counts[e[1]] > 0
       /\ dependency_counts' = [dependency_counts EXCEPT ![e[1]] = @ - 1]
  <2>1. dependency_counts[e[1]] \in Nat /\ dependency_counts[e[1]] > 0
    BY <1>3, <1>6, <1>11, <1>12
  <2>2. Decremented(dependency_counts[e[1]]) = dependency_counts[e[1]] - 1
    BY <2>1 DEF Decremented
  <2> QED
    BY <2>1, <2>2 DEF Taken
<1>14. \A i \in Ids : dependency_counts'[i] = Cardinality(Waiting(i)')
  <2> SUFFICES ASSUME NEW i \in Ids
               PROVE  dependency_counts'[i] = Cardinality(Waiting(i)')
    OBVIOUS
  <2>1. dependency_counts \in [Ids -> Nat]
    BY DEF TypeOK
  <2>2. CASE i = e[1]
    <3>1. dependency_counts'[i] = dependency_counts[i] - 1
      BY <1>13, <2>1, <2>2
    <3>2. Waiting(i)' = Waiting(e[1]) \ {e[2]}
      BY <1>10, <2>2
    <3> QED
      BY <1>11, <1>12, <2>2, <3>1, <3>2
  <2>3. CASE i # e[1]
    BY <1>10, <1>11, <1>13, <2>1, <2>3
  <2> QED
    BY <2>2, <2>3
<1>15. CountsExact'
  BY <1>2, <1>14 DEF CountsExact, Waiting
<1>16. ScopeInv'
  <2>1. \A i \in Ids \ Roots : dependency_counts'[i] = 0
    <3>1. dependency_counts \in [Ids -> Nat]
      BY DEF TypeOK
    <3> QED
      BY <1>6, <1>13, <3>1 DEF CountedInv, ScopeInv
  <2>2. released' \subseteq Roots
    BY <1>6 DEF CountedInv, ScopeInv, Taken
  <2> QED
    BY <1>2, <2>1, <2>2 DEF CountedInv, ScopeInv
<1>17. FramesInv'
  <2>1. \A g \in DOMAIN callers' : callers'[g] # {}
    BY <1>1 DEF CountedInv, FramesInv
  <2>2. ASSUME NEW f \in DOMAIN callers', NEW g \in DOMAIN callers', f # g
        PROVE  callers'[f] \cap callers'[g] = {}
    <3>1. CASE callers[1] \ {e} = {}
      <4>1. /\ f \in Nat /\ f + 1 \in DOMAIN callers /\ callers'[f] = callers[f + 1]
            /\ g \in Nat /\ g + 1 \in DOMAIN callers /\ callers'[g] = callers[g + 1]
        BY <1>1, <3>1
      <4>2. f + 1 # g + 1
        BY <2>2, <4>1
      <4> QED
        BY <4>1, <4>2 DEF CountedInv, FramesInv
    <3>2. CASE callers[1] \ {e} # {}
      <4>1. /\ f \in DOMAIN callers /\ callers'[f] \subseteq callers[f]
            /\ g \in DOMAIN callers /\ callers'[g] \subseteq callers[g]
        BY <1>1, <3>2
      <4>2. callers[f] \cap callers[g] = {}
        BY <2>2, <4>1 DEF CountedInv, FramesInv
      <4> QED
        BY <4>1, <4>2
    <3> QED
      BY <3>1, <3>2
  <2>3. ASSUME NEW g \in DOMAIN callers', NEW x \in callers'[g]
        PROVE  \E s \in ended : x \in Links(s)
    <3>1. \E f \in DOMAIN callers : x \in callers[f]
      BY <1>1, <2>3
    <3> QED
      BY <3>1 DEF CountedInv, FramesInv
  <2> QED
    BY <1>2, <2>1, <2>2, <2>3 DEF FramesInv, Links
<1> QED
  BY <1>6, <1>13, <1>15, <1>16, <1>17 DEF CountedInv

\* Nobody waits for a follow-up, and it waits for nobody.
LEMMA CountedContinues ==
  ASSUME TypeOK, LinkedInv, CountedInv, ApplyContinues, GrowthMoves, ~loading
  PROVE  CountedInv'
<1>1. /\ attempt.id \in Ids /\ FollowupId \notin Ids
      /\ Ids' = Ids \cup {FollowupId}
      /\ \A i \in Ids : records'[i] = records[i]
      /\ \A i \in Ids : dependency_counts'[i] = dependency_counts[i]
      /\ dependency_counts'[FollowupId] = 0
      /\ UNCHANGED <<program, last_instruction, loading>>
  BY FollowupIsAdded
<1>2. Roots' = Roots /\ Roots \subseteq Ids
  BY <1>1, RootsAreIds DEF LinkedInv, Roots
<1>3. callers' = callers /\ UNCHANGED <<ended, released, round>>
  BY DEF ApplyContinues, AfterGrowth
<1>4. ended \subseteq Roots
  BY DEF TypeOK, CountedInv, ScopeInv
<1>5. \A r \in Roots : records'[r].dependents = records[r].dependents
  BY <1>1, <1>2
<1>6. Outstanding' = Outstanding
  BY <1>2, <1>3, <1>5 DEF Outstanding
<1>7. CountsExact'
  <2>1. \A p \in Patches : <<FollowupId, p>> \notin Outstanding
    <3> SUFFICES ASSUME NEW p \in Patches, <<FollowupId, p>> \in Outstanding
                 PROVE  FALSE
      OBVIOUS
    <3>1. <<FollowupId, p>>[1] \in Roots
      BY OutstandingIsTyped DEF CountedInv
    <3> QED
      BY <1>1, <1>2, <3>1
  <2>2. {p \in Patches : <<FollowupId, p>> \in Outstanding} = {}
    BY <2>1
  <2>3. Cardinality({p \in Patches : <<FollowupId, p>> \in Outstanding}) = 0
    BY <2>2, FS_EmptySet
  <2>4. \A i \in Ids : dependency_counts[i] = Cardinality({p \in Patches : <<i, p>> \in Outstanding})
    BY DEF CountedInv, CountsExact
  <2> QED
    BY <1>1, <1>6, <2>3, <2>4 DEF CountsExact
<1>8. ScopeInv'
  <2>1. begun' \subseteq Roots
    <3>1. attempt # Nobody /\ begun' = begun \cup {Attempted.root}
      BY DEF ApplyContinues, Answered, BeginRoot
    <3> QED
      BY <3>1, AttemptedIsRooted DEF CountedInv, ScopeInv
  <2> QED
    BY <1>1, <1>2, <1>3, <2>1 DEF CountedInv, ScopeInv
<1>9. FramesInv'
  BY <1>2, <1>3, <1>4, <1>5 DEF CountedInv, FramesInv, Links
<1> QED
  BY <1>7, <1>8, <1>9 DEF CountedInv

\* The constructor counts exactly the links it makes.
LEMMA CountedLoads ==
  ASSUME TypeOK, LinkedInv, CountedInv, NEW ins \in Instructions, LoadInstruction(ins)
  PROVE  CountedInv'
<1> DEFINE id == Len(program) + 1
           shared == Shared(ins)
           linked(i) == {<<id, p>> : p \in {q \in shared : last_instruction[q] = i}}
<1>1. /\ id \notin Ids /\ Roots = Ids /\ Roots' = Roots \cup {id} /\ Ids' = Ids \cup {id}
      /\ \A i \in Ids : records'[i].dependents = records[i].dependents \cup linked(i)
      /\ records'[id].dependents = {}
      /\ \A i \in Ids : dependency_counts'[i] = dependency_counts[i]
      /\ dependency_counts'[id] = Cardinality(shared)
      /\ ins.patches \in SUBSET Patches /\ loading /\ UNCHANGED loading
  <2>1. id = Len(program) + 1 /\ OwnersInv
    BY DEF LinkedInv
  <2> HIDE DEF id
  <2> QED
    BY <2>1, InstructionIsAdded
<1>2. /\ begun = {} /\ ended = {} /\ callers = << >> /\ DOMAIN callers = {}
      /\ UNCHANGED <<begun, ended, callers, attempt, round, released>>
  <2>1. begun = {} /\ callers = << >> /\ ended = {}
    BY <1>1 DEF CountedInv, ScopeInv, TypeOK
  <2> QED
    BY <2>1 DEF LoadInstruction
<1>3. \A p \in shared : p \in Patches /\ last_instruction[p] \in Ids
  BY <1>1 DEF LinkedInv, LastInv, Shared
<1> HIDE DEF id, shared
<1>4. \A x : x \in Outstanding' <=> x \in Outstanding \/ \E p \in shared : x = <<id, p>>
  <2> SUFFICES ASSUME NEW x
               PROVE  (\E r \in Roots' : x \in records'[r].dependents)
                      <=> (\E r \in Roots : x \in records[r].dependents)
                          \/ \E p \in shared : x = <<id, p>>
    BY <1>2, OutstandingIs, OutstandingIsNext DEF IsOutstanding, Links
  <2>1. ASSUME NEW p \in shared, x = <<id, p>>
        PROVE  \E r \in Roots' : x \in records'[r].dependents
    <3>1. x \in linked(last_instruction[p])
      BY <2>1
    <3> QED
      BY <1>1, <1>3, <3>1
  <2>2. ASSUME NEW r \in Roots', x \in records'[r].dependents, x \notin records[r].dependents
        PROVE  \E p \in shared : x = <<id, p>>
    BY <1>1, <2>2
  <2>3. ASSUME NEW r \in Roots', x \in records'[r].dependents
        PROVE  r \in Roots
    BY <1>1, <2>3
  <2>4. ASSUME NEW r \in Roots, x \in records[r].dependents
        PROVE  r \in Roots' /\ x \in records'[r].dependents
    BY <1>1, <2>4
  <2> QED
    BY <2>1, <2>2, <2>3, <2>4
<1>5. \A p \in Patches : <<id, p>> \notin Outstanding
  <2> SUFFICES ASSUME NEW p \in Patches, <<id, p>> \in Outstanding
               PROVE  FALSE
    OBVIOUS
  <2>1. <<id, p>>[1] \in Roots
    BY OutstandingIsTyped DEF CountedInv
  <2> QED
    BY <1>1, <2>1
<1>6. {p \in Patches : <<id, p>> \in Outstanding'} = shared
  BY <1>3, <1>4, <1>5
<1>7. \A i \in Ids : {p \in Patches : <<i, p>> \in Outstanding'}
                       = {p \in Patches : <<i, p>> \in Outstanding}
  BY <1>1, <1>4
<1>8. CountsExact'
  <2>1. \A i \in Ids : dependency_counts[i] = Cardinality({p \in Patches : <<i, p>> \in Outstanding})
    BY DEF CountedInv, CountsExact
  <2>2. \A i \in Ids' : dependency_counts'[i] = Cardinality({p \in Patches : <<i, p>> \in Outstanding'})
    BY <1>1, <1>6, <1>7, <2>1
  <2> QED
    BY <2>2 DEF CountsExact
<1>9. ScopeInv'
  BY <1>1, <1>2 DEF CountedInv, ScopeInv
<1>10. FramesInv'
  BY <1>2 DEF FramesInv
<1> QED
  BY <1>8, <1>9, <1>10 DEF CountedInv

-----------------------------------------------------------------------------
\* The lists of both waves and the attempt.
PlaceNames ==
  {"proximate", "heads", "deferred", "decomposed", "next_proximate", "next_heads",
   "next_deferred", "next_decomposed", "attempt"}

Owner == [i \in Ids |-> records[i].root]

\* Custody in the terms of the facts about lists above.
CustodyInv ==
  /\ OnceIn(Places, Owner)
  /\ \A r \in Roots : HeldIn(Places, Owner, r) <=> r \notin ended /\ dependency_counts[r] = 0
  /\ \A r \in ended : dependency_counts[r] = 0

\* The places one by one.
LEMMA PlacesAre ==
  /\ DOMAIN Places = PlaceNames
  /\ Places["proximate"] = current_wave.proximate
  /\ Places["heads"] = current_wave.heads
  /\ Places["deferred"] = current_wave.deferred
  /\ Places["decomposed"] = current_wave.decomposed
  /\ Places["next_proximate"] = next_wave.proximate
  /\ Places["next_heads"] = next_wave.heads
  /\ Places["next_deferred"] = next_wave.deferred
  /\ Places["next_decomposed"] = next_wave.decomposed
  /\ attempt = Nobody => Places["attempt"] = << >>
  /\ attempt # Nobody => Places["attempt"] = <<attempt.id>>
BY DEF Places, PlaceNames

\* Every place is a list of ids.
LEMMA PlacesAreTyped == TypeOK => Places \in [PlaceNames -> Seq(Ids)]
<1> SUFFICES ASSUME TypeOK
             PROVE  Places \in [PlaceNames -> Seq(Ids)]
  OBVIOUS
<1>1. /\ current_wave.proximate \in Seq(Ids) /\ current_wave.heads \in Seq(Ids)
      /\ current_wave.deferred \in Seq(Ids) /\ current_wave.decomposed \in Seq(Ids)
      /\ next_wave.proximate \in Seq(Ids) /\ next_wave.heads \in Seq(Ids)
      /\ next_wave.deferred \in Seq(Ids) /\ next_wave.decomposed \in Seq(Ids)
  BY DEF TypeOK, WaveType
<1>2. Places["attempt"] \in Seq(Ids)
  <2>1. CASE attempt = Nobody
    <3>1. Places["attempt"] = << >>
      BY <2>1, PlacesAre
    <3> QED
      BY <3>1
  <2>2. CASE attempt # Nobody
    <3>1. attempt.id \in Ids
      BY <2>2, AttemptedIsTyped
    <3>2. Places["attempt"] = <<attempt.id>>
      BY <2>2, PlacesAre
    <3>3. \A i \in Ids : <<i>> \in Seq(Ids)
      OBVIOUS
    <3> QED
      BY <3>1, <3>2, <3>3
  <2> QED
    BY <2>1, <2>2
<1>3. \A a \in PlaceNames : Places[a] \in Seq(Ids)
  BY <1>1, <1>2, PlacesAre DEF PlaceNames
<1>4. Places = [a \in DOMAIN Places |-> Places[a]]
  BY DEF Places
<1> QED
  BY <1>3, <1>4, PlacesAre

\* The two forms of Custody say the same.
LEMMA CustodyIs == TypeOK => (Custody <=> CustodyInv)
<1> SUFFICES ASSUME TypeOK
             PROVE  Custody <=> CustodyInv
  OBVIOUS
<1>1. Places \in [PlaceNames -> Seq(Ids)] /\ DOMAIN Places = PlaceNames
  BY PlacesAreTyped, PlacesAre
<1>2. \A a \in DOMAIN Places : \A k \in DOMAIN Places[a] :
        records[Places[a][k]].root = Owner[Places[a][k]]
  BY <1>1 DEF Owner
<1> QED
  BY <1>2 DEF Custody, CustodyInv, OnceIn, HeldIn

\* The same facts about the next state.
LEMMA NextPlaces ==
  /\ (DOMAIN Places = PlaceNames
      /\ Places["proximate"] = current_wave.proximate
      /\ Places["heads"] = current_wave.heads
      /\ Places["deferred"] = current_wave.deferred
      /\ Places["decomposed"] = current_wave.decomposed
      /\ Places["next_proximate"] = next_wave.proximate
      /\ Places["next_heads"] = next_wave.heads
      /\ Places["next_deferred"] = next_wave.deferred
      /\ Places["next_decomposed"] = next_wave.decomposed
      /\ (attempt = Nobody => Places["attempt"] = << >>)
      /\ (attempt # Nobody => Places["attempt"] = <<attempt.id>>))'
  /\ (TypeOK => Places \in [PlaceNames -> Seq(Ids)])'
  /\ (TypeOK => (Custody <=> CustodyInv))'
<1>1. (TypeOK => Places \in [PlaceNames -> Seq(Ids)])'
  BY PlacesAreTyped, PTL
<1>2. (TypeOK => (Custody <=> CustodyInv))'
  BY CustodyIs, PTL
<1>3. Places' = [proximate |-> current_wave'.proximate, heads |-> current_wave'.heads,
     deferred |-> current_wave'.deferred, decomposed |-> current_wave'.decomposed,
     next_proximate |-> next_wave'.proximate, next_heads |-> next_wave'.heads,
     next_deferred |-> next_wave'.deferred, next_decomposed |-> next_wave'.decomposed,
     attempt |-> IF attempt' = Nobody THEN << >> ELSE <<attempt'.id>>]
  BY DEF Places, Nobody
<1> QED
  BY <1>1, <1>2, <1>3 DEF PlaceNames, Nobody

-----------------------------------------------------------------------------
\* The places with nothing being attempted.
Untried == [Places EXCEPT !["attempt"] = << >>]

\* Without the attempt everything else is held as before.
LEMMA AttemptTaken ==
  ASSUME TypeOK, CustodyInv, attempt # Nobody, attempt.id \in Ids
  PROVE  /\ Untried \in [PlaceNames -> Seq(Ids)]
         /\ OnceIn(Untried, Owner)
         /\ \A r : HeldIn(Untried, Owner, r) <=> HeldIn(Places, Owner, r) /\ r # Attempted.root
         /\ HeldIn(Places, Owner, Attempted.root)
<1>1. Places \in [PlaceNames -> Seq(Ids)] /\ Places["attempt"] = <<attempt.id>>
      /\ DOMAIN Places = PlaceNames
  BY PlacesAreTyped, PlacesAre
<1>2. "attempt" \in PlaceNames
  BY DEF PlaceNames
<1>3. /\ Untried \in [PlaceNames -> Seq(Ids)] /\ Untried["attempt"] = << >>
      /\ \A b \in PlaceNames \ {"attempt"} : Untried[b] = Places[b]
  BY <1>1, <1>2 DEF Untried
<1>4. Owner[attempt.id] = Attempted.root
  BY DEF Owner, Attempted
<1>5. /\ Places["attempt"] # << >> /\ Untried["attempt"] = Tail(Places["attempt"])
      /\ Head(Places["attempt"]) = attempt.id
      /\ 1 \in DOMAIN Places["attempt"] /\ Places["attempt"][1] = attempt.id
  BY <1>1, <1>3
<1>6. OnceIn(Places, Owner)
  BY DEF CustodyInv
<1>7. /\ OnceIn(Untried, Owner)
      /\ \A r : HeldIn(Untried, Owner, r) <=> HeldIn(Places, Owner, r) /\ r # Attempted.root
  <2> DEFINE Q == Places
             R == Untried
             o == Owner
             N == PlaceNames
             S == Ids
             a == "attempt"
  <2>1. ListsOver(N, S, Q, R) /\ TakesFrom(N, Q, R, a) /\ OnceIn(Q, o)
    BY <1>1, <1>2, <1>3, <1>5, <1>6 DEF ListsOver, TakesFrom
  <2>2. o[Head(Q[a])] = Attempted.root
    BY <1>4, <1>5
  <2> HIDE DEF Q, R, o, N, S, a
  <2>3. /\ OnceIn(R, o)
        /\ \A r : HeldIn(R, o, r) <=> HeldIn(Q, o, r) /\ r # o[Head(Q[a])]
    BY <2>1, ListTaken
  <2> QED
    BY <2>2, <2>3 DEF Q, R, o
<1>8. HeldIn(Places, Owner, Attempted.root)
  BY <1>1, <1>2, <1>4, <1>5 DEF HeldIn
<1> QED
  BY <1>3, <1>7, <1>8

\* Whose ids they are does not change.
OwnersKept == Ids \subseteq Ids' /\ \A i \in Ids : records'[i].root = records[i].root

\* The owner of an old id stays.
LEMMA OwnersStay ==
  ASSUME OwnersKept
  PROVE  \A i \in Ids : Owner'[i] = Owner[i]
BY DEF OwnersKept, Owner

\* The attempt, or its follow-up, is put at the end of a list.
LEMMA PutBack ==
  ASSUME TypeOK, TypeOK', CustodyInv, attempt # Nobody, attempt.id \in Ids, OwnersKept,
         NEW a \in PlaceNames, NEW i \in Ids', records'[i].root = Attempted.root,
         Places'[a] = Append(Untried[a], i),
         \A b \in PlaceNames \ {a} : Places'[b] = Untried[b]
  PROVE  /\ OnceIn(Places', Owner')
         /\ \A r : HeldIn(Places', Owner', r) <=> HeldIn(Places, Owner, r)
<1>1. /\ Untried \in [PlaceNames -> Seq(Ids)]
      /\ OnceIn(Untried, Owner)
      /\ \A r : HeldIn(Untried, Owner, r) <=> HeldIn(Places, Owner, r) /\ r # Attempted.root
      /\ HeldIn(Places, Owner, Attempted.root)
  BY AttemptTaken
<1>2. \A j \in Ids : Owner'[j] = Owner[j]
  BY OwnersStay
<1>3. /\ OnceIn(Untried, Owner')
      /\ \A r : HeldIn(Untried, Owner', r) <=> HeldIn(Untried, Owner, r)
  BY <1>1, <1>2, OwnersAgree
<1>4. Untried \in [PlaceNames -> Seq(Ids')]
  <2>1. Ids \subseteq Ids'
    BY DEF OwnersKept
  <2>2. \A b \in PlaceNames : Untried[b] \in Seq(Ids')
    BY <1>1, <2>1, SequencesWiden
  <2> QED
    BY <1>1, <2>2
<1>5. Places' \in [PlaceNames -> Seq(Ids')]
  BY NextPlaces
<1>6. Owner'[i] = Attempted.root
  BY DEF Owner
<1>7. ~ HeldIn(Untried, Owner', Owner'[i])
  BY <1>1, <1>3, <1>6
<1>8. /\ OnceIn(Places', Owner')
      /\ \A r : HeldIn(Places', Owner', r) <=> HeldIn(Untried, Owner', r) \/ r = Owner'[i]
  <2> DEFINE Q == Untried
             R == Places'
             o == Owner'
             w == Attempted.root
             N == PlaceNames
             S == Ids'
  <2>1. ListsOver(N, S, Q, R) /\ Extends(N, Q, R, a, i) /\ OnceIn(Q, o)
        /\ o[i] = w /\ ~ HeldIn(Q, o, w)
    BY <1>3, <1>4, <1>5, <1>6, <1>7 DEF ListsOver, Extends
  <2>2. i \in S
    OBVIOUS
  <2> HIDE DEF Q, R, o, w, N, S
  <2>3. /\ OnceIn(R, o)
        /\ \A r : HeldIn(R, o, r) <=> HeldIn(Q, o, r) \/ r = w
    BY <2>1, <2>2, ListExtended
  <2> QED
    BY <1>6, <2>3 DEF Q, R, o, w
<1> QED
  BY <1>1, <1>3, <1>6, <1>8

\* Custody is kept when what is held stays the same.
LEMMA CustodyMoved ==
  ASSUME CustodyInv, OnceIn(Places', Owner'),
         \A r : HeldIn(Places', Owner', r) <=> HeldIn(Places, Owner, r),
         UNCHANGED <<program, ended>>, ended \subseteq Roots,
         \A r \in Roots : dependency_counts'[r] = dependency_counts[r]
  PROVE  CustodyInv'
<1>1. Roots' = Roots
  BY DEF Roots
<1> QED
  BY <1>1 DEF CustodyInv

\* Steps that leave everything where it is.
LEMMA CustodyStays ==
  ASSUME TypeOK, CustodyInv, Keeping, UNCHANGED <<current_wave, next_wave, attempt>>,
         UNCHANGED <<ended, dependency_counts>>, ended \subseteq Roots
  PROVE  CustodyInv'
<1>1. KeepsRecords /\ UNCHANGED program
  BY RecordsAreKept
<1>2. Places' = Places /\ Owner' = Owner
  BY <1>1 DEF Places, Owner, KeepsRecords, Nobody
<1> QED
  BY <1>1, <1>2, CustodyMoved DEF CustodyInv

\* Answers that put the attempt, or its follow-up, into a list.
LEMMA CustodyPutBack ==
  ASSUME TypeOK, TypeOK', CustodyInv, ended \subseteq Roots, Roots \subseteq Ids,
         attempt # Nobody, OwnersKept, UNCHANGED <<program, ended>>,
         \A r \in Roots : dependency_counts'[r] = dependency_counts[r],
         NEW i \in Ids', records'[i].root = Attempted.root, i # 0,
         \/ /\ attempt' = Nobody /\ UNCHANGED next_wave
            /\ \/ current_wave' = [current_wave EXCEPT !.deferred = Append(@, i)]
               \/ current_wave' = [current_wave EXCEPT !.decomposed = Append(@, i)]
         \/ /\ attempt' = Nobody /\ UNCHANGED current_wave
            /\ \/ next_wave' = [next_wave EXCEPT !.proximate = Append(@, i)]
               \/ next_wave' = [next_wave EXCEPT !.heads = Append(@, i)]
         \/ attempt' # Nobody /\ attempt'.id = i /\ UNCHANGED <<current_wave, next_wave>>
  PROVE  CustodyInv'
<1>1. attempt.id \in Ids
  BY AttemptedIsTyped
<1>2. /\ current_wave \in WavesOver(Ids) /\ next_wave \in WavesOver(Ids)
  BY DEF TypeOK, WaveType, WavesOver
<1>3. \A b \in PlaceNames : Untried[b] = IF b = "attempt" THEN << >> ELSE Places[b]
  BY PlacesAre DEF Untried, PlaceNames
<1> DEFINE Into(a) == /\ a \in PlaceNames /\ Places'[a] = Append(Untried[a], i)
                      /\ \A b \in PlaceNames \ {a} : Places'[b] = Untried[b]
<1>4. \E a \in PlaceNames : Into(a)
  <2>1. CASE attempt' = Nobody /\ UNCHANGED next_wave
             /\ current_wave' = [current_wave EXCEPT !.deferred = Append(@, i)]
    <3>1. /\ current_wave'.deferred = Append(current_wave.deferred, i)
          /\ current_wave'.proximate = current_wave.proximate
          /\ current_wave'.heads = current_wave.heads
          /\ current_wave'.decomposed = current_wave.decomposed
      BY <1>2, <2>1 DEF WavesOver
    <3>2. Into("deferred")
      BY <1>3, <2>1, <3>1, PlacesAre, NextPlaces DEF PlaceNames
    <3> QED
      BY <3>2
  <2>2. CASE attempt' = Nobody /\ UNCHANGED next_wave
             /\ current_wave' = [current_wave EXCEPT !.decomposed = Append(@, i)]
    <3>1. /\ current_wave'.decomposed = Append(current_wave.decomposed, i)
          /\ current_wave'.proximate = current_wave.proximate
          /\ current_wave'.heads = current_wave.heads
          /\ current_wave'.deferred = current_wave.deferred
      BY <1>2, <2>2 DEF WavesOver
    <3>2. Into("decomposed")
      BY <1>3, <2>2, <3>1, PlacesAre, NextPlaces DEF PlaceNames
    <3> QED
      BY <3>2
  <2>3. CASE attempt' = Nobody /\ UNCHANGED current_wave
             /\ next_wave' = [next_wave EXCEPT !.proximate = Append(@, i)]
    <3>1. /\ next_wave'.proximate = Append(next_wave.proximate, i)
          /\ next_wave'.heads = next_wave.heads
          /\ next_wave'.deferred = next_wave.deferred
          /\ next_wave'.decomposed = next_wave.decomposed
      BY <1>2, <2>3 DEF WavesOver
    <3>2. Into("next_proximate")
      BY <1>3, <2>3, <3>1, PlacesAre, NextPlaces DEF PlaceNames
    <3> QED
      BY <3>2
  <2>4. CASE attempt' = Nobody /\ UNCHANGED current_wave
             /\ next_wave' = [next_wave EXCEPT !.heads = Append(@, i)]
    <3>1. /\ next_wave'.heads = Append(next_wave.heads, i)
          /\ next_wave'.proximate = next_wave.proximate
          /\ next_wave'.deferred = next_wave.deferred
          /\ next_wave'.decomposed = next_wave.decomposed
      BY <1>2, <2>4 DEF WavesOver
    <3>2. Into("next_heads")
      BY <1>3, <2>4, <3>1, PlacesAre, NextPlaces DEF PlaceNames
    <3> QED
      BY <3>2
  <2>5. CASE attempt' # Nobody /\ attempt'.id = i /\ UNCHANGED <<current_wave, next_wave>>
    <3>1. Places'["attempt"] = <<i>> /\ Untried["attempt"] = << >>
      BY <1>3, <2>5, NextPlaces DEF PlaceNames
    <3>2. Append(<< >>, i) = <<i>>
      OBVIOUS
    <3>3. Into("attempt")
      BY <1>3, <2>5, <3>1, <3>2, PlacesAre, NextPlaces DEF PlaceNames
    <3> QED
      BY <3>3
  <2> QED
    BY <2>1, <2>2, <2>3, <2>4, <2>5
<1>5. /\ OnceIn(Places', Owner')
      /\ \A r : HeldIn(Places', Owner', r) <=> HeldIn(Places, Owner, r)
  BY <1>1, <1>4, PutBack
<1> QED
  BY <1>5, CustodyMoved

\* An instruction that ends leaves its place, and it had not ended before.
LEMMA CustodyEnds ==
  ASSUME TypeOK, TypeOK', LinkedInv, CustodyInv, ApplyEnds, ended \subseteq Roots
  PROVE  CustodyInv' /\ Attempted.root \in Roots \ ended
<1>1. attempt # Nobody /\ attempt.id \in Ids /\ Attempted.root \in Roots
  BY AttemptedIsRooted DEF ApplyEnds, Answered
<1>2. /\ UNCHANGED <<records, dependency_counts, current_wave, next_wave, program>>
      /\ attempt' = Nobody /\ ended' = ended \cup {Attempted.root}
  BY DEF ApplyEnds, constructed
<1>3. Ids' = Ids /\ Owner' = Owner /\ Roots' = Roots
  BY <1>2 DEF Ids, Owner, Roots
<1>4. Places' = Untried
  <2>1. Places' \in [PlaceNames -> Seq(Ids)] /\ Untried \in [PlaceNames -> Seq(Ids)]
    BY <1>1, <1>3, NextPlaces, AttemptTaken
  <2>2. \A b \in PlaceNames : Places'[b] = Untried[b]
    BY <1>2, NextPlaces, PlacesAre DEF Untried, PlaceNames
  <2> QED
    BY <2>1, <2>2
<1>5. /\ OnceIn(Untried, Owner)
      /\ \A r : HeldIn(Untried, Owner, r) <=> HeldIn(Places, Owner, r) /\ r # Attempted.root
      /\ HeldIn(Places, Owner, Attempted.root)
  BY <1>1, AttemptTaken
<1>6. Attempted.root \notin ended /\ dependency_counts[Attempted.root] = 0
  BY <1>1, <1>5 DEF CustodyInv
<1> QED
  BY <1>1, <1>2, <1>3, <1>4, <1>5, <1>6 DEF CustodyInv

\* The next instruction of the list of this round is attempted.
LEMMA CustodyTakes ==
  ASSUME TypeOK, TypeOK', CustodyInv, Take, ended \subseteq Roots
  PROVE  CustodyInv'
<1>1. /\ UNCHANGED <<records, dependency_counts, next_wave, program, ended>>
      /\ attempt = Nobody
  BY DEF Take, constructed, history
<1>2. Ids' = Ids /\ Owner' = Owner
  BY <1>1 DEF Ids, Owner
<1>3. current_wave \in WavesOver(Ids)
  BY DEF TypeOK, WaveType, WavesOver
<1> DEFINE From(a) == /\ a \in PlaceNames \ {"attempt"} /\ Places[a] # << >>
                      /\ Places'[a] = Tail(Places[a])
                      /\ attempt' = [id |-> Head(Places[a]), origin |-> "list"]
                      /\ \A b \in PlaceNames \ {a, "attempt"} : Places'[b] = Places[b]
<1>4. \E a : From(a)
  <2>1. CASE round = "proximate"
    <3>1. /\ current_wave' = [current_wave EXCEPT !.proximate = Tail(@)]
          /\ current_wave.proximate # << >>
          /\ attempt' = [id |-> Head(current_wave.proximate), origin |-> "list"]
      BY <2>1 DEF Take, ListOf
    <3>2. /\ current_wave'.proximate = Tail(current_wave.proximate)
          /\ current_wave'.heads = current_wave.heads
          /\ current_wave'.deferred = current_wave.deferred
          /\ current_wave'.decomposed = current_wave.decomposed
      BY <1>3, <3>1 DEF WavesOver
    <3>3. From("proximate")
      BY <1>1, <3>1, <3>2, PlacesAre, NextPlaces DEF PlaceNames
    <3> QED
      BY <3>3
  <2>2. CASE round = "heads"
    <3>1. /\ current_wave' = [current_wave EXCEPT !.heads = Tail(@)]
          /\ current_wave.heads # << >>
          /\ attempt' = [id |-> Head(current_wave.heads), origin |-> "list"]
      BY <2>2 DEF Take, ListOf
    <3>2. /\ current_wave'.heads = Tail(current_wave.heads)
          /\ current_wave'.proximate = current_wave.proximate
          /\ current_wave'.deferred = current_wave.deferred
          /\ current_wave'.decomposed = current_wave.decomposed
      BY <1>3, <3>1 DEF WavesOver
    <3>3. From("heads")
      BY <1>1, <3>1, <3>2, PlacesAre, NextPlaces DEF PlaceNames
    <3> QED
      BY <3>3
  <2>3. CASE round = "decompose"
    <3>1. /\ current_wave' = [current_wave EXCEPT !.deferred = Tail(@)]
          /\ current_wave.deferred # << >>
          /\ attempt' = [id |-> Head(current_wave.deferred), origin |-> "list"]
      BY <2>3 DEF Take, ListOf
    <3>2. /\ current_wave'.deferred = Tail(current_wave.deferred)
          /\ current_wave'.proximate = current_wave.proximate
          /\ current_wave'.heads = current_wave.heads
          /\ current_wave'.decomposed = current_wave.decomposed
      BY <1>3, <3>1 DEF WavesOver
    <3>3. From("deferred")
      BY <1>1, <3>1, <3>2, PlacesAre, NextPlaces DEF PlaceNames
    <3> QED
      BY <3>3
  <2>4. CASE round = "apply"
    <3>1. /\ current_wave' = [current_wave EXCEPT !.decomposed = Tail(@)]
          /\ current_wave.decomposed # << >>
          /\ attempt' = [id |-> Head(current_wave.decomposed), origin |-> "list"]
      BY <2>4 DEF Take, ListOf
    <3>2. /\ current_wave'.decomposed = Tail(current_wave.decomposed)
          /\ current_wave'.proximate = current_wave.proximate
          /\ current_wave'.heads = current_wave.heads
          /\ current_wave'.deferred = current_wave.deferred
      BY <1>3, <3>1 DEF WavesOver
    <3>3. From("decomposed")
      BY <1>1, <3>1, <3>2, PlacesAre, NextPlaces DEF PlaceNames
    <3> QED
      BY <3>3
  <2> QED
    BY <2>1, <2>2, <2>3, <2>4 DEF Take, TypeOK, Rounds
<1>5. PICK a : From(a)
  BY <1>4
<1> DEFINE Q == Places
           M == [Places EXCEPT ![a] = Tail(Places[a])]
           R == Places'
           o == Owner
           i == Head(Places[a])
           w == Owner[Head(Places[a])]
           N == PlaceNames
           S == Ids
<1>6. Q \in [N -> Seq(S)] /\ R \in [N -> Seq(S)] /\ a \in N
  BY <1>2, <1>5, PlacesAreTyped, NextPlaces
<1>7. Q[a] \in Seq(S) /\ Q[a] # << >>
  BY <1>5, <1>6
<1>8. i \in S /\ 1 \in DOMAIN Q[a] /\ i = Q[a][1] /\ Tail(Q[a]) \in Seq(S)
  <2> DEFINE s == Q[a]
  <2>1. s \in Seq(S) /\ s # << >>
    BY <1>7
  <2> HIDE DEF s, S
  <2>2. Head(s) \in S /\ 1 \in DOMAIN s /\ Head(s) = s[1] /\ Tail(s) \in Seq(S)
    BY <2>1, TailElements
  <2> QED
    BY <2>2 DEF s
<1>9. M \in [N -> Seq(S)]
  <2>1. Tail(Q[a]) \in Seq(S)
    BY <1>8
  <2> QED
    BY <1>6, <2>1
<1>10. ListsOver(N, S, Q, M) /\ TakesFrom(N, Q, M, a) /\ OnceIn(Q, o)
  BY <1>6, <1>7, <1>9 DEF ListsOver, TakesFrom, CustodyInv
<1>11. "attempt" \in N /\ Q["attempt"] = << >> /\ a # "attempt"
  BY <1>1, <1>5, PlacesAre DEF PlaceNames
<1>12. R["attempt"] = <<i>>
  <2>1. attempt' # Nobody /\ attempt'.id = i
    BY <1>5 DEF Nobody
  <2> QED
    BY <2>1, NextPlaces
<1>13. Append(<< >>, i) = <<i>>
  OBVIOUS
<1>14. ListsOver(N, S, M, R) /\ Extends(N, M, R, "attempt", i)
  BY <1>5, <1>6, <1>9, <1>11, <1>12, <1>13 DEF ListsOver, Extends
<1> HIDE DEF Q, M, R, o, N, S
<1>15. /\ OnceIn(M, o)
       /\ \A r : HeldIn(M, o, r) <=> HeldIn(Q, o, r) /\ r # o[Head(Q[a])]
  BY <1>10, ListTaken
<1>16. o[Head(Q[a])] = w /\ o[i] = w
  BY DEF o, Q
<1>17. HeldIn(Q, o, w)
  <2>1. DOMAIN Q = N /\ a \in N
    BY <1>6
  <2> QED
    BY <1>8, <1>16, <2>1 DEF HeldIn
<1> HIDE DEF i, w
<1>18. ~ HeldIn(M, o, w)
  BY <1>15, <1>16
<1>19. /\ OnceIn(R, o)
       /\ \A r : HeldIn(R, o, r) <=> HeldIn(M, o, r) \/ r = w
  BY <1>8, <1>14, <1>15, <1>16, <1>18, ListExtended
<1>20. \A r : HeldIn(R, o, r) <=> HeldIn(Q, o, r)
  BY <1>15, <1>16, <1>17, <1>19
<1> QED
  BY <1>1, <1>2, <1>19, <1>20, CustodyMoved DEF Q, R, o

\* One more instruction waits for nobody, and it is put into a list.
LEMMA CustodyReleases ==
  ASSUME TypeOK, TypeOK', LinkedInv, CountedInv, CustodyInv, callers # << >>, ~loading,
         NEW e, Taken(e), Freed(e), attempt = Nobody,
         UNCHANGED <<records, constructed, round, begun, ended>>
  PROVE  CustodyInv'
<1> DEFINE d == e[1]
<1>1. /\ d \in Roots /\ dependency_counts[d] \in Nat /\ dependency_counts[d] > 0
      /\ dependency_counts' = [dependency_counts EXCEPT ![d] = @ - 1]
  BY CountedReleases
<1>2. /\ Ids' = Ids /\ Owner' = Owner /\ Roots' = Roots /\ UNCHANGED program
  BY DEF Ids, Owner, Roots, constructed
<1>3. Roots \subseteq Ids /\ ended \subseteq Roots /\ records[d].root = d /\ d \in Ids
  BY <1>1, RootsAreIds DEF LinkedInv, OwnersInv, CountedInv, ScopeInv, TypeOK
<1>4. dependency_counts \in [Ids -> Nat]
  BY DEF TypeOK
<1>5. /\ dependency_counts'[d] = dependency_counts[d] - 1
      /\ \A r \in Roots : r # d => dependency_counts'[r] = dependency_counts[r]
  BY <1>1, <1>3, <1>4
<1>6. ~ HeldIn(Places, Owner, d) /\ d \notin ended
  BY <1>1 DEF CustodyInv
<1>7. CASE dependency_counts[d] # 1
  <2>1. Places' = Places
    BY <1>7 DEF Freed, Places, Nobody
  <2>2. dependency_counts'[d] # 0
    BY <1>1, <1>5, <1>7
  <2>3. \A r \in Roots : r # d => (HeldIn(Places', Owner', r)
                                   <=> r \notin ended' /\ dependency_counts'[r] = 0)
    BY <1>2, <1>5, <2>1 DEF CustodyInv
  <2>4. \A r \in ended : r # d => dependency_counts'[r] = 0
    BY <1>3, <1>5 DEF CustodyInv
  <2> QED
    BY <1>2, <1>6, <2>1, <2>2, <2>3, <2>4 DEF CustodyInv
<1>8. CASE dependency_counts[d] = 1
  <2> DEFINE Into(a) == /\ a \in PlaceNames /\ Places'[a] = Append(Places[a], d)
                        /\ \A b \in PlaceNames \ {a} : Places'[b] = Places[b]
  <2>1. \E a : Into(a)
    <3>1. /\ current_wave \in WavesOver(Ids) /\ next_wave \in WavesOver(Ids)
      BY DEF TypeOK, WaveType, WavesOver
    <3>2. CASE /\ current_wave' = [current_wave EXCEPT !.heads = Append(@, d)]
               /\ attempt' = Nobody /\ UNCHANGED next_wave
      <4>1. /\ current_wave'.heads = Append(current_wave.heads, d)
            /\ current_wave'.proximate = current_wave.proximate
            /\ current_wave'.deferred = current_wave.deferred
            /\ current_wave'.decomposed = current_wave.decomposed
        BY <3>1, <3>2 DEF WavesOver
      <4>2. Into("heads")
        BY <3>2, <4>1, PlacesAre, NextPlaces DEF PlaceNames
      <4> QED
        BY <4>2
    <3>3. CASE /\ next_wave' = [next_wave EXCEPT !.heads = Append(@, d)]
               /\ attempt' = Nobody /\ UNCHANGED current_wave
      <4>1. /\ next_wave'.heads = Append(next_wave.heads, d)
            /\ next_wave'.proximate = next_wave.proximate
            /\ next_wave'.deferred = next_wave.deferred
            /\ next_wave'.decomposed = next_wave.decomposed
        BY <3>1, <3>3 DEF WavesOver
      <4>2. Into("next_heads")
        BY <3>3, <4>1, PlacesAre, NextPlaces DEF PlaceNames
      <4> QED
        BY <4>2
    <3>4. CASE /\ attempt' = [id |-> d, origin |-> "dependent"]
               /\ UNCHANGED <<current_wave, next_wave>>
      <4>1. attempt' # Nobody /\ attempt'.id = d
        BY <3>4 DEF Nobody
      <4>2. Places["attempt"] = << >> /\ Places'["attempt"] = <<d>> /\ Append(<< >>, d) = <<d>>
        BY <4>1, PlacesAre, NextPlaces
      <4>3. Into("attempt")
        BY <3>4, <4>2, PlacesAre, NextPlaces DEF PlaceNames
      <4> QED
        BY <4>3
    <3> QED
      BY <1>8, <3>2, <3>3, <3>4 DEF Freed
  <2>2. PICK a : Into(a)
    BY <2>1
  <2> DEFINE Q == Places
             R == Places'
             o == Owner
             N == PlaceNames
             S == Ids
  <2>3. Q \in [N -> Seq(S)] /\ R \in [N -> Seq(S)]
    BY <1>2, PlacesAreTyped, NextPlaces
  <2>4. ListsOver(N, S, Q, R) /\ Extends(N, Q, R, a, d) /\ OnceIn(Q, o) /\ d \in S
    BY <1>3, <2>2, <2>3 DEF ListsOver, Extends, CustodyInv
  <2>5. o[d] = d /\ ~ HeldIn(Q, o, d)
    BY <1>3, <1>6 DEF Owner
  <2>6. \A r \in Roots : HeldIn(Q, o, r) <=> r \notin ended /\ dependency_counts[r] = 0
    BY DEF CustodyInv
  <2> HIDE DEF Q, R, o, N, S, d
  <2>7. /\ OnceIn(R, o)
        /\ \A r : HeldIn(R, o, r) <=> HeldIn(Q, o, r) \/ r = d
    BY <2>4, <2>5, ListExtended
  <2>8. dependency_counts'[d] = 0
    BY <1>1, <1>5, <1>8
  <2>9. \A r \in Roots : HeldIn(R, o, r) <=> r \notin ended /\ dependency_counts'[r] = 0
    BY <1>5, <1>6, <2>6, <2>7, <2>8
  <2>10. \A r \in ended : dependency_counts'[r] = 0
    BY <1>3, <1>5, <1>6 DEF CustodyInv
  <2> QED
    BY <1>2, <2>7, <2>9, <2>10 DEF CustodyInv, R, o
<1> QED
  BY <1>7, <1>8

\* The next wave becomes the current one, of which nothing was left.
LEMMA CustodySwaps ==
  ASSUME TypeOK, TypeOK', CustodyInv, EndWave, ended \subseteq Roots,
         current_wave = EmptyWave
  PROVE  CustodyInv'
<1>1. /\ UNCHANGED <<records, dependency_counts, program, ended>>
      /\ attempt = Nobody /\ attempt' = Nobody
      /\ current_wave' = next_wave /\ next_wave' = EmptyWave
  BY DEF EndWave, RoundOver, SwappedIn, constructed, history
<1>2. Ids' = Ids /\ Owner' = Owner
  BY <1>1 DEF Ids, Owner
<1> DEFINE to == [a \in PlaceNames |->
                    CASE a = "next_proximate" -> "proximate"
                      [] a = "next_heads" -> "heads"
                      [] a = "next_deferred" -> "deferred"
                      [] a = "next_decomposed" -> "decomposed"
                      [] OTHER -> a]
           Q == Places
           R == Places'
           o == Owner
           N == PlaceNames
           S == Ids
<1>3. Q \in [N -> Seq(S)] /\ R \in [N -> Seq(S)]
  BY <1>2, PlacesAreTyped, NextPlaces
<1>4. /\ to["next_proximate"] = "proximate" /\ to["next_heads"] = "heads"
      /\ to["next_deferred"] = "deferred" /\ to["next_decomposed"] = "decomposed"
      /\ to \in [N -> N]
  BY DEF PlaceNames
<1>5. /\ EmptyWave.proximate = << >> /\ EmptyWave.heads = << >>
      /\ EmptyWave.deferred = << >> /\ EmptyWave.decomposed = << >>
  BY DEF EmptyWave
<1>6. /\ Q["proximate"] = << >> /\ Q["heads"] = << >> /\ Q["deferred"] = << >>
      /\ Q["decomposed"] = << >> /\ Q["attempt"] = << >>
      /\ R["next_proximate"] = << >> /\ R["next_heads"] = << >> /\ R["next_deferred"] = << >>
      /\ R["next_decomposed"] = << >> /\ R["attempt"] = << >>
      /\ R["proximate"] = Q["next_proximate"] /\ R["heads"] = Q["next_heads"]
      /\ R["deferred"] = Q["next_deferred"] /\ R["decomposed"] = Q["next_decomposed"]
  BY <1>1, <1>5, PlacesAre, NextPlaces
<1> HIDE DEF to, Q, R, o, S
<1>7. Renames(N, Q, R, to)
  <2>1. \A a \in N : Q[a] # << >> => R[to[a]] = Q[a]
    BY <1>4, <1>6 DEF PlaceNames
  <2>2. \A b \in N : R[b] # << >> => \E a \in N : to[a] = b /\ R[b] = Q[a]
    BY <1>4, <1>6 DEF PlaceNames
  <2> QED
    BY <1>4, <2>1, <2>2 DEF Renames
<1>8. ListsOver(N, S, Q, R) /\ OnceIn(Q, o)
  BY <1>3 DEF ListsOver, CustodyInv, Q, o
<1>9. /\ OnceIn(R, o)
      /\ \A r : HeldIn(R, o, r) <=> HeldIn(Q, o, r)
  BY <1>7, <1>8, ListsRenamed
<1> QED
  BY <1>1, <1>2, <1>9, CustodyMoved DEF Q, R, o

\* What is read is a head exactly if it waits for nobody.
LEMMA CustodyLoads ==
  ASSUME TypeOK, TypeOK', LinkedInv, CountedInv, CustodyInv,
         NEW ins \in Instructions, LoadInstruction(ins)
  PROVE  CustodyInv'
<1> DEFINE id == Len(program) + 1
           shared == Shared(ins)
<1>1. /\ id \notin Ids /\ Roots = Ids /\ Roots' = Roots \cup {id} /\ Ids' = Ids \cup {id}
      /\ \A i \in Ids : records'[i].root = records[i].root
      /\ records'[id].root = id
      /\ \A i \in Ids : dependency_counts'[i] = dependency_counts[i]
      /\ dependency_counts'[id] = Cardinality(shared)
      /\ ins.patches \in SUBSET Patches /\ loading
  <2>1. id = Len(program) + 1 /\ OwnersInv
    BY DEF LinkedInv
  <2> HIDE DEF id
  <2> QED
    BY <2>1, InstructionIsAdded
<1>2. /\ UNCHANGED <<next_wave, attempt, ended>> /\ attempt = Nobody /\ ended = {}
      /\ current_wave' = IF shared = {} THEN [current_wave EXCEPT !.heads = Append(@, id)]
                         ELSE current_wave
  <2>1. attempt = Nobody /\ begun = {} /\ ended = {}
    BY <1>1 DEF CountedInv, ScopeInv, TypeOK
  <2>2. Len(records) = Len(program)
    BY <1>1 DEF LinkedInv, OwnersInv
  <2>3. shared = {p \in ins.patches : last_instruction[p] # 0}
    BY DEF Shared
  <2> QED
    BY <2>1, <2>2, <2>3 DEF LoadInstruction
<1>3. Cardinality(shared) = 0 <=> shared = {}
  <2>1. shared \in SUBSET Patches
    BY <1>1 DEF Shared
  <2>2. IsFiniteSet(shared)
    BY <2>1, PatchesAssumption, FS_Subset
  <2> QED
    BY <2>2, FS_EmptySet
<1> DEFINE Q == Places
           R == Places'
           o == Owner'
           N == PlaceNames
           S == Ids'
<1>4. Q \in [N -> Seq(Ids)] /\ R \in [N -> Seq(S)]
  BY PlacesAreTyped, NextPlaces
<1>5. Q \in [N -> Seq(S)]
  <2>1. \A b \in N : Q[b] \in Seq(S)
    BY <1>1, <1>4, SequencesWiden
  <2> QED
    BY <1>4, <2>1
<1>6. \A i \in Ids : o[i] = Owner[i]
  BY <1>1, OwnersStay DEF OwnersKept
<1>7. o[id] = id /\ id \in S
  BY <1>1 DEF Owner
<1>8. \A r : HeldIn(Q, Owner, r) => r \in Ids
  <2> SUFFICES ASSUME NEW r, HeldIn(Q, Owner, r)
               PROVE  r \in Ids
    OBVIOUS
  <2>1. PICK b \in N : \E k \in DOMAIN Q[b] : Owner[Q[b][k]] = r
    BY <1>4 DEF HeldIn
  <2>2. PICK k \in DOMAIN Q[b] : Owner[Q[b][k]] = r
    BY <2>1
  <2>3. Q[b][k] \in Ids
    BY <1>4
  <2>4. Owner[Q[b][k]] = records[Q[b][k]].root
    BY <2>3 DEF Owner
  <2> QED
    BY <1>1, <2>2, <2>3, <2>4 DEF LinkedInv, OwnersInv
<1>9. OnceIn(Q, Owner)
  BY DEF CustodyInv
<1>10. OnceIn(Q, o) /\ \A r : HeldIn(Q, o, r) <=> HeldIn(Q, Owner, r)
  <2> DEFINE oo == Owner
  <2>1. /\ Q \in [N -> Seq(Ids)] /\ OnceIn(Q, oo)
        /\ \A i \in Ids : o[i] = oo[i]
    BY <1>4, <1>6, <1>9
  <2> HIDE DEF Q, o, oo, N
  <2>2. OnceIn(Q, o) /\ \A r : HeldIn(Q, o, r) <=> HeldIn(Q, oo, r)
    BY <2>1, OwnersAgree
  <2> QED
    BY <2>2 DEF oo
<1>11. ~ HeldIn(Q, o, id)
  BY <1>1, <1>8, <1>10
<1>12. \A r \in Roots : HeldIn(Q, o, r) <=> dependency_counts[r] = 0
  BY <1>2, <1>10 DEF CustodyInv
<1>13. CASE shared # {}
  <2>1. R = Q
    BY <1>2, <1>13 DEF Places, Nobody
  <2>2. dependency_counts'[id] # 0
    BY <1>1, <1>3, <1>13
  <2> HIDE DEF Q, o, R, id
  <2>3. \A r \in Roots' : HeldIn(R, o, r) <=> r \notin ended' /\ dependency_counts'[r] = 0
    BY <1>1, <1>2, <1>11, <1>12, <2>1, <2>2
  <2> QED
    BY <1>2, <1>10, <2>1, <2>3 DEF CustodyInv, R, o
<1>14. CASE shared = {}
  <2>1. current_wave \in WavesOver(Ids)
    BY DEF TypeOK, WaveType, WavesOver
  <2>2. /\ current_wave'.heads = Append(current_wave.heads, id)
        /\ current_wave'.proximate = current_wave.proximate
        /\ current_wave'.deferred = current_wave.deferred
        /\ current_wave'.decomposed = current_wave.decomposed
    BY <1>2, <1>14, <2>1 DEF WavesOver
  <2>3. Extends(N, Q, R, "heads", id)
    BY <1>2, <2>2, PlacesAre, NextPlaces DEF PlaceNames, Extends
  <2>4. ListsOver(N, S, Q, R)
    BY <1>4, <1>5 DEF ListsOver
  <2>5. dependency_counts'[id] = 0
    BY <1>1, <1>3, <1>14
  <2> HIDE DEF Q, o, R, id, N, S
  <2>6. /\ OnceIn(R, o)
        /\ \A r : HeldIn(R, o, r) <=> HeldIn(Q, o, r) \/ r = id
    BY <1>7, <1>10, <1>11, <2>3, <2>4, ListExtended
  <2>7. \A r \in Roots' : HeldIn(R, o, r) <=> r \notin ended' /\ dependency_counts'[r] = 0
    BY <1>1, <1>2, <1>11, <1>12, <2>5, <2>6
  <2> QED
    BY <1>2, <2>6, <2>7 DEF CustodyInv, R, o
<1> QED
  BY <1>13, <1>14

=============================================================================
