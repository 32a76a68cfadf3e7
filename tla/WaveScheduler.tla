--------------------------- MODULE WaveScheduler ---------------------------
(***************************************************************************)
(* The scheduler of the wave and EDPC pipelines (class WaveScheduler).     *)
(*                                                                         *)
(* The constructor reads the whole program and links every instruction to  *)
(* the last earlier instruction on each of its patches.  schedule_wave     *)
(* then applies one wave of instructions to the current slice: first the   *)
(* proximate heads (instructions continued from the previous wave), then   *)
(* the heads and, in EDPC mode, two further passes over the long range     *)
(* CNOTs that the first two passes deferred.  An instruction that ends     *)
(* releases its dependents, and a released dependent that is immediate is  *)
(* tried at once, inside the same wave, recursively.                       *)
(*                                                                         *)
(* The lattice is abstracted to the answers it gives: `attempt' is the     *)
(* instruction handed to try_apply_instruction_direct_followup, and        *)
(* Answers lists the shapes of InstructionApplicationResult which that     *)
(* operation can return.  The recursion of schedule_dependent_instructions *)
(* and try_schedule_immediately is the stack `callers': one frame for each *)
(* loop over dependents that is under way, holding what the loop has left. *)
(***************************************************************************)
EXTENDS LSInstructions, Sequences, FiniteSets

CONSTANT
  GrowthMoves         \* whether std::vector<InstructionRecord> moves its
                      \* elements when it grows (else it copies and frees)

ASSUME GrowthAssumption == GrowthMoves \in BOOLEAN
ASSUME PatchesAssumption == IsFiniteSet(Patches)

VARIABLES
  records,            \* records_: the instructions and their dependents
  dependency_counts,  \* dependency_counts_
  last_instruction,   \* the constructor's patch_id_to_last_instruction
  loading,            \* the constructor has not drained the stream yet
  current_wave,       \* current_wave_
  next_wave,          \* next_wave_
  round,              \* which call of schedule_instructions is running
  attempt,            \* the instruction being applied to the slice
  callers,            \* the loops over dependents that are under way
  applied,            \* applied_wave_size > 0
  status,             \* "running", or the exception that ended the run
  released,           \* history: dependents released during this wave
  program,            \* history: the patches of the instructions read
  begun,              \* history: instructions that are under way or done
  ended               \* history: instructions that are done

constructed == <<last_instruction, loading, program>>
history == <<released, begun, ended>>
vars == <<records, dependency_counts, current_wave, next_wave, round, attempt,
          callers, applied, status, constructed, history>>

-----------------------------------------------------------------------------
(* A definition that a comment calls faulty is the next one with a bug in it.   *)
(* No action uses it: it shows that the properties would notice the bug.        *)

(* Faulty: an H gate is tried at once. *)
IsImmediateOrH(kind) == kind \in {"Plain", "Rotate", "CNOT", "Pair", "H"}

IsImmediate(kind) == kind \in {"Plain", "Rotate", "CNOT", "Pair"}

(***************************************************************************)
(* Waves.  The lists a round has gone through are not read again (but for  *)
(* size(), a statistic nobody uses), so each round consumes its list.  The *)
(* list of deferred instructions is gone through twice: `deferred' holds   *)
(* those that the first deferred round has yet to visit, `decomposed'      *)
(* those that the second one has.                                          *)
(***************************************************************************)
EmptyWave == [proximate |-> << >>, heads |-> << >>,
              deferred |-> << >>, decomposed |-> << >>]

(* Faulty: the proximate heads are forgotten. *)
DoneWithHeads == current_wave.heads = << >>

Done == current_wave.proximate = << >> /\ current_wave.heads = << >>

Nobody == [id |-> 0, origin |-> "none"]

Ids == DOMAIN records

ListOf == [proximate |-> current_wave.proximate, heads |-> current_wave.heads,
           decompose |-> current_wave.deferred, apply |-> current_wave.decomposed]

(***************************************************************************)
(* The constructor: one instruction is read from the stream.  A dependent  *)
(* is a pair of an instruction and the patch that makes it wait, so that   *)
(* an instruction that shares two patches with its predecessor is listed   *)
(* there twice, as in the code.  The pairs of one record are visited in    *)
(* increasing order of instruction, which is the order of insertion.       *)
(***************************************************************************)
(* Faulty: predecessors are counted instead of links to them. *)
CountPredecessors(shared) == Cardinality({last_instruction[p] : p \in shared})

CountLinks(shared) == Cardinality(shared)

(* Faulty: only the first instruction on a patch is remembered. *)
FirstOnPatch(ins, id) ==
  [p \in Patches |-> IF p \in ins.patches /\ last_instruction[p] = 0 THEN id
                     ELSE last_instruction[p]]

LastOnPatch(ins, id) ==
  [p \in Patches |-> IF p \in ins.patches THEN id ELSE last_instruction[p]]

LoadInstruction(ins) ==
  LET id     == Len(records) + 1
      shared == {p \in ins.patches : last_instruction[p] # 0}
  IN
  /\ loading
  /\ Len(records) < MaxInstructions
  /\ records' =
       Append([i \in Ids |-> [records[i] EXCEPT !.dependents =
                 @ \cup {<<id, p>> : p \in {q \in shared : last_instruction[q] = i}}]],
              [kind |-> ins.kind, wait |-> ins.wait, stage |-> 0,
               dependents |-> {}, root |-> id])
  /\ dependency_counts' = Append(dependency_counts, CountLinks(shared))
  /\ last_instruction' = LastOnPatch(ins, id)
  /\ current_wave' = IF shared = {}
                       THEN [current_wave EXCEPT !.heads = Append(@, id)]
                       ELSE current_wave
  /\ program' = Append(program, ins.patches)
  /\ UNCHANGED <<loading, next_wave, round, attempt, callers, applied,
                 status, released, begun, ended>>

EndOfProgram ==
  /\ loading
  /\ loading' = FALSE
  /\ UNCHANGED <<records, dependency_counts, last_instruction, current_wave,
                 next_wave, round, attempt, callers, applied,
                 status, program, history>>

(***************************************************************************)
(* The stages of schedule_wave.                                            *)
(***************************************************************************)
StartWave ==
  /\ ~loading /\ status = "running"
  /\ round = "idle" /\ ~Done
  /\ round' = "proximate"
  /\ applied' = FALSE
  /\ released' = {}
  /\ UNCHANGED <<records, dependency_counts, constructed, current_wave,
                 next_wave, attempt, callers, status, begun, ended>>

RoundOver ==
  /\ round # "idle" /\ status = "running"
  /\ ListOf[round] = << >>
  /\ attempt = Nobody
  /\ callers = << >>

NextRound ==
  /\ RoundOver
  /\ \/ round = "proximate" /\ round' = "heads"
     \/ round = "heads" /\ EDPC /\ round' = "decompose"
     \/ round = "decompose" /\ round' = "apply"
  /\ UNCHANGED <<records, dependency_counts, constructed, current_wave,
                 next_wave, attempt, callers, applied, status, history>>

(* Faulty: there is no second round over the deferred instructions. *)
OneDeferredRound == IF EDPC THEN "decompose" ELSE "heads"

LastRound == IF EDPC THEN "apply" ELSE "heads"

(* Faulty: next_wave_ is cleared before the swap. *)
ClearedThenSwapped == EmptyWave

SwappedIn == next_wave

EndWave ==
  /\ RoundOver
  /\ round = LastRound
  /\ round' = "idle"
  /\ current_wave' = SwappedIn
  /\ next_wave' = EmptyWave
  /\ UNCHANGED <<records, dependency_counts, constructed, attempt, callers,
                 applied, status, history>>

(***************************************************************************)
(* schedule_instructions turns to the next instruction of its list.        *)
(***************************************************************************)
Take ==
  /\ round # "idle" /\ status = "running"
  /\ attempt = Nobody /\ callers = << >>
  /\ ListOf[round] # << >>
  /\ attempt' = [id |-> Head(ListOf[round]), origin |-> "list"]
  /\ current_wave' =
       CASE round = "proximate" -> [current_wave EXCEPT !.proximate = Tail(@)]
         [] round = "heads"     -> [current_wave EXCEPT !.heads = Tail(@)]
         [] round = "decompose" -> [current_wave EXCEPT !.deferred = Tail(@)]
         [] round = "apply"     -> [current_wave EXCEPT !.decomposed = Tail(@)]
  /\ UNCHANGED <<records, dependency_counts, constructed, next_wave, round,
                 callers, applied, status, history>>

-----------------------------------------------------------------------------
(***************************************************************************)
(* The answers to an attempt.                                              *)
(***************************************************************************)
Attempted == records[attempt.id]

Answered(answer) ==
  /\ attempt # Nobody /\ status = "running"
  /\ answer \in Answers(Attempted)

(* Faulty: the heads' count replaces that of the proximate heads. *)
CountsHeadsOnly == attempt.origin = "list" /\ round # "proximate"

CountsAsApplied == attempt.origin = "list"

Counted == applied' = (applied \/ CountsAsApplied)

BeginRoot == begun' = begun \cup {Attempted.root}

(* Applied for good: the loop over its dependents starts. *)
ApplyEnds ==
  /\ Answered("applied")
  /\ callers' = IF Attempted.dependents = {} THEN callers
                ELSE <<Attempted.dependents>> \o callers
  /\ attempt' = Nobody
  /\ Counted /\ BeginRoot
  /\ ended' = ended \cup {Attempted.root}
  /\ UNCHANGED <<records, dependency_counts, constructed, current_wave,
                 next_wave, round, status, released>>

(***************************************************************************)
(* records_ is full when its size is a power of two.  If it then grows by  *)
(* copying, the old records are freed and with them the lists which the    *)
(* loops under way are reading: what they read from then on is arbitrary.  *)
(***************************************************************************)
Full == \E k \in 0 .. Len(records) : Len(records) = 2 ^ k

AfterGrowth(frames) ==
  IF GrowthMoves \/ ~Full THEN {frames}
  ELSE {[f \in DOMAIN frames |-> {<<read[f][e], e[2]>> : e \in frames[f]}] :
          read \in [DOMAIN frames -> [UNION {frames[f] : f \in DOMAIN frames} -> Ids]]}

(* Faulty: the size of records_ is read after the push_back. *)
IdAfterPush == Len(records) + 2

FollowupId == Len(records) + 1

(* Applied, and continued by a new instruction with the same dependents. *)
ApplyContinues ==
  LET followup == FollowupId
      kind     == Followup(Attempted.kind)
  IN
  /\ Answered("followup")
  /\ records' = Append(records, [kind |-> kind, wait |-> DEFAULT_MAX_WAIT,
                                 stage |-> 0, root |-> Attempted.root,
                                 dependents |-> Attempted.dependents])
  /\ dependency_counts' = Append(dependency_counts, 0)
  /\ callers' \in AfterGrowth(callers)
  /\ IF IsImmediate(kind)
       THEN /\ attempt' = [id |-> followup, origin |-> "followup"]
            /\ UNCHANGED next_wave
       ELSE /\ attempt' = Nobody
            /\ next_wave' = [next_wave EXCEPT !.proximate = Append(@, followup)]
  /\ Counted /\ BeginRoot
  /\ UNCHANGED <<constructed, current_wave, round, status, released, ended>>

(* Applied in part, or not at all: it has rescheduled itself. *)
ApplyReschedules ==
  /\ Answered("rescheduled")
  /\ \E stage \in StagesAfter(Attempted) :
       records' = [records EXCEPT ![attempt.id].stage = stage]
  /\ next_wave' = [next_wave EXCEPT !.proximate = Append(@, attempt.id)]
  /\ attempt' = Nobody
  /\ Counted /\ BeginRoot
  /\ UNCHANGED <<dependency_counts, constructed, current_wave, round, callers,
                 status, released, ended>>

(* Routed only: the rest has to wait for the other CNOTs of this wave. *)
ApplyDefers ==
  /\ Answered("deferred")
  /\ records' = [records EXCEPT ![attempt.id].stage = 1]
  /\ current_wave' = [current_wave EXCEPT !.deferred = Append(@, attempt.id)]
  /\ attempt' = Nobody
  /\ BeginRoot
  /\ UNCHANGED <<dependency_counts, constructed, next_wave, round, callers,
                 applied, status, released, ended>>

(* The first deferred round answers with an error once it has decomposed. *)
ApplyDecomposes ==
  /\ Answered("error")
  /\ attempt.origin = "list" /\ round = "decompose"
  /\ records' = [records EXCEPT ![attempt.id].stage = 2]
  /\ current_wave' = [current_wave EXCEPT !.decomposed = Append(@, attempt.id)]
  /\ attempt' = Nobody
  /\ UNCHANGED <<dependency_counts, constructed, next_wave, round, callers,
                 applied, status, history>>

(* Not applied, and found in a list: wait for the next wave or give up. *)
ApplyFails ==
  /\ Answered("error")
  /\ attempt.origin = "list" /\ round \in {"proximate", "heads"}
  /\ IF round = "proximate" \/ Attempted.wait = 0
       THEN /\ status' = IF round = "proximate" THEN "proximate failed"
                         ELSE "out of retries"
            /\ UNCHANGED <<records, next_wave, attempt>>
       ELSE /\ records' = [records EXCEPT ![attempt.id].wait = WaitedOnce(@)]
            /\ next_wave' = [next_wave EXCEPT !.heads = Append(@, attempt.id)]
            /\ attempt' = Nobody
            /\ UNCHANGED status
  /\ UNCHANGED <<dependency_counts, constructed, current_wave, round, callers,
                 applied, history>>

(* Not applied when tried ahead of its wave: no retry is spent. *)
ApplyFailsEarly ==
  /\ Answered("error")
  /\ attempt.origin # "list"
  /\ next_wave' = IF attempt.origin = "followup"
                    THEN [next_wave EXCEPT !.proximate = Append(@, attempt.id)]
                    ELSE [next_wave EXCEPT !.heads = Append(@, attempt.id)]
  /\ attempt' = Nobody
  /\ UNCHANGED <<records, dependency_counts, constructed, current_wave, round,
                 callers, applied, status, history>>

-----------------------------------------------------------------------------
(***************************************************************************)
(* One turn of the innermost loop over dependents.                         *)
(***************************************************************************)
(* dependency_counts_ holds uint8_t. *)
Decremented(count) == IF count = 0 THEN 255 ELSE count - 1

NextDependents == {e \in Head(callers) : \A f \in Head(callers) : e[1] <= f[1]}

Release ==
  /\ status = "running"
  /\ attempt = Nobody /\ callers # << >>
  /\ \E e \in NextDependents :
       LET dependent == e[1]
           left      == Head(callers) \ {e}
           free      == dependency_counts[dependent] = 1
           immediate == IsImmediate(records[dependent].kind)
           inCurrent == free /\ immediate /\ round = "proximate"
           atOnce    == free /\ immediate /\ round # "proximate"
       IN
       /\ callers' = IF left = {} THEN Tail(callers)
                     ELSE <<left>> \o Tail(callers)
       /\ dependency_counts' = [dependency_counts EXCEPT ![dependent] = Decremented(@)]
       /\ released' = IF free THEN released \cup {dependent} ELSE released
       /\ attempt' = IF atOnce THEN [id |-> dependent, origin |-> "dependent"]
                     ELSE Nobody
       /\ current_wave' = IF inCurrent
                            THEN [current_wave EXCEPT !.heads = Append(@, dependent)]
                            ELSE current_wave
       /\ next_wave' = IF free /\ ~immediate
                         THEN [next_wave EXCEPT !.heads = Append(@, dependent)]
                         ELSE next_wave
  /\ UNCHANGED <<records, constructed, round, applied, status, begun, ended>>

-----------------------------------------------------------------------------
Init ==
  /\ records = << >>
  /\ dependency_counts = << >>
  /\ last_instruction = [p \in Patches |-> 0]
  /\ loading = TRUE
  /\ current_wave = EmptyWave
  /\ next_wave = EmptyWave
  /\ round = "idle"
  /\ attempt = Nobody
  /\ callers = << >>
  /\ applied = FALSE
  /\ status = "running"
  /\ released = {}
  /\ program = << >>
  /\ begun = {}
  /\ ended = {}

Load == (\E ins \in Instructions : LoadInstruction(ins)) \/ EndOfProgram

Apply ==
  \/ ApplyEnds \/ ApplyContinues \/ ApplyReschedules \/ ApplyDefers
  \/ ApplyDecomposes \/ ApplyFails \/ ApplyFailsEarly

ScheduleStep == NextRound \/ Take \/ Apply \/ Release

Next == Load \/ StartWave \/ ScheduleStep \/ EndWave

Spec == Init /\ [][Next]_vars

-----------------------------------------------------------------------------
(***************************************************************************)
(* Properties.                                                             *)
(***************************************************************************)
Rounds == {"idle", "proximate", "heads", "decompose", "apply"}

Edges == Ids \X Patches

RecordType == [kind: Kinds, wait: Nat, stage: 0 .. LastStage,
               dependents: SUBSET Edges, root: Ids]

WaveType == [proximate: Seq(Ids), heads: Seq(Ids), deferred: Seq(Ids),
             decomposed: Seq(Ids)]

(* The type invariant. *)
TypeOK ==
  /\ records \in Seq(RecordType)
  /\ dependency_counts \in [Ids -> Nat]
  /\ last_instruction \in [Patches -> Ids \cup {0}]
  /\ loading \in BOOLEAN
  /\ current_wave \in WaveType
  /\ next_wave \in WaveType
  /\ round \in Rounds
  /\ attempt \in [id: Ids, origin: {"list", "dependent", "followup"}] \cup {Nobody}
  /\ callers \in Seq(SUBSET Edges)
  /\ applied \in BOOLEAN
  /\ status \in {"running", "proximate failed", "out of retries"}
  /\ released \subseteq Ids
  /\ program \in Seq(SUBSET Patches)
  /\ begun \subseteq Ids
  /\ ended \subseteq begun

Roots == DOMAIN program

(***************************************************************************)
(* The dependency links that are not served yet: those of the instructions *)
(* still to end and those the loops under way have left.                   *)
(***************************************************************************)
Outstanding ==
  (UNION {records[r].dependents : r \in Roots \ ended})
  \cup (UNION {callers[f] : f \in DOMAIN callers})

(***************************************************************************)
(* dependency_counts_ says, for every instruction, how many of its links   *)
(* are outstanding - also in the middle of the recursion, when several     *)
(* loops over dependents are half way, and although a follow-up copies the *)
(* links of the instruction it continues.                                  *)
(***************************************************************************)
CountsExact ==
  \A i \in Ids :
    dependency_counts[i] = Cardinality({p \in Patches : <<i, p>> \in Outstanding})

(***************************************************************************)
(* The two assertions on dependency_counts_: an instruction handed to the  *)
(* slice waits for nobody, and a dependent about to be released still      *)
(* waits for somebody (else the uint8_t would wrap to 255).                *)
(***************************************************************************)
AssertedCounts ==
  /\ attempt # Nobody => dependency_counts[attempt.id] = 0
  /\ \A f \in DOMAIN callers : \A e \in callers[f] : dependency_counts[e[1]] > 0

(***************************************************************************)
(* Where an instruction is kept: the lists of both waves and the attempt.  *)
(***************************************************************************)
Places ==
  [proximate |-> current_wave.proximate, heads |-> current_wave.heads,
   deferred |-> current_wave.deferred, decomposed |-> current_wave.decomposed,
   next_proximate |-> next_wave.proximate, next_heads |-> next_wave.heads,
   next_deferred |-> next_wave.deferred, next_decomposed |-> next_wave.decomposed,
   attempt |-> IF attempt = Nobody THEN << >> ELSE <<attempt.id>>]

(* Whose instruction, or latest follow-up, is at position k of that list. *)
(***************************************************************************)
(* No instruction is lost and none is scheduled twice: until it has ended  *)
(* an instruction either waits for a dependency or is, itself or as its    *)
(* latest follow-up, held in exactly one place; afterwards in none.        *)
(***************************************************************************)
Custody ==
  LET places == Places
      Root(list, k) == records[places[list][k]].root
      Held(r) == \E list \in DOMAIN places : \E k \in DOMAIN places[list] : Root(list, k) = r
  IN /\ \A a, b \in DOMAIN places : \A j \in DOMAIN places[a], k \in DOMAIN places[b] :
          Root(a, j) = Root(b, k) => a = b /\ j = k
     /\ \A r \in Roots : Held(r) <=> r \notin ended /\ dependency_counts[r] = 0
     /\ \A r \in ended : dependency_counts[r] = 0

(***************************************************************************)
(* done() tells the truth: between two waves the scheduler reports that it *)
(* is done only when every instruction of the program has ended.           *)
(***************************************************************************)
DoneIsDone ==
  (~loading /\ status = "running" /\ round = "idle" /\ Done) => ended = Roots

(***************************************************************************)
(* An instruction that is not immediate (H, S, a busy region) never runs   *)
(* in the wave that released it: it is left for the next one.              *)
(***************************************************************************)
SlowOnesWait ==
  \A i \in released :
    records[i].kind \in {"H", "S"} \cup BusyKinds =>
      round = "idle" \/ \E k \in DOMAIN next_wave.heads : next_wave.heads[k] = i

(***************************************************************************)
(* The scheduler runs the program in the order PatchOrder allows.          *)
(***************************************************************************)
Order == INSTANCE PatchOrder
RunsInPatchOrder == Order!Spec

=============================================================================
