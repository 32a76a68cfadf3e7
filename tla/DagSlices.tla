------------------------------ MODULE DagSlices ------------------------------
(***************************************************************************)
(* The dag pipeline: the whole program is turned into a dependency graph   *)
(* (full_dependency_dag_from_instruction_stream), then each call of        *)
(* DagSliceStream::next() applies a round of proximate instructions and    *)
(* one of all instructions that wait for nothing, and returns a slice.     *)
(*                                                                         *)
(* The lattice is abstracted to its answers, as in WaveScheduler.  This    *)
(* pipeline ignores wait_at_most_for: it retries MAX_RETRIES times.  The   *)
(* statistics (result_) are left out, nothing depends on them.             *)
(***************************************************************************)
EXTENDS LSInstructions, DependencyDag

CONSTANT MAX_RETRIES    \* MAX_INSTRUCTION_APPLICATION_RETRIES_DAG_PIPELINE

ASSUME DagAssumption == MAX_RETRIES \in Nat /\ ~EDPC

VARIABLES
  dag,                  \* dag_
  attempts,             \* attempts_per_instruction_; 0 when there is no entry
  control,              \* who runs: the builder of the graph, the consumer,
                        \* or one of the two loops of next()
  labels,               \* what that loop has yet to visit
  needs_advance,        \* needs_advance_
  program,              \* history: the patches of the instructions read
  begun,                \* history: instructions that changed the lattice
  ended                 \* history: instructions that are done

dagVars == <<dag, attempts, control, labels, needs_advance, program, begun, ended>>

DagInit ==
  /\ dag = EmptyDag
  /\ attempts = [l \in {} |-> 0]
  /\ control = "builder"
  /\ labels = << >>
  /\ needs_advance = FALSE
  /\ program = << >>
  /\ begun = {}
  /\ ended = {}

Build(ins) ==
  /\ control = "builder"
  /\ Len(program) < MaxInstructions
  /\ dag' = push_instruction_based_on_commutation(dag,
              [kind |-> ins.kind, patches |-> ins.patches, stage |-> 0,
               root |-> Len(program) + 1])
  /\ program' = Append(program, ins.patches)
  /\ UNCHANGED <<attempts, control, labels, needs_advance, begun, ended>>

Built ==
  /\ control = "builder"
  /\ control' = "consumer"
  /\ UNCHANGED <<dag, attempts, labels, needs_advance, program, begun, ended>>

(***************************************************************************)
(* The consumer asks for a slice: the previous one is advanced only now.   *)
(***************************************************************************)
Call ==
  /\ control = "consumer"
  /\ needs_advance' = FALSE
  /\ IF Nodes(dag.graph) = {}
       THEN control' = "exhausted" /\ UNCHANGED labels
       ELSE control' = "proximate" /\ labels' = dag.proximate_heads
  /\ UNCHANGED <<dag, attempts, program, begun, ended>>

StartApplicable ==
  /\ control = "proximate" /\ labels = << >>
  /\ control' = "applicable"
  /\ labels' = applicable_instructions(dag)
  /\ UNCHANGED <<dag, attempts, needs_advance, program, begun, ended>>

Return ==
  /\ control = "applicable" /\ labels = << >>
  /\ control' = "consumer"
  /\ needs_advance' = TRUE
  /\ UNCHANGED <<dag, attempts, labels, program, begun, ended>>

-----------------------------------------------------------------------------
(* One turn of either loop. *)

Visited == dag.instructions[Head(labels)]

Answered(answer) ==
  /\ control \in {"proximate", "applicable"}
  /\ labels # << >>
  /\ answer \in Answers(Visited)

Applied(followups) ==
  /\ dag' = IF followups = << >> THEN pop_head(dag, Head(labels))
            ELSE LET d == dag_expand(dag, Head(labels), followups, TRUE)
                 IN make_proximate(d, d.current_label - Len(followups))
  /\ labels' = Tail(labels)
  /\ begun' = begun \cup {Visited.root}
  /\ UNCHANGED <<attempts, control, needs_advance, program>>

ApplyEnds ==
  /\ Answered("applied")
  /\ Applied(<< >>)
  /\ ended' = ended \cup {Visited.root}

ApplyContinues ==
  /\ Answered("followup")
  /\ Applied(<<[Visited EXCEPT !.kind = Followup(@)]>>)
  /\ UNCHANGED ended

(* Every time adds a label, so LastStage bounds how often. *)
ApplyReschedules ==
  /\ Answered("rescheduled")
  /\ Visited.stage < LastStage
  /\ Applied(<<[Visited EXCEPT !.stage = @ + 1]>>)
  /\ UNCHANGED ended

Attempts(label) == IF label \in DOMAIN attempts THEN attempts[label] ELSE 0

Incremented(label) == Attempts(label) + 1

ApplyFails ==
  LET label == Head(labels)
      tried == Incremented(label)
  IN
  /\ Answered("error")
  /\ IF control = "proximate"
       THEN control' = "threw" /\ UNCHANGED <<attempts, labels>>
       ELSE /\ attempts' = [l \in DOMAIN attempts \cup {label} |->
                              IF l = label THEN tried ELSE attempts[l]]
            /\ IF tried > MAX_RETRIES
                 THEN control' = "threw" /\ UNCHANGED labels
                 ELSE labels' = Tail(labels) /\ UNCHANGED control
  /\ UNCHANGED <<dag, needs_advance, program, begun, ended>>

DagNext ==
  \/ \E ins \in Instructions : Build(ins)
  \/ Built \/ Call \/ StartApplicable \/ Return
  \/ ApplyEnds \/ ApplyContinues \/ ApplyReschedules \/ ApplyFails

(***************************************************************************)
(* One thread builds the graph and then pulls slices until there are none. *)
(***************************************************************************)
DagSpec == DagInit /\ [][DagNext]_dagVars /\ WF_dagVars(DagNext)

-----------------------------------------------------------------------------
Live == Nodes(dag.graph)

Root(l) == dag.instructions[l].root

(***************************************************************************)
(* The graph is what is left of the program's order, through every         *)
(* removal and replacement of nodes: one node waits for another exactly if *)
(* it comes from a later instruction with a patch in common, both maps of  *)
(* the graph say so, and no instruction is there twice.                    *)
(***************************************************************************)
GraphIsOrder ==
  /\ DOMAIN dag.graph.back_edges = Live
  /\ \A l \in Live :
       dag.graph.edges[l] =
         {m \in Live : Root(l) < Root(m) /\ program[Root(l)] \cap program[Root(m)] # {}}
  /\ \A l, m \in Live :
       /\ m \in dag.graph.edges[l] <=> l \in dag.graph.back_edges[m]
       /\ Root(l) = Root(m) => l = m
  /\ {Root(l) : l \in Live} = DOMAIN program \ ended

(***************************************************************************)
(* The loops of next() walk over copies of the heads while the graph       *)
(* changes under them: what they have yet to visit is still there, still   *)
(* waits for nothing, and an error is thrown only by an instruction that   *)
(* has begun or is out of retries.  The proximate heads are exactly the    *)
(* instructions that have begun and not ended.                             *)
(***************************************************************************)
WalksAreSafe ==
  /\ \A k \in DOMAIN labels :
       labels[k] \in Live /\ dag.graph.back_edges[labels[k]] = {}
  /\ Range(dag.proximate_heads) \subseteq Live
  /\ {Root(l) : l \in Range(dag.proximate_heads)} = begun \ ended
  /\ control = "proximate" => Range(labels) \subseteq Range(dag.proximate_heads)
  /\ control = "threw" =>
       Visited.root \in begun \ ended \/ attempts[Head(labels)] = MAX_RETRIES + 1

(***************************************************************************)
(* The dag pipeline runs the program in the order PatchOrder allows.       *)
(***************************************************************************)
Order == INSTANCE PatchOrder
RunsInPatchOrder == Order!Spec

(***************************************************************************)
(* The pipeline ends with an exception or, when it is exhausted, with the  *)
(* whole program done, unless an instruction reschedules itself for ever.  *)
(***************************************************************************)
Terminates ==
  \/ <>(control = "threw" \/ (control = "exhausted" /\ ended = DOMAIN program))
  \/ []<><<ApplyReschedules>>_dagVars
=============================================================================
