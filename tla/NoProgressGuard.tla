-------------------------- MODULE NoProgressGuard --------------------------
(***************************************************************************)
(* The guard the stream and the wave pipelines share (class                *)
(* NoProgressGuard): it counts the slices since an instruction was last    *)
(* applied and throws once the count exceeds its budget.                   *)
(***************************************************************************)
EXTENDS Naturals

CONSTANT max_no_progress_slices

ASSUME BudgetAssumption == max_no_progress_slices \in Nat

VARIABLES
  slices_without_progress,
  deadlock_reported         \* note_no_progress has thrown

guardVars == <<slices_without_progress, deadlock_reported>>

GuardInit ==
  /\ slices_without_progress = 0
  /\ deadlock_reported = FALSE

note_progress ==
  /\ slices_without_progress' = 0
  /\ UNCHANGED deadlock_reported

(* Faulty: the last slice of the budget is not granted. *)
note_no_progress_at_budget ==
  /\ slices_without_progress' = slices_without_progress + 1
  /\ deadlock_reported' = (slices_without_progress + 1 >= max_no_progress_slices)

(* Faulty: at its budget the guard waits for progress and does not throw. *)
note_no_progress_waits ==
  /\ slices_without_progress < max_no_progress_slices
  /\ slices_without_progress' = slices_without_progress + 1
  /\ deadlock_reported' = FALSE

note_no_progress ==
  /\ slices_without_progress' = slices_without_progress + 1
  /\ deadlock_reported' = (slices_without_progress + 1 > max_no_progress_slices)

=============================================================================
