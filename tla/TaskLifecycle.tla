--------------------------- MODULE TaskLifecycle ---------------------------
(***************************************************************************)
(* The task lifecycle of SynthOrg as pure definitions: the status table    *)
(* (core/task_transitions.py), the cross-field rules a task row must       *)
(* satisfy (core/_task_invariants.py) and the one way a row changes status *)
(* (Task.with_transition, core/task.py).                                   *)
(*                                                                         *)
(* A row keeps the two fields those rules tell apart besides the status:   *)
(* whether it names an assignee and whether it names a reason for being    *)
(* blocked.  Every other field is the "other" part of a patch, of which    *)
(* only matters whether the row it produces passes the remaining           *)
(* validators (collections, delegation, plan linkage, deadline).           *)
(***************************************************************************)
EXTENDS FiniteSets

TaskStatus == {"created", "assigned", "in_progress", "in_review", "completed",
               "blocked", "failed", "interrupted", "suspended", "cancelled",
               "rejected", "auth_required", "awaiting_input"}

VALID_TRANSITIONS ==
  [created        |-> {"assigned", "blocked", "rejected", "failed"},
   assigned       |-> {"in_progress", "auth_required", "blocked", "cancelled",
                       "failed", "interrupted", "suspended"},
   in_progress    |-> {"in_review", "awaiting_input", "auth_required",
                       "blocked", "cancelled", "failed", "interrupted",
                       "suspended"},
   in_review      |-> {"completed", "in_progress", "blocked", "cancelled"},
   awaiting_input |-> {"in_progress", "cancelled"},
   auth_required  |-> {"assigned", "cancelled"},
   blocked        |-> {"assigned", "cancelled", "in_review"},
   failed         |-> {"assigned", "cancelled"},
   interrupted    |-> {"assigned", "cancelled"},
   suspended      |-> {"assigned", "cancelled"},
   completed      |-> {},
   cancelled      |-> {},
   rejected       |-> {}]

\* Statuses any writer can move a task into with nothing but the task itself.
UNCONDITIONAL_TARGETS == {"cancelled", "rejected", "failed"}

\* Parks a walk may end on or start from and never passes through.
NO_TRANSIT == {"blocked", "awaiting_input", "auth_required", "suspended",
               "interrupted"}

\* A hop that validate_transition accepts.
validate_transition(current, target) == target \in VALID_TRANSITIONS[current]

REQUIRES_ASSIGNEE == {"assigned", "in_progress", "in_review", "completed",
                      "auth_required", "awaiting_input"}

-----------------------------------------------------------------------------
(* Rows and patches *)

Task == [status : TaskStatus, assigned : BOOLEAN, reason : BOOLEAN]

\* The absence of a row.  A value of the same shape, so that rows stay
\* comparable, whose status is no TaskStatus.
NoTask == [status |-> "absent", assigned |-> FALSE, reason |-> FALSE]

Row == Task \cup {NoTask}

\* What a mutation's payload does to the fields of a row.
Patch == [assigned : {"keep", "set", "clear"},
          reason   : {"keep", "set", "clear"},
          other    : {"none", "valid", "invalid"}]

\* A mapping with no entry at all (mutation.updates is falsy).
EmptyPatch == [assigned |-> "keep", reason |-> "keep", other |-> "none"]

\* dict.update for one field.
Merge(old, how) == CASE how = "keep" -> old [] how = "set" -> TRUE [] OTHER -> FALSE

\* check_assignment_consistency and check_blocked_reason_pairing.
CoherentTask(task) ==
  /\ task.status = "created" => ~task.assigned
  /\ task.status \in REQUIRES_ASSIGNEE => task.assigned
  /\ task.reason => task.status = "blocked"

\* Task.model_validate over a merged payload: the rules above, and the ones
\* the "other" fields may break.
model_validate(task, patch) == CoherentTask(task) /\ patch.other # "invalid"

\* The payload apply_update validates.
Updated(task, patch) ==
  [task EXCEPT !.assigned = Merge(@, patch.assigned),
               !.reason   = Merge(@, patch.reason)]

\* Mutant: a block reason outlives the block.
Transitioned_mutant(task, target, patch) ==
  [status   |-> target,
   assigned |-> Merge(task.assigned, patch.assigned),
   reason   |-> Merge(task.reason, patch.reason)]

\* The payload with_transition validates: the block reason is dropped unless
\* the target is blocked, then the overrides are applied, then the status.
Transitioned(task, target, patch) ==
  [status   |-> target,
   assigned |-> Merge(task.assigned, patch.assigned),
   reason   |-> Merge(target = "blocked" /\ task.reason, patch.reason)]

\* Whether Task.with_transition returns a row instead of raising ValueError.
CanTransition(task, target, patch) ==
  /\ validate_transition(task.status, target)
  /\ model_validate(Transitioned(task, target, patch), patch)

=============================================================================
