--------------------------- MODULE TaskMutations ---------------------------
(***************************************************************************)
(* The mutations of engine/task_engine_models.py and what each does to a   *)
(* row (engine/task_engine_apply.py), as pure definitions; and the answers *)
(* a caller of submit() may get.                                           *)
(***************************************************************************)
EXTENDS TaskLifecycle

MutationKind == {"create", "update", "transition", "delete", "cancel"}

\* A row as it is filed: created, unassigned.
Filed == [status |-> "created", assigned |-> FALSE, reason |-> FALSE]

\* The override of a transition that takes the task from its agent.
Unassign == [EmptyPatch EXCEPT !.assigned = "clear"]

\* VersionTracker.check; cancel, create and delete never call it.
Checked(m) == m.kind \in {"update", "transition"} /\ m.expected # 0

\* An update of no field, which saves nothing.
NoOp(m) == m.kind = "update" /\ m.patch = EmptyPatch

\* Mutant: an update is merged into a task as it was filed.
Written_mutant(m, row) ==
  CASE m.kind \in {"create", "update"} -> Updated(Filed, m.patch)
    [] m.kind = "transition" -> Transitioned(row, m.target, m.patch)
    [] m.kind = "cancel"     -> Transitioned(row, "cancelled", EmptyPatch)
    [] m.kind = "delete"     -> NoTask

\* The payload an accepted mutation saves; NoTask for a delete.
Written(m, row) ==
  CASE m.kind = "create"     -> Updated(Filed, m.patch)
    [] m.kind = "update"     -> Updated(row, m.patch)
    [] m.kind = "transition" -> Transitioned(row, m.target, m.patch)
    [] m.kind = "cancel"     -> Transitioned(row, "cancelled", EmptyPatch)
    [] m.kind = "delete"     -> NoTask

\* Whether the payload is accepted: the status table and the validators.
Valid(m, row) ==
  CASE m.kind \in {"create", "update"} -> model_validate(Written(m, row), m.patch)
    [] m.kind = "transition" -> CanTransition(row, m.target, m.patch)
    [] m.kind = "cancel"     -> CanTransition(row, "cancelled", EmptyPatch)
    [] m.kind = "delete"     -> TRUE

-----------------------------------------------------------------------------
(* Answers *)

\* submit() raised before the request was queued.
Refused == {"not_running", "queue_full"}

\* The request was refused with a typed error_code.
Failures == {"not_found", "version_conflict", "validation", "parent_of_plan"}

\* error_code "internal" (of a failed call, of a shutdown), the exception that
\* killed the loop, or a caller that stopped waiting.
Unknown == {"internal", "shutdown", "critical", "abandoned"}

Answer == {"none", "pending", "success"} \cup Refused \cup Failures \cup Unknown

=============================================================================
