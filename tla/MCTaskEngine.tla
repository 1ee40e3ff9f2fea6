---------------------------- MODULE MCTaskEngine ----------------------------
(***************************************************************************)
(* Instances of TaskEngine for TLC: the mutations callers submit and the   *)
(* rows they find.                                                         *)
(***************************************************************************)
EXTENDS TaskEngine, TLC

CONSTANTS r1, r2, r3, t1, t2, t3, w1

\* Requests differ by their names alone.
RequestSymmetry == Permutations(Requests)

Assigned == [status |-> "assigned", assigned |-> TRUE, reason |-> FALSE]
Blocked  == [status |-> "blocked", assigned |-> FALSE, reason |-> TRUE]

\* A mutation with nothing in it but its kind and its task.
Blank(kind, t) == [kind |-> kind, task |-> t, target |-> "created",
                   patch |-> EmptyPatch, expected |-> 0]
Transition(t, target, patch, expected) ==
  [Blank("transition", t) EXCEPT !.target = target, !.patch = patch,
                                 !.expected = expected]
Update(t, patch, expected) ==
  [Blank("update", t) EXCEPT !.patch = patch, !.expected = expected]
Create(t, patch) == [Blank("create", t) EXCEPT !.patch = patch]

SetOther      == [EmptyPatch EXCEPT !.other = "valid"]
SetAssignee   == [EmptyPatch EXCEPT !.assigned = "set"]

\* Writers that conflict over one assigned task: fenced ones, and one that is
\* not.
LifecycleRows == {[t \in Tasks |-> Assigned]}
LifecycleMutations == {Update(t1, SetOther, 1), Blank("cancel", t1)}

\* t1 has a row, t2 is a child that a plan derives, t3 is created.
DataRows == {[t \in Tasks |-> IF t = t1 THEN Blocked ELSE NoTask]}
DataMutations ==
  {Create(t3, EmptyPatch),
   Transition(t1, "assigned", SetAssignee, 1), Update(t1, SetOther, 1),
   Transition(t2, "assigned", SetAssignee, 0), Update(t1, EmptyPatch, 0),
   Update(t1, Unassign, 0), Blank("delete", t1), Blank("delete", t2)}

=============================================================================
