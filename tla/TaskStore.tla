----------------------------- MODULE TaskStore ------------------------------
(***************************************************************************)
(* What the TaskEngine promises its callers, with its queue, its loops and *)
(* its lifecycle left out: a store of task rows to which each request is   *)
(* applied at most once, in one step, on the row as it is at that moment.  *)
(* A success or a typed refusal says what happened; the other answers      *)
(* leave it open, and a request so answered may still take effect.         *)
(*                                                                         *)
(* Others write rows beside it, whatever is there.  Where they wrote over  *)
(* a row, the next request may be applied to a row of before.              *)
(***************************************************************************)
EXTENDS Naturals, Sequences, TaskMutations

CONSTANTS Tasks, Requests, Mutations, InitialRows, DerivedTasks

VARIABLES
  rows, mutation, answer, commits,
  overwritten   \* tasks a request may be applied to as they were

vars == <<rows, mutation, answer, commits, overwritten>>

Committed(r) == \E i \in 1..Len(commits) : commits[i] = r

Init ==
  /\ rows \in InitialRows
  /\ mutation \in [Requests -> Mutations]
  /\ answer = [r \in Requests |-> "none"]
  /\ commits = <<>>
  /\ overwritten = {}

\* A mutation the row of the moment admits.
Acceptable(m, row) ==
  /\ (m.kind = "create") <=> (row = NoTask)
  /\ ~NoOp(m)
  /\ Valid(m, row)

Apply(r) ==
  LET t == mutation[r].task IN
  /\ answer[r] \in {"pending"} \cup Unknown
  /\ ~Committed(r)
  /\ \E row \in IF t \in overwritten THEN Row ELSE {rows[t]} :
       /\ Acceptable(mutation[r], row)
       /\ rows' = [rows EXCEPT ![t] = Written(mutation[r], row)]
  /\ commits' = Append(commits, r)
  /\ UNCHANGED <<mutation, answer, overwritten>>

\* Whether a is a true answer to r in this state.
Justified(r, a) ==
  LET m == mutation[r]
      row == rows[m.task]
  IN
  \/ a = "success" /\ (Committed(r) \/ (NoOp(m) /\ row # NoTask))
  \/ /\ ~Committed(r)
     /\ \/ a = "not_found" /\ row = NoTask
        \/ a = "validation" /\ ~Valid(m, row)
        \/ a = "version_conflict" /\ Checked(m)
        \/ a = "parent_of_plan" /\ m.kind = "delete"
  \/ a \in Unknown

\* Requests are admitted or refused, pending ones answered (a shutdown answers
\* several at once), and rows read again.
Reply ==
  /\ \A r \in Requests : answer'[r] # answer[r] =>
       \/ answer[r] = "none" /\ answer'[r] \in {"pending"} \cup Refused
       \/ answer[r] = "pending" /\ Justified(r, answer'[r])
  /\ overwritten' \subseteq overwritten
  /\ UNCHANGED <<rows, mutation, commits>>

\* What is written beside the store: children of a plan as they are filed, and
\* tasks that were taken from their agent.
WrittenBeside(t, row) ==
  \/ t \in DerivedTasks /\ row = Filed
  \/ row.status = "interrupted" /\ ~row.assigned

WriteBeside ==
  \E S \in SUBSET Tasks :
    /\ rows' = [t \in Tasks |-> IF t \in S THEN rows'[t] ELSE rows[t]]
    /\ \A t \in S : WrittenBeside(t, rows'[t])
    /\ overwritten' = overwritten \cup {t \in S : rows[t] # NoTask}
    /\ UNCHANGED <<mutation, answer, commits>>

Next == (\E r \in Requests : Apply(r)) \/ Reply \/ WriteBeside

Spec == Init /\ [][Next]_vars

=============================================================================
