--------------------------- MODULE MCStateMachine ---------------------------
(***************************************************************************)
(* Instances of StateMachine: small graphs of every shape, tables that do  *)
(* not declare one of their states, and the task table itself.             *)
(***************************************************************************)
EXTENDS StateMachine, TaskLifecycle

\* Four states, the last one terminal, no self loops.
Graphs4 == {g \in [1..4 -> SUBSET (1..4)] : g[4] = {} /\ \A s \in 1..4 : s \notin g[s]}

\* The same with state 2 undeclared.
Partial4 == {[s \in {1, 3, 4} |-> g[s]] : g \in {h \in Graphs4 : h[2] = {}}}

SmallMachines ==
  {[n |-> 4, transitions |-> g, no_transit |-> S, unconditional |-> S] :
     g \in Graphs4 \cup Partial4, S \in SUBSET (1..4)}

\* The statuses in the order of the keys of VALID_TRANSITIONS.
TaskOrder == <<"created", "assigned", "in_progress", "in_review",
               "awaiting_input", "auth_required", "blocked", "failed",
               "interrupted", "suspended", "completed", "cancelled", "rejected">>
Code(status) == CHOOSE i \in 1..13 : TaskOrder[i] = status
Encode(S) == {Code(status) : status \in S}

TaskMachine == [n |-> 13,
                transitions |-> [s \in 1..13 |-> Encode(VALID_TRANSITIONS[TaskOrder[s]])],
                no_transit |-> Encode(NO_TRANSIT),
                unconditional |-> Encode(UNCONDITIONAL_TARGETS)]

AllMachines == SmallMachines \cup {TaskMachine}

\* No task is stuck: every status reaches a terminal one over hops declared
\* unconditional, and every row that may hold the status can take such a hop
\* with nothing but itself.
NoTaskIsStuck ==
  machine.n = 13 /\ walk = "exit" /\ result.done =>
    /\ result.found
    /\ \A task \in Task, hop \in UNCONDITIONAL_TARGETS :
         /\ task.status = TaskOrder[current]
         /\ CoherentTask(task)
         /\ validate_transition(task.status, hop)
         => CanTransition(task, hop, EmptyPatch)

=============================================================================
