---------------------------- MODULE StateMachine ----------------------------
(***************************************************************************)
(* The walks of the shared StateMachine (core/state_machine.py) over its   *)
(* transition table: path_to, which finds the hops that take an entity     *)
(* from one state to another, and unconditional_exit_reachable, which      *)
(* certifies that a state is no dead end.                                  *)
(*                                                                         *)
(* States are the numbers 1..n, in the order of the table's keys for the   *)
(* states that are keys.  One step expands one dequeued state.             *)
(***************************************************************************)
EXTENDS Naturals, Sequences, FiniteSets, Functions

CONSTANT
  Machines  \* records of a machine: how many states its enum has, its transition
            \* table (a state outside the domain is undeclared), and its HopRules:
            \* the states not to be passed and the ones entered unconditionally

ASSUME MachineAssumption ==
  \A m \in Machines :
    /\ m.n \in Nat
    /\ DOMAIN m.transitions \subseteq 1..m.n
    /\ \A s \in DOMAIN m.transitions : m.transitions[s] \subseteq 1..m.n
    /\ m.no_transit \subseteq 1..m.n /\ m.unconditional \subseteq 1..m.n

VARIABLES
  walk,       \* "path" or "exit": which of the two is running
  machine,    \* _transitions, _no_transit_states and _unconditional_targets
  current,    \* the state the walk starts from
  target,     \* the state path_to looks for
  queue, seen, came_from,
  result      \* None, False, True or the hops, once done

vars == <<walk, machine, current, target, queue, seen, came_from, result>>
inputs == <<walk, machine, current, target>>

States == 1..machine.n
table  == machine.transitions

Running     == [done |-> FALSE, found |-> FALSE, path |-> <<>>]
Found(path) == [done |-> TRUE, found |-> TRUE, path |-> path]
Missing     == [done |-> TRUE, found |-> FALSE, path |-> <<>>]   \* None, or False

Targets(s) == IF s \in DOMAIN table THEN table[s] ELSE {}

\* _order, the key of a state: the table's keys in their order, undeclared states last.
Order(s) == IF s \in DOMAIN table THEN s ELSE machine.n + s

\* sorted(T, key=_order): before a state come the ones of smaller key.
Sorted(T) ==
  [i \in 1..Cardinality(T) |->
     CHOOSE s \in T : Cardinality({r \in T : Order(r) <= Order(s)}) = i]

successors(s) == Sorted(Targets(s))

\* The early returns come before the first step.
Init ==
  /\ walk \in {"path", "exit"}
  /\ machine \in Machines
  /\ current \in States
  /\ target \in IF walk = "path" THEN States ELSE {current}
  /\ queue = <<current>>
  /\ seen = {current}
  /\ came_from = [s \in States |-> current]
  /\ result = IF walk = "path" /\ current = target THEN Found(<<>>)
              ELSE IF current \notin DOMAIN table THEN Missing
              ELSE Running

\* The successors that the loop does not skip.
Fresh(s) == Targets(s) \ seen

\* came_from is followed back from the target.
Hops(parent) ==
  LET back[s \in States] ==
        IF parent[s] = current THEN <<s>> ELSE Append(back[parent[s]], s)
  IN back[target]

\* One turn of path_to's loop over a dequeued state: the target is found
\* among its fresh successors, or those that may be passed are queued.
PathTurn(state, rest, fresh, onward) ==
  LET parent == [s \in States |-> IF s \in fresh THEN state ELSE came_from[s]]
  IN
  /\ walk = "path" /\ ~result.done
  /\ queue # <<>>
  /\ came_from' = parent
  /\ seen' = seen \cup fresh
  /\ queue' = rest \o Sorted(onward)
  /\ result' = IF target \in fresh THEN Found(Hops(parent)) ELSE result
  /\ UNCHANGED inputs

Passable(T) == T \ machine.no_transit

\* Mutant: the newest state is expanded first.
ExpandPath_newest ==
  LET newest == queue[Len(queue)]
  IN PathTurn(newest, SubSeq(queue, 1, Len(queue) - 1), Fresh(newest), Passable(Fresh(newest)))

\* Mutant: parks are walked through.
ExpandPath_through ==
  PathTurn(Head(queue), Tail(queue), Fresh(Head(queue)), Fresh(Head(queue)))

\* Mutant: a park is skipped before it is compared with the target.
ExpandPath_skipping ==
  LET fresh == Passable(Fresh(Head(queue)))
  IN PathTurn(Head(queue), Tail(queue), fresh, fresh)

ExpandPath ==
  PathTurn(Head(queue), Tail(queue), Fresh(Head(queue)), Passable(Fresh(Head(queue))))

\* Mutant: absence and terminality are not told apart.
ExpandExit_mutant ==
  LET state == Head(queue)
      fresh == Fresh(state) \cap machine.unconditional
  IN
  /\ walk = "exit" /\ ~result.done
  /\ queue # <<>>
  /\ seen' = seen \cup fresh
  /\ queue' = Tail(queue) \o Sorted(fresh)
  /\ result' = IF successors(state) = <<>> THEN Found(<<>>) ELSE result
  /\ UNCHANGED <<inputs, came_from>>

\* One turn of unconditional_exit_reachable's loop: an undeclared state ends
\* it with False, a terminal one with True.
ExpandExit ==
  LET state == Head(queue)
      fresh == Fresh(state) \cap machine.unconditional
  IN
  /\ walk = "exit" /\ ~result.done
  /\ queue # <<>>
  /\ seen' = seen \cup fresh
  /\ queue' = Tail(queue) \o Sorted(fresh)
  /\ result' = IF state \notin DOMAIN table THEN Missing
               ELSE IF successors(state) = <<>> THEN Found(<<>>)
               ELSE result
  /\ UNCHANGED <<inputs, came_from>>

Exhausted ==
  /\ ~result.done
  /\ queue = <<>>
  /\ result' = Missing
  /\ UNCHANGED <<inputs, queue, seen, came_from>>

Next == ExpandPath \/ ExpandExit \/ Exhausted

Spec == Init /\ [][Next]_vars

-----------------------------------------------------------------------------
(* Reference definitions, by levels instead of by a queue *)

\* What is reached from current in how many hops at most, over states of
\* Through and into states of Into.
Levels(Through, Into) ==
  LET level[k \in Nat] ==
        IF k = 0 THEN {current}
        ELSE LET last == level[k - 1]
             IN last \cup (Into \cap UNION {Targets(s) : s \in last \cap Through})
  IN level

MayPass(s) == s \notin machine.no_transit

\* The states that at most k hops reach without walking through a park.
Within(k) == Levels({s \in States : s = current \/ MayPass(s)}, States)[k]

\* Where unconditional hops lead from current.
ExitStates == Levels(States, machine.unconditional)[machine.n]

Terminal(s) == s \in DOMAIN table /\ table[s] = {}

\* The state before the i-th hop of a path.
Source(path, i) == IF i = 1 THEN current ELSE path[i - 1]

ValidPath(path) ==
  \A i \in 1..Len(path) :
    /\ path[i] \in Targets(Source(path, i))
    /\ i < Len(path) => MayPass(path[i])

-----------------------------------------------------------------------------
(* Properties *)

\* The hops path_to returns end at the target, each is in the table, none
\* parks on the way, and no shorter way exists, whatever order the queue was
\* expanded in.
PathIsShortest ==
  walk = "path" /\ result.found /\ current # target =>
    LET path == result.path IN
    /\ path[Len(path)] = target
    /\ ValidPath(path)
    /\ target \notin Within(Len(path) - 1)

\* None is returned for an unreachable target alone; a park is a legal
\* destination.
NoneMeansUnreachable ==
  walk = "path" /\ result.done /\ ~result.found => target \notin Within(machine.n)

\* Of several shortest ways path_to returns the one the table declares first,
\* hop by hop, so that every process takes the same.
PathIsFirst ==
  walk = "path" /\ result.found =>
    LET path == result.path
        k == Len(path)
        earlier(a, b) == \E i \in 1..k :
          /\ \A j \in 1..(i - 1) : a[j] = b[j]
          /\ a[i] < b[i]
    IN \A other \in [1..k -> DOMAIN table] :
         (k > 0 /\ other[k] = target /\ ValidPath(other)) => ~earlier(other, path)

\* unconditional_exit_reachable never certifies an exit that is not there; of
\* a table that declares every state it never overlooks one.
ExitIsSound ==
  walk = "exit" /\ result.done =>
    /\ result.found => \E s \in ExitStates : Terminal(s)
    /\ DOMAIN table = States /\ ~result.found => \A s \in ExitStates : ~Terminal(s)

=============================================================================
