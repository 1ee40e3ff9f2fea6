------------------------------ MODULE PushQueue ------------------------------
(***************************************************************************)
(* The per-project merge-and-push queue                                    *)
(* (engine/workspace/push_queue.py): callers hand in workspaces, one       *)
(* worker task merges each into the default branch and pushes the branch.  *)
(* start() and stop() may be called at any time; the lifecycle lock is     *)
(* never held across a suspension, so each of its sections is one step.    *)
(* The merge strategy and the git backend are external: a merge commits to *)
(* the local branch, a push copies the whole local branch to the backend.  *)
(***************************************************************************)
EXTENDS Naturals, Sequences, FiniteSets, Functions

CONSTANTS
  MaxCalls,    \* bound: enqueue_merge_push calls, one workspace each
  MaxStops,    \* bound: stop() calls
  MaxGen,      \* bound: how many workers are ever started
  FaultSets    \* environments: sets of failures that may happen

FaultKind == {"git_error",         \* a merge or a push raises an error
              "critical",          \* ... a MemoryError or RecursionError
              "drain_timeout",     \* stop() gives up on its worker
              "stop_cancelled",    \* the task that awaits stop() is cancelled
              "caller_cancelled",  \* a caller stops waiting for its merge
              "restart_in_drain"}  \* start() is called while stop() drains

ASSUME PushQueueAssumption ==
  /\ MaxCalls \in Nat /\ MaxStops \in Nat /\ MaxGen \in Nat \ {0}
  /\ FaultSets \subseteq SUBSET FaultKind

\* Calls of enqueue_merge_push and of stop() are numbered in the order they are
\* made, workers in the order they are started.
Callers  == 1..MaxCalls
Stoppers == 1..MaxStops
Gens     == 1..MaxGen

\* The None that ends a worker, and the item of a worker that has none.
Sentinel == 0
NoCaller == 0

VARIABLES
  faults,      \* the failures of this behaviour
  closing,     \* _closing
  stopFailed,  \* _stop_failed
  gens,        \* how many workers have been started
  current,     \* _worker and _queue, which are set and reset together; 0: None
  queues,      \* the asyncio.Queue of each start()
  worker,      \* each worker task: where it is, the queue it captured, its item
  stopper,     \* each stop() call and the worker it drains
  answer,      \* what each caller's future holds
  main,        \* the merges on the local default branch, oldest first
  pushed       \* the merges the backend has

vars == <<faults, closing, stopFailed, gens, current, queues, worker, stopper,
          answer, main, pushed>>

Answers == {"merged", "conflict", "merge_error", "push_error", "stopped", "critical"}
Ended   == {"done", "critical", "cancelled"}

WorkerRecord  == [pc : {"none", "new", "get", "merge", "push"} \union Ended,
                  queue : 0..MaxGen, item : Callers \union {NoCaller}]
StopperRecord == [pc : {"idle", "drain", "done"}, gen : 0..MaxGen, timedOut : BOOLEAN]
AnswerState   == {"idle", "refused", "waiting", "cancelled"} \union Answers

\* Every variable has its type: a worker holds an item of a caller, never the
\* sentinel.
TypeOK ==
  /\ faults \in FaultSets
  /\ closing \in BOOLEAN /\ stopFailed \in BOOLEAN
  /\ gens \in 0..MaxGen /\ current \in 0..gens
  /\ queues \in [Gens -> Seq(Callers \union {Sentinel})]
  /\ worker \in [Gens -> WorkerRecord]
  /\ stopper \in [Stoppers -> StopperRecord]
  /\ answer \in [Callers -> AnswerState]
  /\ main \in Seq(Callers) /\ pushed \subseteq Callers

Init ==
  /\ faults \in FaultSets
  /\ closing = FALSE /\ stopFailed = FALSE
  /\ gens = 0 /\ current = 0
  /\ queues = [g \in Gens |-> <<>>]
  /\ worker = [g \in Gens |-> [pc |-> "none", queue |-> 0, item |-> NoCaller]]
  /\ stopper = [s \in Stoppers |-> [pc |-> "idle", gen |-> 0, timedOut |-> FALSE]]
  /\ answer = [c \in Callers |-> "idle"]
  /\ main = <<>> /\ pushed = {}

Live(g) == worker[g].pc \notin Ended \union {"none"}

-----------------------------------------------------------------------------
(* start(), stop() and enqueue_merge_push()                                *)

\* Mutant: a worker is started whether or not one is live.
Start_mutant ==
  /\ gens < MaxGen
  /\ ~stopFailed
  /\ (closing /\ \E g \in Gens : Live(g)) => "restart_in_drain" \in faults
  /\ gens' = gens + 1
  /\ current' = gens + 1
  /\ closing' = FALSE
  /\ worker' = [worker EXCEPT ![gens + 1].pc = "new"]
  /\ UNCHANGED <<faults, stopFailed, queues, stopper, answer, main, pushed>>

\* A start() that finds nothing to do, or the failed flag, changes nothing.
Start ==
  /\ gens < MaxGen
  /\ ~stopFailed
  /\ closing \/ ~\E g \in Gens : g = current /\ Live(g)
  /\ (closing /\ \E g \in Gens : Live(g)) => "restart_in_drain" \in faults
  /\ gens' = gens + 1
  /\ current' = gens + 1
  /\ closing' = FALSE
  /\ worker' = [worker EXCEPT ![gens + 1].pc = "new"]
  /\ UNCHANGED <<faults, stopFailed, queues, stopper, answer, main, pushed>>

\* Mutant: the sentinel is forgotten.
Stop_mutant(s) ==
  /\ stopper[s].pc = "idle" /\ \A r \in 1..(s - 1) : stopper[r].pc # "idle"
  /\ closing' = (current # 0)
  /\ stopper' = [stopper EXCEPT ![s].pc = IF current = 0 THEN "done" ELSE "drain",
                                ![s].gen = current]
  /\ UNCHANGED <<faults, stopFailed, gens, current, queues, worker, answer, main, pushed>>

\* The section of stop() under the lock: refuse further work, then queue the
\* sentinel.
Stop(s) ==
  /\ stopper[s].pc = "idle" /\ \A r \in 1..(s - 1) : stopper[r].pc # "idle"
  /\ IF current = 0
     THEN /\ stopper' = [stopper EXCEPT ![s].pc = "done"]
          /\ UNCHANGED <<closing, queues>>
     ELSE /\ closing' = TRUE
          /\ queues' = [queues EXCEPT ![current] = Append(@, Sentinel)]
          /\ stopper' = [stopper EXCEPT ![s].pc = "drain", ![s].gen = current]
  /\ UNCHANGED <<faults, stopFailed, gens, current, worker, answer, main, pushed>>

\* Mutant: the worker of a start() that came in between is cleared too.
StopReset_mutant(s) ==
  /\ stopper[s].pc = "drain"
  /\ worker[stopper[s].gen].pc \in Ended
  /\ stopper' = [stopper EXCEPT ![s].pc = "done"]
  /\ stopFailed' = (stopFailed \/ stopper[s].timedOut)
  /\ current' = 0
  /\ UNCHANGED <<faults, closing, gens, queues, worker, answer, main, pushed>>

\* The finally of stop(): its worker has ended, by itself or cancelled.
StopReset(s) ==
  /\ stopper[s].pc = "drain"
  /\ worker[stopper[s].gen].pc \in Ended
  /\ stopper' = [stopper EXCEPT ![s].pc = "done"]
  /\ stopFailed' = (stopFailed \/ stopper[s].timedOut)
  /\ current' = IF current = stopper[s].gen THEN 0 ELSE current
  /\ UNCHANGED <<faults, closing, gens, queues, worker, answer, main, pushed>>

Enqueue(c) ==
  /\ answer[c] = "idle" /\ \A b \in 1..(c - 1) : answer[b] # "idle"
  /\ IF closing \/ current = 0
     THEN /\ answer' = [answer EXCEPT ![c] = "refused"]
          /\ UNCHANGED <<queues>>
     ELSE /\ answer' = [answer EXCEPT ![c] = "waiting"]
          /\ queues' = [queues EXCEPT ![current] = Append(@, c)]
  /\ UNCHANGED <<faults, closing, stopFailed, gens, current, worker, stopper, main, pushed>>

\* The caller's own cancellation cancels the future; its work stays queued.
CallerCancelled(c) ==
  /\ "caller_cancelled" \in faults
  /\ answer[c] = "waiting"
  /\ answer' = [answer EXCEPT ![c] = "cancelled"]
  /\ UNCHANGED <<faults, closing, stopFailed, gens, current, queues, worker, stopper, main, pushed>>

-----------------------------------------------------------------------------
(* The worker                                                              *)

\* set_result / set_exception of every future in the set that is not done.
Resolve(cs, a) ==
  [c \in Callers |-> IF c \in cs /\ answer[c] = "waiting" THEN a ELSE answer[c]]

Queued(q) == Range(queues[q]) \ {Sentinel}

\* The finally of _worker_loop: whatever is still queued is failed.
FailQueued(ans, q) ==
  [c \in Callers |-> IF c \in Queued(q) /\ ans[c] = "waiting" THEN "stopped" ELSE ans[c]]

Exit(g, pc, ans) ==
  /\ worker' = [worker EXCEPT ![g].pc = pc, ![g].item = NoCaller]
  /\ answer' = FailQueued(ans, worker[g].queue)
  /\ queues' = [queues EXCEPT ![worker[g].queue] = <<>>]

\* The first step of the task: only now does it look up the queue, and it
\* returns if there is none.
WorkerBegin(g) ==
  /\ worker[g].pc = "new"
  /\ worker' = [worker EXCEPT ![g].pc = IF current = 0 THEN "done" ELSE "get",
                              ![g].queue = current]
  /\ UNCHANGED <<faults, closing, stopFailed, gens, current, queues, stopper, answer,
                 main, pushed>>

Get(g) ==
  /\ worker[g].pc = "get"
  /\ LET q == worker[g].queue
     IN  /\ queues[q] # <<>>
         /\ IF Head(queues[q]) = Sentinel
            THEN Exit(g, "done", answer)
            ELSE /\ worker' = [worker EXCEPT ![g].pc = "merge", ![g].item = Head(queues[q])]
                 /\ queues' = [queues EXCEPT ![q] = Tail(@)]
                 /\ UNCHANGED answer
  /\ UNCHANGED <<faults, closing, stopFailed, gens, current, stopper, main, pushed>>

\* Back to the queue after an item whose caller has been answered.
NextItem(g, a) ==
  /\ worker' = [worker EXCEPT ![g].pc = "get", ![g].item = NoCaller]
  /\ answer' = Resolve({worker[g].item}, a)
  /\ UNCHANGED queues

\* Mutant: the caller is answered before the push.
Merge_mutant(g) ==
  /\ worker[g].pc = "merge"
  /\ main' = Append(main, worker[g].item)
  /\ worker' = [worker EXCEPT ![g].pc = "push"]
  /\ answer' = Resolve({worker[g].item}, "merged")
  /\ UNCHANGED <<faults, closing, stopFailed, gens, current, queues, stopper, pushed>>

\* merge_workspace returns: committed, or in conflict, which is not pushed.
Merge(g) ==
  /\ worker[g].pc = "merge"
  /\ \/ /\ main' = Append(main, worker[g].item)
        /\ worker' = [worker EXCEPT ![g].pc = "push"]
        /\ UNCHANGED <<queues, answer>>
     \/ NextItem(g, "conflict") /\ UNCHANGED main
  /\ UNCHANGED <<faults, closing, stopFailed, gens, current, stopper, pushed>>

Push(g) ==
  /\ worker[g].pc = "push"
  /\ pushed' = Range(main)
  /\ NextItem(g, "merged")
  /\ UNCHANGED <<faults, closing, stopFailed, gens, current, stopper, main>>

\* A git command that raised or was cut short may have done its work all the
\* same: the merge has landed before its commit is looked up, which may fail, and
\* a push may have reached the backend before it is reported as failed.
MayHaveLanded(g) ==
  \/ UNCHANGED <<main, pushed>>
  \/ worker[g].pc = "merge" /\ main' = Append(main, worker[g].item) /\ UNCHANGED pushed
  \/ worker[g].pc = "push" /\ pushed' = Range(main) /\ UNCHANGED main

\* A merge that raised is not pushed, not even one that landed: the push of a
\* later item takes it along.
GitError(g) ==
  /\ "git_error" \in faults
  /\ \/ worker[g].pc = "merge" /\ NextItem(g, "merge_error")
     \/ worker[g].pc = "push" /\ NextItem(g, "push_error")
  /\ MayHaveLanded(g)
  /\ UNCHANGED <<faults, closing, stopFailed, gens, current, stopper>>

\* A critical error answers the item's caller, then ends the worker.
CriticalError(g) ==
  /\ "critical" \in faults
  /\ worker[g].pc \in {"merge", "push"}
  /\ Exit(g, "critical", Resolve({worker[g].item}, "critical"))
  /\ MayHaveLanded(g)
  /\ UNCHANGED <<faults, closing, stopFailed, gens, current, stopper>>

\* Cancelling the worker: one that has not begun never runs its finally; one
\* with an item abandons it, landed or not, its future as it was.
Cancel(g) ==
  /\ IF worker[g].pc = "new"
     THEN /\ worker' = [worker EXCEPT ![g].pc = "cancelled"]
          /\ UNCHANGED <<queues, answer>>
     ELSE Exit(g, "cancelled", answer)
  /\ MayHaveLanded(g)

\* wait_for gives up after _DRAIN_TIMEOUT_SECONDS.
DrainTimeout(s) ==
  /\ "drain_timeout" \in faults
  /\ stopper[s].pc = "drain"
  /\ Live(stopper[s].gen) /\ worker[stopper[s].gen].pc # "new"
  /\ Cancel(stopper[s].gen)
  /\ stopper' = [stopper EXCEPT ![s].timedOut = TRUE]
  /\ UNCHANGED <<faults, closing, stopFailed, gens, current>>

\* stop() itself is cancelled, and its worker, which it awaits, with it.
StopCancelled(s) ==
  /\ "stop_cancelled" \in faults
  /\ stopper[s].pc = "drain"
  /\ Live(stopper[s].gen)
  /\ Cancel(stopper[s].gen)
  /\ UNCHANGED <<faults, closing, stopFailed, gens, current, stopper>>

-----------------------------------------------------------------------------
WorkerStep(g) == WorkerBegin(g) \/ Get(g) \/ Merge(g) \/ Push(g)

Next ==
  \/ Start
  \/ \E s \in Stoppers : Stop(s) \/ StopReset(s) \/ DrainTimeout(s) \/ StopCancelled(s)
  \/ \E c \in Callers : Enqueue(c) \/ CallerCancelled(c)
  \/ \E g \in Gens : WorkerStep(g) \/ GitError(g) \/ CriticalError(g)

Spec == Init /\ [][Next]_vars

\* The event loop runs every task that is ready, and every git command has a
\* timeout of its own, so a merge or a push that has begun ends.
FairSpec ==
  /\ Spec
  /\ \A g \in Gens : WF_vars(WorkerStep(g) \/ GitError(g) \/ CriticalError(g))
  /\ \A s \in Stoppers : WF_vars(StopReset(s))

-----------------------------------------------------------------------------
(* Properties                                                              *)

Writing(g) == worker[g].pc \in {"merge", "push"}

\* Merges and pushes of a project are serial and in the order the work was
\* accepted, through stops and restarts, as long as no start() is called while
\* a stop() still drains: that one starts a worker beside the old one.
SerialFifo ==
  "restart_in_drain" \notin faults =>
    /\ \A g, h \in Gens : Writing(g) /\ Writing(h) => g = h
    /\ \A i, j \in DOMAIN main : i < j => main[i] < main[j]

\* What a caller is told is what happened to its workspace, however often the
\* queue is stopped and started: merged means that the backend has it, and a
\* caller who was refused, was in conflict or was still queued when the worker
\* ended knows that nothing was merged for it. No workspace is merged twice. An
\* error says neither: a merge that is reported as failed may have landed.
AnswerTellsTruth ==
  /\ \A c \in Callers : answer[c] = "merged" => c \in pushed
  /\ \A c \in Callers : answer[c] \in {"idle", "refused", "conflict", "stopped"}
                           => c \notin Range(main)
  /\ Len(main) = Cardinality(Range(main))

\* The future of a waiting caller is still in the hands of a worker: its item,
\* or queued in front of it.
CallerHeld ==
  \A c \in Callers : answer[c] = "waiting" =>
    \E g \in Gens :
      /\ Live(g)
      /\ \/ worker[g].item = c
         \/ \E q \in Gens : /\ q = IF worker[g].pc = "new" THEN current ELSE worker[g].queue
                           /\ c \in Queued(q)

\* No caller is left behind by a stop, a restart or a failing item, as long as
\* the worker is neither cancelled nor killed by a critical error.
NoStrandedCaller ==
  {"drain_timeout", "stop_cancelled", "critical", "restart_in_drain"} \intersect faults = {}
    => CallerHeld

\* Every caller gets an answer and every stop() returns, in the same
\* environments.
EveryoneReturns ==
  \/ {"drain_timeout", "stop_cancelled", "critical", "restart_in_drain"} \intersect faults # {}
  \/ /\ \A c \in Callers : answer[c] = "waiting" ~> answer[c] # "waiting"
     /\ \A s \in Stoppers : stopper[s].pc = "drain" ~> stopper[s].pc = "done"
=============================================================================
