----------------------------- MODULE TaskEngine -----------------------------
(***************************************************************************)
(* The TaskEngine (engine/task_engine*.py), and those who write task rows  *)
(* without it.                                                             *)
(*                                                                         *)
(* Callers submit mutations, each with a future; a processing loop takes   *)
(* them one at a time, reads the row, validates, saves, bumps the version, *)
(* settles the future and hands an event to an observer loop.  start() and *)
(* stop() create, drain, cancel and abandon those two loops, so a loop is  *)
(* named by the generation start() created it in: nothing here says that   *)
(* at most one of them is alive.                                           *)
(*                                                                         *)
(* The store is not the engine's alone: plans file their children and      *)
(* offboarding hands back an agent's tasks with a save_many() of what they *)
(* read some awaits ago, beside the queue and under no lock.               *)
(*                                                                         *)
(* A loop is split at its awaits.  Between two awaits asyncio runs no      *)
(* other task, so the code between them is one action.                     *)
(***************************************************************************)
EXTENDS Naturals, Sequences, TaskMutations

CONSTANTS
  Tasks,             \* task ids, the ones uuid4 may mint included
  Requests,          \* request ids: one submit() each
  Mutations,         \* what a caller may submit
  MaxGen,            \* bound: how often start() may succeed
  MaxQueueSizes,     \* admission caps an operator may set; 0 is unbounded
  ObserverQueueSize, \* observer queue's maxsize; 0 is unbounded
  InitialRows,       \* rows the store may hold before the first start()
  PlanTasks,         \* tasks a plan may be filed for or removed from
  DerivedTasks,      \* child ids a plan derives, which are saved as given
  Writers,           \* who may be at writing rows beside the queue
  Faults,            \* which failures may happen
  NoRequest,         \* None where a request could be
  Sentinel           \* the None that ends an observer loop

FaultKind == {"db_error",         \* a store call raises, nothing committed
              "late_error",       \* save() raises after its commit
              "critical",         \* MemoryError or RecursionError in a loop
              "drain_timeout",    \* a drain stage exceeds its budget
              "stop_aborted",     \* stop()'s caller cancels it, or 2x deadline
              "caller_cancelled"} \* the task awaiting submit() is cancelled

Mutation == [kind     : MutationKind,
             task     : Tasks,
             target   : TaskStatus,   \* of a transition
             patch    : Patch,        \* task_data, updates or overrides
             expected : Nat]          \* expected_version; 0 is None

ASSUME EngineAssumption ==
  /\ Mutations \subseteq Mutation
  /\ MaxGen \in Nat
  /\ MaxQueueSizes \subseteq Nat /\ MaxQueueSizes # {}
  /\ ObserverQueueSize \in Nat
  /\ InitialRows \subseteq [Tasks -> Row]
  /\ \A rows \in InitialRows, t \in Tasks :
       rows[t] # NoTask => CoherentTask(rows[t])
  /\ PlanTasks \subseteq Tasks
  /\ DerivedTasks \subseteq Tasks
  /\ Faults \subseteq FaultKind
  /\ NoRequest \notin Requests
  /\ Sentinel \notin Requests

Gens == 1..MaxGen

\* "no task object": a generation is at least 1.
NoLoop == 0

VARIABLES
  rows,             \* persistence.tasks
  plans,            \* tasks some plan names as its objective (external)
  versions,         \* VersionTracker._versions; 0 is untracked
  probing,          \* children each writer has a probe out for
  batch,            \* rows each writer will save_many(); NoTask for none
  running,          \* _running
  unrestartable,    \* _unrestartable
  max_queue_size,   \* _max_queue_size
  queue,            \* _queue: request ids
  in_flight,        \* _in_flight: a request id, or NoRequest
  observer_queue,   \* _observer_queue: events and the Sentinel
  gen,              \* generations created so far
  proc,             \* the processing loop of each generation
  obs,              \* the observer loop of each generation
  processing_task,  \* _processing_task: its generation or NoLoop
  observer_task,    \* _observer_task
  stop_pc,          \* where stop() is; it holds _lifecycle_lock unless "out"
  saved_in_flight,  \* _drain_processing's local
  mutation,         \* the mutation each request submitted
  answer,           \* the future of each request, as its caller sees it
  version_of,       \* result.version of each successful request
  \* History.
  overwritten,      \* tasks written over since a loop last took one up
  commits,          \* requests whose write the store committed, in order
  delivered         \* requests whose event reached the observers, in order

storeVars == <<rows, plans, versions, probing, batch, overwritten>>
lifeVars  == <<running, unrestartable, max_queue_size, gen,
               processing_task, observer_task, stop_pc, saved_in_flight>>
loopVars  == <<proc, obs, in_flight>>
queueVars == <<queue, observer_queue>>
callVars  == <<mutation, answer, version_of>>
histVars  == <<commits, delivered>>
vars == <<storeVars, lifeVars, loopVars, queueVars, callVars, histVars>>

(***************************************************************************)
(* A processing loop: the await it is parked on, the request it holds, the *)
(* row it is about to save, and whether cancel() was called on it.         *)
(***************************************************************************)
ProcPC == {"off",      \* not created
           "idle",     \* await queue.get()
           "read",     \* await tasks.get() or the delete's plan preflight
           "save",     \* await tasks.save() or tasks.delete(), uncommitted
           "recheck",  \* await the second plan look-up of a refused delete
           "saved",    \* the same await, committed
           "publish",  \* await publish_snapshot(), future settled
           "done",     \* returned or cancelled
           "dead"}     \* raised a critical error

ObsPC == {"off", "idle", "notify", "done", "dead"}

ProcAlive == ProcPC \ {"off", "done", "dead"}
ObsAlive  == {"idle", "notify"}

\* Awaits on which the loop holds a request.
ProcBusy == {"read", "save", "recheck", "saved", "publish"}

NewProc == [pc |-> "off", req |-> NoRequest, row |-> NoTask, cancelled |-> FALSE]
NewObs  == [pc |-> "off", event |-> NoRequest, cancelled |-> FALSE]

StopPC == {"out",
           "drain_proc",   \* await wait_for(shield(processing_task))
           "cancel_proc",  \* await processing_task, cancelled
           "sentinel",     \* await observer_queue.put(None)
           "drain_obs",    \* await wait_for(shield(observer_task))
           "cancel_obs"}   \* await observer_task, cancelled

NoRows == [t \in Tasks |-> NoTask]

\* uuid4 mints an id no row and no other create has.
FreshIds(m) ==
  \A r \in Requests : m[r].kind = "create" =>
    /\ rows[m[r].task] = NoTask /\ m[r].task \notin DerivedTasks
    /\ \A s \in Requests \ {r} : m[s].kind = "create" => m[s].task # m[r].task

Init ==
  /\ rows \in InitialRows
  /\ plans \in SUBSET {t \in Tasks : rows[t] # NoTask}
  /\ versions = [t \in Tasks |-> 0]
  /\ probing = [w \in Writers |-> {}]
  /\ batch = [w \in Writers |-> NoRows]
  /\ overwritten = {}
  /\ running = FALSE
  /\ unrestartable = FALSE
  /\ max_queue_size \in MaxQueueSizes
  /\ queue = <<>>
  /\ in_flight = NoRequest
  /\ observer_queue = <<>>
  /\ gen = 0
  /\ proc = [g \in Gens |-> NewProc]
  /\ obs = [g \in Gens |-> NewObs]
  /\ processing_task = NoLoop
  /\ observer_task = NoLoop
  /\ stop_pc = "out"
  /\ saved_in_flight = NoRequest
  /\ mutation \in {m \in [Requests -> Mutations] : FreshIds(m)}
  /\ answer = [r \in Requests |-> "none"]
  /\ version_of = [r \in Requests |-> 0]
  /\ commits = <<>>
  /\ delivered = <<>>

-----------------------------------------------------------------------------
(* Callers *)

\* submit(): the check and the put are one step under _admission_lock, then
\* the caller awaits its future.
Submit(r) ==
  /\ answer[r] = "none"
  /\ \/ /\ ~running
        /\ answer' = [answer EXCEPT ![r] = "not_running"]
        /\ UNCHANGED queue
     \/ /\ running
        /\ 0 < max_queue_size /\ max_queue_size <= Len(queue)
        /\ answer' = [answer EXCEPT ![r] = "queue_full"]
        /\ UNCHANGED queue
     \/ /\ running
        /\ ~(0 < max_queue_size /\ max_queue_size <= Len(queue))
        /\ answer' = [answer EXCEPT ![r] = "pending"]
        /\ queue' = Append(queue, r)
  /\ UNCHANGED <<storeVars, lifeVars, loopVars, observer_queue, mutation,
                 version_of, histVars>>

\* Cancelling the task that awaits submit() cancels the future; the envelope
\* stays where it is and is processed all the same.
Abandon(r) ==
  /\ "caller_cancelled" \in Faults
  /\ answer[r] = "pending"
  /\ answer' = [answer EXCEPT ![r] = "abandoned"]
  /\ UNCHANGED <<storeVars, lifeVars, loopVars, queueVars, mutation,
                 version_of, histVars>>

set_max_queue_size(n) ==
  /\ max_queue_size' = n
  /\ UNCHANGED <<storeVars, running, unrestartable, gen, processing_task,
                 observer_task, stop_pc, saved_in_flight, loopVars, queueVars,
                 callVars, histVars>>

\* Plans come and go outside the engine; a plan names a task that has a row.
FilePlan(t) ==
  /\ rows[t] # NoTask /\ t \notin plans
  /\ plans' = plans \cup {t}
  /\ UNCHANGED <<rows, versions, probing, batch, overwritten, lifeVars, loopVars,
                 queueVars, callVars, histVars>>

DropPlan(t) ==
  /\ t \in plans
  /\ plans' = plans \ {t}
  /\ UNCHANGED <<rows, versions, probing, batch, overwritten, lifeVars, loopVars,
                 queueVars, callVars, histVars>>

-----------------------------------------------------------------------------
(* Writers beside the queue.  None takes a lock the loop or another writer   *)
(* takes, and none knows the versions.                                       *)

Idle(w) == probing[w] = {} /\ batch[w] = NoRows

\* Whoever files the children of a plan (a coordinate(), the boot pass that
\* recovers a run, an extension of the plan) probes every derived id.
FindChildren(w) ==
  /\ Idle(w)
  /\ probing' = [probing EXCEPT ![w] = DerivedTasks]
  /\ UNCHANGED <<rows, plans, versions, batch, overwritten, lifeVars, loopVars,
                 queueVars, callVars, histVars>>

\* A probe comes back: the absent child will be filed.
Probed(w, t) ==
  /\ t \in probing[w]
  /\ probing' = [probing EXCEPT ![w] = @ \ {t}]
  /\ batch' = IF rows[t] = NoTask THEN [batch EXCEPT ![w][t] = Filed] ELSE batch
  /\ UNCHANGED <<rows, plans, versions, overwritten, lifeVars, loopVars, queueVars,
                 callVars, histVars>>

\* Offboarding reads an agent's active tasks and interrupts its copies.
reassign(w) ==
  LET Active == {t \in Tasks : rows[t].status \in {"assigned", "in_progress"}} IN
  /\ Idle(w)
  /\ \E S \in SUBSET Active :
       batch' = [batch EXCEPT ![w] =
         [t \in Tasks |-> IF t \in S
                          THEN Transitioned(rows[t], "interrupted", Unassign)
                          ELSE NoTask]]
  /\ UNCHANGED <<rows, plans, versions, probing, overwritten, lifeVars, loopVars,
                 queueVars, callVars, histVars>>

\* save_many(): one transaction that upserts whatever is there.
Upsert(new) ==
  /\ rows' = [t \in Tasks |-> IF new[t] = NoTask THEN rows[t] ELSE new[t]]
  /\ overwritten' = overwritten \cup
       {t \in Tasks : new[t] # NoTask /\ rows[t] # NoTask}

\* ... of what the writer has prepared, unless file_tasks finds the plan gone
\* or the store fails.
save_many(w) ==
  /\ probing[w] = {} /\ batch[w] # NoRows
  /\ batch' = [batch EXCEPT ![w] = NoRows]
  /\ Upsert(batch[w]) \/ UNCHANGED <<rows, overwritten>>
  /\ UNCHANGED <<plans, versions, probing, lifeVars, loopVars, queueVars, callVars,
                 histVars>>

\* An approved plan's children are filed without a look at their rows.
file_child_tasks ==
  /\ Upsert([t \in Tasks |-> IF t \in DerivedTasks THEN Filed ELSE NoTask])
  /\ UNCHANGED <<plans, versions, probing, batch, lifeVars, loopVars, queueVars,
                 callVars, histVars>>

-----------------------------------------------------------------------------
(* What a mutation does to a row *)

Seeded(v) == IF v = 0 THEN 1 ELSE v

\* Mutant: only versions from the future are refused.
VersionConflict_mutant(m) == Checked(m) /\ Seeded(versions[m.task]) < m.expected

VersionConflict(m) == Checked(m) /\ Seeded(versions[m.task]) # m.expected

\* What the apply_* functions decide from their first read, in the order they
\* check it.
Verdict(m) ==
  IF m.kind = "delete" /\ m.task \in plans THEN "parent_of_plan"
  ELSE IF m.kind \notin {"create", "delete"} /\ rows[m.task] = NoTask THEN "not_found"
  ELSE IF VersionConflict(m) THEN "version_conflict"
  ELSE IF NoOp(m) THEN "unchanged"
  ELSE IF ~Valid(m, rows[m.task]) THEN "validation"
  ELSE "write"

\* The version a successful write reports: set_initial, remove or bump.
NextVersion(m) ==
  CASE m.kind = "create" -> 1
    [] m.kind = "delete" -> 0
    [] OTHER -> Seeded(versions[m.task]) + 1

-----------------------------------------------------------------------------
(* The processing loop of generation g *)

At(g, pc) == proc[g].pc = pc /\ ~proc[g].cancelled

\* if not future.done(): future.set_result(...)
Settle(r, a) ==
  answer' = IF answer[r] = "pending" THEN [answer EXCEPT ![r] = a] ELSE answer

GoTo(g, pc) == proc' = [proc EXCEPT ![g].pc = pc]

\* The end of _process_one: its finally clause, and back to queue.get().
Released(g) ==
  /\ proc' = [proc EXCEPT ![g] = [NewProc EXCEPT !.pc = "idle"]]
  /\ in_flight' = NoRequest

Dequeue(g) ==
  /\ At(g, "idle")
  /\ queue # <<>>
  /\ queue' = Tail(queue)
  /\ in_flight' = Head(queue)
  /\ proc' = [proc EXCEPT ![g] = [NewProc EXCEPT !.pc = "read", !.req = Head(queue)]]
  /\ UNCHANGED <<storeVars, lifeVars, obs, observer_queue, callVars, histVars>>

\* Mutant: the future is settled before the save.
Read_mutant(g) ==
  LET r == proc[g].req
      m == mutation[r]
  IN
  /\ At(g, "read")
  /\ Settle(r, IF Verdict(m) \in Failures THEN Verdict(m) ELSE "success")
  /\ IF Verdict(m) \in Failures THEN Released(g)
     ELSE /\ proc' = [proc EXCEPT ![g].pc = "save",
                                  ![g].row = Written(m, rows[m.task])]
          /\ UNCHANGED in_flight
  /\ UNCHANGED <<storeVars, lifeVars, obs, queueVars, mutation, version_of,
                 histVars>>

\* dispatch() up to its save: the row, or the plan preflight, is read and the
\* mutation decided.  A refusal settles the future at once.
Read(g) ==
  LET r == proc[g].req
      m == mutation[r]
      verdict == Verdict(m)
  IN
  /\ At(g, "read")
  /\ versions' = IF Checked(m) /\ rows[m.task] # NoTask
                 THEN [versions EXCEPT ![m.task] = Seeded(@)] ELSE versions
  /\ overwritten' = overwritten \ {m.task}
  /\ \/ /\ verdict \in Failures
        /\ Settle(r, verdict)
        /\ Released(g)
        /\ UNCHANGED version_of
     \/ /\ verdict = "unchanged"
        /\ Settle(r, "success")
        /\ version_of' = [version_of EXCEPT ![r] = versions'[m.task]]
        /\ GoTo(g, "publish")
        /\ UNCHANGED in_flight
     \/ /\ verdict = "write"
        /\ proc' = [proc EXCEPT ![g].pc = "save",
                                ![g].row = Written(m, rows[m.task])]
        /\ UNCHANGED <<answer, version_of, in_flight>>
  /\ UNCHANGED <<rows, plans, probing, batch, lifeVars, obs, queueVars, mutation,
                 histVars>>

\* The store commits the save, or the delete.  It may do so after cancel()
\* was called on the loop and before the loop sees it.
Commit(g) ==
  LET r == proc[g].req
      t == mutation[r].task
  IN
  /\ proc[g].pc = "save"
  /\ mutation[r].kind = "delete" => rows[t] # NoTask /\ t \notin plans
  /\ rows' = [rows EXCEPT ![t] = proc[g].row]
  /\ commits' = Append(commits, r)
  /\ GoTo(g, "saved")
  /\ UNCHANGED <<plans, versions, probing, batch, overwritten, lifeVars, obs,
                 in_flight, queueVars, callVars, delivered>>

\* The delete finds no row.
NothingDeleted(g) ==
  LET r == proc[g].req IN
  /\ At(g, "save")
  /\ mutation[r].kind = "delete" /\ rows[mutation[r].task] = NoTask
  /\ Settle(r, "not_found")
  /\ Released(g)
  /\ UNCHANGED <<storeVars, lifeVars, obs, queueVars, mutation, version_of,
                 histVars>>

\* The delete hits the foreign key: a plan was filed after the preflight.
DeleteRestricted(g) ==
  LET r == proc[g].req IN
  /\ At(g, "save")
  /\ mutation[r].kind = "delete" /\ mutation[r].task \in plans
  /\ GoTo(g, "recheck")
  /\ UNCHANGED <<storeVars, lifeVars, obs, in_flight, queueVars, callVars,
                 histVars>>

\* ... and the second look-up names the plan, unless it is gone again and the
\* constraint error is raised into the loop.
Recheck(g) ==
  LET r == proc[g].req IN
  /\ At(g, "recheck")
  /\ Settle(r, IF mutation[r].task \in plans THEN "parent_of_plan" ELSE "internal")
  /\ Released(g)
  /\ UNCHANGED <<storeVars, lifeVars, obs, queueVars, mutation, version_of,
                 histVars>>

\* save() returns: the version is bumped and the future settled.
Finish(g) ==
  LET r == proc[g].req
      m == mutation[r]
  IN
  /\ At(g, "saved")
  /\ versions' = [versions EXCEPT ![m.task] = NextVersion(m)]
  /\ version_of' = [version_of EXCEPT ![r] = NextVersion(m)]
  /\ Settle(r, "success")
  /\ GoTo(g, "publish")
  /\ UNCHANGED <<rows, plans, probing, batch, overwritten, lifeVars, obs, in_flight,
                 queueVars, mutation, histVars>>

ObserverQueueFull ==
  0 < ObserverQueueSize /\ ObserverQueueSize <= Len(observer_queue)

\* publish_snapshot() returns (its own failures are swallowed) and the event
\* is queued for the observers, or dropped when their queue is full.
Publish(g) ==
  /\ At(g, "publish")
  /\ observer_queue' = IF ObserverQueueFull THEN observer_queue
                       ELSE Append(observer_queue, proc[g].req)
  /\ Released(g)
  /\ UNCHANGED <<storeVars, lifeVars, obs, queue, callVars, histVars>>

\* An exception out of the store: nothing committed, or ("late_error") raised
\* after the commit.  The catch-all of _process_one answers "internal".
ProcessingFails(g) ==
  /\ \/ /\ "db_error" \in Faults
        /\ \E pc \in {"read", "save", "recheck"} : At(g, pc)
     \/ /\ "late_error" \in Faults
        /\ At(g, "saved")
  /\ Settle(proc[g].req, "internal")
  /\ Released(g)
  /\ UNCHANGED <<storeVars, lifeVars, obs, queueVars, mutation, version_of,
                 histVars>>

\* MemoryError or RecursionError: the future gets the exception and the loop
\* dies.  Nothing resets _running.
ProcessingCritical(g) ==
  /\ "critical" \in Faults
  /\ proc[g].pc \in ProcBusy /\ ~proc[g].cancelled
  /\ Settle(proc[g].req, "critical")
  /\ proc' = [proc EXCEPT ![g] = [NewProc EXCEPT !.pc = "dead"]]
  /\ in_flight' = NoRequest
  /\ UNCHANGED <<storeVars, lifeVars, obs, queueVars, mutation, version_of,
                 histVars>>

\* CancelledError at whatever the loop awaits; only _process_one has a
\* finally clause, and the future is left alone.
ProcessingCancelled(g) ==
  /\ proc[g].cancelled /\ proc[g].pc \in ProcAlive
  /\ proc' = [proc EXCEPT ![g] = [NewProc EXCEPT !.pc = "done"]]
  /\ in_flight' = IF proc[g].pc = "idle" THEN in_flight ELSE NoRequest
  /\ UNCHANGED <<storeVars, lifeVars, obs, queueVars, callVars, histVars>>

\* Mutant: while self._running
ProcessingExits_mutant(g) ==
  /\ At(g, "idle")
  /\ ~running
  /\ GoTo(g, "done")
  /\ UNCHANGED <<storeVars, lifeVars, obs, in_flight, queueVars, callVars,
                 histVars>>

\* while self._running or not self._queue.empty()
ProcessingExits(g) ==
  /\ At(g, "idle")
  /\ ~running /\ queue = <<>>
  /\ GoTo(g, "done")
  /\ UNCHANGED <<storeVars, lifeVars, obs, in_flight, queueVars, callVars,
                 histVars>>

-----------------------------------------------------------------------------
(* The observer loop of generation g *)

\* Mutant: the sentinel is not told from an event.
ObserverGets_mutant(g) ==
  /\ obs[g].pc = "idle" /\ ~obs[g].cancelled
  /\ observer_queue # <<>>
  /\ observer_queue' = Tail(observer_queue)
  /\ obs' = [obs EXCEPT ![g].pc = "notify", ![g].event = Head(observer_queue)]
  /\ UNCHANGED <<storeVars, lifeVars, proc, in_flight, queue, callVars, histVars>>

\* observer_queue.get(): an event to dispatch, or the sentinel that ends the
\* loop.
ObserverGets(g) ==
  /\ obs[g].pc = "idle" /\ ~obs[g].cancelled
  /\ observer_queue # <<>>
  /\ observer_queue' = Tail(observer_queue)
  /\ obs' = [obs EXCEPT ![g].pc = IF Head(observer_queue) = Sentinel
                                  THEN "done" ELSE "notify",
                        ![g].event = IF Head(observer_queue) = Sentinel
                                     THEN NoRequest ELSE Head(observer_queue)]
  /\ UNCHANGED <<storeVars, lifeVars, proc, in_flight, queue, callVars, histVars>>

\* Every registered observer has been called; their failures are swallowed.
ObserverNotified(g) ==
  /\ obs[g].pc = "notify" /\ ~obs[g].cancelled
  /\ delivered' = Append(delivered, obs[g].event)
  /\ obs' = [obs EXCEPT ![g] = [NewObs EXCEPT !.pc = "idle"]]
  /\ UNCHANGED <<storeVars, lifeVars, proc, in_flight, queueVars, callVars,
                 commits>>

ObserverCritical(g) ==
  /\ "critical" \in Faults
  /\ obs[g].pc = "notify" /\ ~obs[g].cancelled
  /\ obs' = [obs EXCEPT ![g] = [NewObs EXCEPT !.pc = "dead"]]
  /\ UNCHANGED <<storeVars, lifeVars, proc, in_flight, queueVars, callVars,
                 histVars>>

ObserverCancelled(g) ==
  /\ obs[g].cancelled /\ obs[g].pc \in ObsAlive
  /\ obs' = [obs EXCEPT ![g] = [NewObs EXCEPT !.pc = "done"]]
  /\ UNCHANGED <<storeVars, lifeVars, proc, in_flight, queueVars, callVars,
                 histVars>>

-----------------------------------------------------------------------------
(* start() and stop() *)

\* Both loops are created, then _running is published, all under both locks
\* and without an await.  A refused start changes nothing.
Start ==
  /\ stop_pc = "out"
  /\ ~unrestartable /\ ~running
  /\ gen < MaxGen
  /\ gen' = gen + 1
  /\ proc' = [proc EXCEPT ![gen + 1] = [NewProc EXCEPT !.pc = "idle"]]
  /\ obs' = [obs EXCEPT ![gen + 1] = [NewObs EXCEPT !.pc = "idle"]]
  /\ processing_task' = gen + 1
  /\ observer_task' = gen + 1
  /\ running' = TRUE
  /\ UNCHANGED <<storeVars, unrestartable, max_queue_size, stop_pc,
                 saved_in_flight, in_flight, queueVars, callVars, histVars>>

Stop ==
  /\ stop_pc = "out" /\ running
  /\ running' = FALSE
  /\ stop_pc' = "drain_proc"
  /\ UNCHANGED <<storeVars, unrestartable, max_queue_size, gen, processing_task,
                 observer_task, saved_in_flight, loopVars, queueVars, callVars,
                 histVars>>

\* Mutant: saved_in_flight is not passed on, and _in_flight is None by then.
FailRemaining_mutant(saved) ==
  LET failed == {in_flight} \cup {queue[i] : i \in 1..Len(queue)} IN
  /\ answer' = [r \in Requests |-> IF r \in failed /\ answer[r] = "pending"
                                   THEN "shutdown" ELSE answer[r]]
  /\ in_flight' = NoRequest
  /\ queue' = <<>>

\* _fail_remaining_futures: the in-flight future and every queued one.
FailRemaining(saved) ==
  LET last == IF saved # NoRequest THEN saved ELSE in_flight
      failed == {last} \cup {queue[i] : i \in 1..Len(queue)}
  IN
  /\ answer' = [r \in Requests |-> IF r \in failed /\ answer[r] = "pending"
                                   THEN "shutdown" ELSE answer[r]]
  /\ in_flight' = NoRequest
  /\ queue' = <<>>

\* The processing loop returned within its budget.
ProcessingDrained ==
  /\ stop_pc = "drain_proc"
  /\ proc[processing_task].pc = "done"
  /\ processing_task' = NoLoop
  /\ stop_pc' = "sentinel"
  /\ UNCHANGED <<storeVars, running, unrestartable, max_queue_size, gen,
                 observer_task, saved_in_flight, loopVars, queueVars, callVars,
                 histVars>>

\* The loop had died of a critical error, which comes out of the shield and
\* out of stop(): the observer loop is not drained and nothing is marked.
ProcessingFoundDead ==
  /\ stop_pc = "drain_proc"
  /\ proc[processing_task].pc = "dead"
  /\ FailRemaining(in_flight)
  /\ processing_task' = NoLoop
  /\ stop_pc' = "out"
  /\ UNCHANGED <<storeVars, running, unrestartable, max_queue_size, gen,
                 observer_task, saved_in_flight, proc, obs, observer_queue,
                 mutation, version_of, histVars>>

\* The budget of the first stage runs out.
ProcessingDrainTimeout ==
  /\ "drain_timeout" \in Faults
  /\ stop_pc = "drain_proc"
  /\ proc[processing_task].pc \in ProcAlive
  /\ saved_in_flight' = in_flight
  /\ proc' = [proc EXCEPT ![processing_task].cancelled = TRUE]
  /\ stop_pc' = "cancel_proc"
  /\ UNCHANGED <<storeVars, running, unrestartable, max_queue_size, gen,
                 processing_task, observer_task, obs, in_flight, queueVars,
                 callVars, histVars>>

\* The cancelled loop has unwound.
ProcessingUnwound ==
  /\ stop_pc = "cancel_proc"
  /\ proc[processing_task].pc = "done"
  /\ FailRemaining(saved_in_flight)
  /\ saved_in_flight' = NoRequest
  /\ processing_task' = NoLoop
  /\ stop_pc' = "sentinel"
  /\ UNCHANGED <<storeVars, running, unrestartable, max_queue_size, gen,
                 observer_task, proc, obs, observer_queue, mutation, version_of,
                 histVars>>

\* Mutant: put(None) without a timeout.
SendSentinel_mutant ==
  /\ stop_pc = "sentinel"
  /\ ~ObserverQueueFull
  /\ observer_queue' = Append(observer_queue, Sentinel)
  /\ stop_pc' = "drain_obs"
  /\ UNCHANGED <<storeVars, running, unrestartable, max_queue_size, gen,
                 processing_task, observer_task, saved_in_flight, loopVars,
                 queue, callVars, histVars>>

\* put(None), given up when the queue stays full for the stage's budget.
SendSentinel ==
  /\ stop_pc = "sentinel"
  /\ \/ /\ ~ObserverQueueFull
        /\ observer_queue' = Append(observer_queue, Sentinel)
     \/ /\ "drain_timeout" \in Faults /\ ObserverQueueFull
        /\ UNCHANGED observer_queue
  /\ stop_pc' = "drain_obs"
  /\ UNCHANGED <<storeVars, running, unrestartable, max_queue_size, gen,
                 processing_task, observer_task, saved_in_flight, loopVars,
                 queue, callVars, histVars>>

\* The observer loop has ended; a critical error it died of leaves stop().
ObserverDrained ==
  /\ stop_pc \in {"drain_obs", "cancel_obs"}
  /\ obs[observer_task].pc \in {"done", "dead"}
  /\ observer_task' = NoLoop
  /\ stop_pc' = "out"
  /\ UNCHANGED <<storeVars, running, unrestartable, max_queue_size, gen,
                 processing_task, saved_in_flight, loopVars, queueVars, callVars,
                 histVars>>

\* Mutant: the observer task is let go, neither cancelled nor awaited.
ObserverDrainTimeout_mutant ==
  /\ "drain_timeout" \in Faults
  /\ stop_pc = "drain_obs"
  /\ obs[observer_task].pc \in ObsAlive
  /\ observer_task' = NoLoop
  /\ stop_pc' = "out"
  /\ UNCHANGED <<storeVars, running, unrestartable, max_queue_size, gen,
                 processing_task, saved_in_flight, loopVars, queueVars, callVars,
                 histVars>>

ObserverDrainTimeout ==
  /\ "drain_timeout" \in Faults
  /\ stop_pc = "drain_obs"
  /\ obs[observer_task].pc \in ObsAlive
  /\ obs' = [obs EXCEPT ![observer_task].cancelled = TRUE]
  /\ stop_pc' = "cancel_obs"
  /\ UNCHANGED <<storeVars, running, unrestartable, max_queue_size, gen,
                 processing_task, observer_task, saved_in_flight, proc,
                 in_flight, queueVars, callVars, histVars>>

\* Mutant: an aborted stop() does not mark the engine.
StopAborted_mutant ==
  /\ "stop_aborted" \in Faults
  /\ stop_pc \in {"drain_proc", "sentinel", "drain_obs"}
  /\ IF stop_pc = "drain_proc"
     THEN FailRemaining(in_flight) /\ processing_task' = NoLoop
     ELSE UNCHANGED <<answer, in_flight, queue, processing_task>>
  /\ observer_task' = IF stop_pc = "drain_obs" THEN NoLoop ELSE observer_task
  /\ stop_pc' = "out"
  /\ UNCHANGED <<storeVars, running, unrestartable, max_queue_size, gen,
                 saved_in_flight, proc, obs, observer_queue, mutation,
                 version_of, histVars>>

\* stop() is cancelled by its caller or by its hard deadline.  While it awaits
\* a cancelled loop the suppress(CancelledError) around that await swallows
\* the cancellation; everywhere else the loops it leaves behind live on.
StopAborted ==
  /\ "stop_aborted" \in Faults
  /\ stop_pc \in {"drain_proc", "sentinel", "drain_obs"}
  /\ IF stop_pc = "drain_proc"
     THEN FailRemaining(in_flight) /\ processing_task' = NoLoop
     ELSE UNCHANGED <<answer, in_flight, queue, processing_task>>
  /\ observer_task' = IF stop_pc = "drain_obs" THEN NoLoop ELSE observer_task
  /\ unrestartable' = TRUE
  /\ stop_pc' = "out"
  /\ UNCHANGED <<storeVars, running, max_queue_size, gen, saved_in_flight, proc,
                 obs, observer_queue, mutation, version_of, histVars>>

-----------------------------------------------------------------------------
BesideQueue ==
  \/ \E w \in Writers :
       \/ FindChildren(w) \/ reassign(w) \/ save_many(w)
       \/ \E t \in DerivedTasks : Probed(w, t)
  \/ file_child_tasks

ProcessingStep(g) ==
  \/ Dequeue(g) \/ Read(g) \/ Commit(g) \/ NothingDeleted(g)
  \/ DeleteRestricted(g) \/ Recheck(g) \/ Finish(g) \/ Publish(g)
  \/ ProcessingCancelled(g) \/ ProcessingExits(g)

ObserverStep(g) ==
  ObserverGets(g) \/ ObserverNotified(g) \/ ObserverCancelled(g)

StopStep ==
  \/ ProcessingDrained \/ ProcessingFoundDead \/ ProcessingUnwound
  \/ SendSentinel \/ ObserverDrained

Next ==
  \/ \E r \in Requests : Submit(r) \/ Abandon(r)
  \/ \E n \in MaxQueueSizes : set_max_queue_size(n)
  \/ \E t \in PlanTasks : FilePlan(t) \/ DropPlan(t)
  \/ BesideQueue
  \/ \E g \in Gens :
       \/ ProcessingStep(g) \/ ProcessingFails(g) \/ ProcessingCritical(g)
       \/ ObserverStep(g) \/ ObserverCritical(g)
  \/ Start \/ Stop \/ StopStep
  \/ ProcessingDrainTimeout \/ ObserverDrainTimeout \/ StopAborted

Spec == Init /\ [][Next]_vars

(***************************************************************************)
(* asyncio runs every ready task: a loop that can move does, and so does   *)
(* the stop() that waits for one, if only because the timer it armed goes  *)
(* off.  Nobody has to call submit(), start() or stop(), and no failure    *)
(* has to happen.                                                          *)
(***************************************************************************)
Fairness ==
  /\ \A g \in Gens : WF_vars(ProcessingStep(g)) /\ WF_vars(ObserverStep(g))
  /\ WF_vars(StopStep \/ ProcessingDrainTimeout \/ ObserverDrainTimeout)

FairSpec == Spec /\ Fairness

-----------------------------------------------------------------------------
(* Properties *)

ProcRecord == [pc : ProcPC, req : Requests \cup {NoRequest}, row : Row,
               cancelled : BOOLEAN]
ObsRecord  == [pc : ObsPC, event : Requests \cup {NoRequest}, cancelled : BOOLEAN]

StoreOK ==
  /\ rows \in [Tasks -> Row]
  /\ plans \in SUBSET Tasks
  /\ versions \in [Tasks -> Nat]
  /\ probing \in [Writers -> SUBSET DerivedTasks]
  /\ batch \in [Writers -> [Tasks -> Row]]
  /\ overwritten \in SUBSET Tasks

LifeOK ==
  /\ running \in BOOLEAN
  /\ unrestartable \in BOOLEAN
  /\ max_queue_size \in MaxQueueSizes
  /\ gen \in 0..MaxGen
  /\ processing_task \in 0..MaxGen
  /\ observer_task \in 0..MaxGen
  /\ stop_pc \in StopPC
  /\ saved_in_flight \in Requests \cup {NoRequest}

LoopsOK ==
  /\ proc \in [Gens -> ProcRecord]
  /\ obs \in [Gens -> ObsRecord]
  /\ in_flight \in Requests \cup {NoRequest}

QueuesOK ==
  /\ queue \in Seq(Requests)
  /\ observer_queue \in Seq(Requests \cup {Sentinel})

CallsOK ==
  /\ mutation \in [Requests -> Mutations]
  /\ answer \in [Requests -> Answer]
  /\ version_of \in [Requests -> Nat]

HistoryOK ==
  /\ commits \in Seq(Requests)
  /\ delivered \in Seq(Requests)

\* Every variable of the engine has its type.
TypeOK == StoreOK /\ LifeOK /\ LoopsOK /\ QueuesOK /\ CallsOK /\ HistoryOK

\* The store as a caller may picture it, which the engine implements.
Store == INSTANCE TaskStore

Committed(r) == Store!Committed(r)

\* The single-writer rule of the engine: whatever stop() met (a drain that
\* timed out, a cancelled stop(), a loop that died), no start() leaves two
\* processing loops alive.
SingleWriter ==
  \A g, h \in Gens : proc[g].pc \in ProcAlive /\ proc[h].pc \in ProcAlive => g = h

\* Once stop() has returned and no processing loop is left, no caller of
\* submit() is still waiting: _fail_remaining_futures reached every future,
\* the one whose loop was cancelled under it included.
NoStrandedFuture ==
  (~running /\ stop_pc = "out" /\ \A g \in Gens : proc[g].pc \notin ProcAlive)
    => \A r \in Requests : answer[r] # "pending"

\* What submit() reports is what the store holds: a success was committed (an
\* update of no field excepted), a typed refusal was not, and only an internal
\* or shutdown answer leaves it open.
AnswerTellsTruth ==
  \A r \in Requests :
    /\ answer[r] = "success" =>
         \/ Committed(r)
         \/ NoOp(mutation[r])
    /\ answer[r] \in Refused \cup Failures => ~Committed(r)

\* Optimistic concurrency: of two writes that named the same expected_version
\* of a task, at most one succeeds (as long as nothing deletes the task, which
\* forgets its version).
NoLostUpdate ==
  \A r, s \in Requests :
    /\ r # s
    /\ mutation[r].task = mutation[s].task
    /\ Checked(mutation[r]) /\ Checked(mutation[s])
    /\ mutation[r].expected = mutation[s].expected
    /\ answer[r] = "success" /\ answer[s] = "success"
    /\ Committed(r) /\ Committed(s)
    => \E d \in Requests : /\ mutation[d].kind = "delete" /\ Committed(d)
                           /\ mutation[d].task = mutation[r].task

\* Observers see the writes in the order the store committed them, each at
\* most once, across restarts, dropped events and abandoned loops.
DeliveredInCommitOrder ==
  \A i, j \in 1..Len(delivered) : i < j =>
    /\ delivered[i] # delivered[j]
    /\ \A a, b \in 1..Len(commits) :
         commits[a] = delivered[i] /\ commits[b] = delivered[j] => a < b

\* The engine moves a row along an edge the status table has, whatever it
\* went through since it was read, unless a writer beside the queue wrote over
\* it in between: not a loop that outlived its stop(), not an update, not a
\* write to a child that was filed meanwhile.
StatusFollowsTable ==
  [][\A t \in Tasks \ (overwritten \cup overwritten') :
       rows[t] # NoTask /\ rows'[t] # NoTask /\ rows'[t].status # rows[t].status
         => validate_transition(rows[t].status, rows'[t].status)]_vars

\* The engine is a linearizable store: every mutation takes effect at most
\* once, in one step and on the row of that moment, and every answer is true
\* of the store when it is given.  Where a writer beside the queue wrote over
\* the row since the engine took the mutation up, the step may instead put
\* back what follows from a row it had before.
Linearizable == Store!Spec

\* Two generations never dispatch to the same observers, as long as no loop
\* dies of a critical error: stop() then raises before it ends the other loop,
\* and leaves the engine restartable.
SingleDispatcher ==
  "critical" \notin Faults =>
    \A g, h \in Gens : obs[g].pc \in ObsAlive /\ obs[h].pc \in ObsAlive => g = h

\* Every caller that was admitted is answered, whether its request is
\* processed, fails, or is caught by a shutdown.
EveryRequestAnswered ==
  \A r \in Requests : answer[r] = "pending" ~> answer[r] # "pending"

\* stop() returns, even with the observer queue full and nobody reading it.
StopTerminates == stop_pc # "out" ~> stop_pc = "out"

-----------------------------------------------------------------------------
(* What the repository says of the engine and the code does not keep *)

\* A running engine has an observer loop.
RunningHasObserverLoop ==
  running => \E g \in Gens : obs[g].pc \in ObsAlive

=============================================================================
