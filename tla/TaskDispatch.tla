---------------------------- MODULE TaskDispatch ----------------------------
(***************************************************************************)
(* Distributed execution of one task (workers/): the dispatcher turns the  *)
(* engine's event "moved into assigned" into a claim on a JetStream work   *)
(* queue, workers fetch claims and have the backend execute a step of the  *)
(* task over HTTP, and the dead-letter consumer fails a task whose claim   *)
(* used up its deliveries.                                                 *)
(*                                                                         *)
(* The TaskEngine is the atomic store that TaskEngine!Linearizable shows   *)
(* it to be; the backend executes with the lifecycle baseline, one         *)
(* transition per call.  JetStream is modelled from how the workers use it *)
(* and what their comments say of it: a message is delivered at most       *)
(* MaxDeliver times and then dropped.                                      *)
(***************************************************************************)
EXTENDS Naturals, FiniteSets, TaskLifecycle

CONSTANTS
  Workers,
  MaxClaims,     \* bound: how often the task is dispatched
  MaxAttempts,   \* dispatcher_publish_max_attempts
  MaxDeliver,    \* queue_config.max_deliver
  Decisions,     \* statuses that others than the workers move the task to
  FaultSets      \* environments: sets of failures that may happen

FaultKind == {"publish_lost",     \* a publish raises and stored nothing, or the
                                  \* queue is not running
              "publish_timeout",  \* a publish raises and the message is stored
              "dedup_error",      \* a retryable QueryError of seen_claims
              "backend_error",    \* HTTP 5xx, before or after the transition
              "http_4xx",         \* a guard refuses the request: rate limit, auth
              "http_timeout",     \* the worker gives up, the backend goes on
              "crash",            \* a worker process dies and is restarted
              "ack_lapse",        \* ack_wait passes under a live worker
              "engine_error",     \* the engine cannot take the fail-transition
              "backend_crash"}    \* the backend process dies and is restarted

ASSUME DispatchAssumption ==
  /\ MaxClaims \in Nat \ {0} /\ MaxAttempts \in Nat \ {0} /\ MaxDeliver \in Nat \ {0}
  /\ Decisions \subseteq TaskStatus \ {"in_progress", "in_review"}
  /\ FaultSets \subseteq SUBSET FaultKind

\* A claim is named by its dispatch; its number is its idempotency_key.
Claims == 1..MaxClaims

\* A message on the ready subject: a claim and the publish that stored it.
\* The message on the dead subject made of it has the same name.
Msgs == [claim : Claims, attempt : 1..MaxAttempts]

VARIABLES
  faults,    \* the failures of this behaviour
  linked,    \* whether the task belongs to a plan
  status,    \* the task's status in the engine; "absent" without a row
  events,    \* dispatchable events the dispatcher has not been handed yet
  claims,    \* how many events have been taken, for a claim or not
  disp,      \* the publish the dispatcher is retrying
  ready,     \* the ready subject's messages
  dead,      \* the dead subject's messages
  seen,      \* SeenClaimsRepository
  worker,    \* where each worker is in _run_once
  calls,     \* POST /execute requests the backend works on
  dlc        \* where the dead-letter consumer is in _handle

env == <<faults, linked>>
vars == <<env, status, events, claims, disp, ready, dead, seen, worker, calls, dlc>>

\* A message: not stored, waiting, delivered and un-acked, or gone.
Message == [at : {"none", "queued", "out", "acked", "dropped"}, n : 0..MaxDeliver]
Unsent  == [at |-> "none", n |-> 0]

\* One delivery of a message; its holder acks or naks it.
NoMsg  == [claim |-> 0, attempt |-> 0]
Idle   == [pc |-> "idle", msg |-> NoMsg, n |-> 0]
NoDisp == NoMsg

Init ==
  /\ faults \in FaultSets
  /\ linked \in BOOLEAN
  /\ status = "created"
  /\ events = 0
  /\ claims = 0
  /\ disp = NoDisp
  /\ ready = [m \in Msgs |-> Unsent]
  /\ dead = [m \in Msgs |-> Unsent]
  /\ seen = {}
  /\ worker = [w \in Workers |-> Idle]
  /\ calls = {}
  /\ dlc = Idle

-----------------------------------------------------------------------------
(* The engine *)

\* Only a move into assigned is dispatched; an edit of an assigned task is not.
is_dispatchable(previous, new) == new = "assigned" /\ previous # new

\* A mutation the engine applied, and the event it hands the dispatcher.
Moved(new) ==
  /\ status' = new
  /\ events' = IF is_dispatchable(status, new) THEN events + 1 ELSE events

\* People and services assign, park, decide, edit and delete the task; running
\* it is left to the workers.
Outside(new) ==
  /\ status # "absent"
  /\ \/ new \in Decisions /\ validate_transition(status, new)
     \/ new = "assigned" /\ status = "assigned"
     \/ new = "absent"
  /\ new = "assigned" => claims + events < MaxClaims
  /\ Moved(new)
  /\ UNCHANGED <<env, claims, disp, ready, dead, seen, worker, calls, dlc>>

-----------------------------------------------------------------------------
(* JetStream, as the workers use it *)

Live(q, m) == q[m].at \in {"queued", "out"}

Stored(q, m) == [q EXCEPT ![m] = [at |-> "queued", n |-> 0]]

Delivered(q, m) == [q EXCEPT ![m] = [at |-> "out", n |-> q[m].n + 1]]

Acked(q, m) == IF Live(q, m) THEN [q EXCEPT ![m].at = "acked"] ELSE q

\* A nak, or ack_wait passing: another delivery, or none left.
Returned(q, m) ==
  IF ~Live(q, m) THEN q
  ELSE [q EXCEPT ![m].at = IF q[m].n < MaxDeliver THEN "queued" ELSE "dropped"]

Holds(holder, q, m) == holder.msg = m /\ holder.n = q[m].n

\* The ack deadline of an un-acked delivery passes.  The working-acks of a
\* live worker prevent it, unless they fail.
AckWaitReady(m) ==
  /\ ready[m].at = "out"
  /\ "ack_lapse" \in faults \/ \A w \in Workers : ~Holds(worker[w], ready, m)
  /\ ready' = Returned(ready, m)
  /\ UNCHANGED <<env, status, events, claims, disp, dead, seen, worker, calls, dlc>>

AckWaitDead(m) ==
  /\ dead[m].at = "out"
  /\ "ack_lapse" \in faults \/ ~Holds(dlc, dead, m)
  /\ dead' = Returned(dead, m)
  /\ UNCHANGED <<env, status, events, claims, disp, ready, seen, worker, calls, dlc>>

-----------------------------------------------------------------------------
(* The dispatcher *)

\* on_task_state_changed for a dispatchable event: a claim with a fresh key,
\* or nothing at all while the queue is not running.
BuildClaim ==
  /\ events > 0 /\ disp = NoDisp
  /\ events' = events - 1
  /\ claims' = claims + 1
  /\ \/ disp' = [claim |-> claims + 1, attempt |-> 1]
     \/ "publish_lost" \in faults /\ UNCHANGED disp
  /\ UNCHANGED <<env, status, ready, dead, seen, worker, calls, dlc>>

\* The next attempt with the same claim, or giving up.
NextAttempt ==
  disp' = IF disp.attempt < MaxAttempts THEN [disp EXCEPT !.attempt = @ + 1] ELSE NoDisp

\* publish_claim returns, or raises with or without the message stored.
PublishClaim ==
  /\ disp # NoDisp
  /\ \/ disp' = NoDisp /\ ready' = Stored(ready, disp)
     \/ "publish_timeout" \in faults /\ NextAttempt /\ ready' = Stored(ready, disp)
     \/ "publish_lost" \in faults /\ NextAttempt /\ UNCHANGED ready
  /\ UNCHANGED <<env, status, events, claims, dead, seen, worker, calls, dlc>>

-----------------------------------------------------------------------------
(* A worker *)

WorkerPC == {"idle",     \* await next_claim()
             "check",    \* await seen_claims.is_completed()
             "execute",  \* await the POST
             "mark",     \* await seen_claims.mark_seen()
             "ack", "nack",
             "dead"}     \* await publish_dead()

Goes(w, pc) == worker' = [worker EXCEPT ![w].pc = pc]

NextClaim(w, m) ==
  /\ worker[w] = Idle
  /\ ready[m].at = "queued"
  /\ ready' = Delivered(ready, m)
  /\ worker' = [worker EXCEPT ![w] = [pc |-> "check", msg |-> m, n |-> ready[m].n + 1]]
  /\ UNCHANGED <<env, status, events, claims, disp, dead, seen, calls, dlc>>

\* _is_completed: a claim that is seen is acked and skipped; a retryable
\* failure of the look-up counts as unseen.  Execution starts with the POST.
CheckSeen(w) ==
  LET m == worker[w].msg IN
  /\ worker[w].pc = "check"
  /\ \/ m.claim \in seen /\ Goes(w, "ack") /\ UNCHANGED calls
     \/ /\ m.claim \notin seen \/ "dedup_error" \in faults
        /\ Goes(w, "execute")
        /\ calls' = calls \cup {[msg |-> m, n |-> worker[w].n, target |-> "unread"]}
  /\ UNCHANGED <<env, status, events, claims, disp, ready, dead, seen, dlc>>

\* Mutant: one delivery late.
is_final_delivery_mutant(n) == n > MaxDeliver

is_final_delivery(n) == n >= MaxDeliver

\* Mutant: a claim that failed for good is acked without a mark.
AfterRun_mutant(outcome, n) ==
  IF outcome = "SUCCESS" THEN "mark"
  ELSE IF outcome = "FAILED" THEN "ack"
  ELSE IF is_final_delivery(n) THEN "dead" ELSE "nack"

\* What _run_once does with a TaskClaimStatus.
AfterRun(outcome, n) ==
  IF outcome \in {"SUCCESS", "FAILED"} THEN "mark"
  ELSE IF is_final_delivery(n) THEN "dead" ELSE "nack"

\* map_response for a 2xx with the task's status.
TERMINAL_STATUSES == {"completed", "cancelled", "failed"}
map_response(new) == IF new \in TERMINAL_STATUSES THEN "SUCCESS" ELSE "RETRY"

\* The answer to call c reaches the worker that still waits for it.
Answered(c, outcome) ==
  worker' = [w \in Workers |->
               IF /\ worker[w].pc = "execute"
                  /\ worker[w].msg = c.msg /\ worker[w].n = c.n
               THEN [worker[w] EXCEPT !.pc = AfterRun(outcome, c.n)]
               ELSE worker[w]]

Waiting(w) ==
  \E c \in calls : c.msg = worker[w].msg /\ c.n = worker[w].n

\* Mutant: a connection the backend dropped is waited for without a timeout.
TransportError_mutant(w) ==
  /\ worker[w].pc = "execute"
  /\ "http_timeout" \in faults
  /\ Goes(w, AfterRun("RETRY", worker[w].n))
  /\ UNCHANGED <<env, status, events, claims, disp, ready, dead, seen, calls, dlc>>

\* The request times out, or its connection is gone with the backend.
TransportError(w) ==
  /\ worker[w].pc = "execute"
  /\ "http_timeout" \in faults \/ ~Waiting(w)
  /\ Goes(w, AfterRun("RETRY", worker[w].n))
  /\ UNCHANGED <<env, status, events, claims, disp, ready, dead, seen, calls, dlc>>

\* _mark_completed; a retryable failure is swallowed.
MarkCompleted(w) ==
  /\ worker[w].pc = "mark"
  /\ \/ seen' = seen \cup {worker[w].msg.claim}
     \/ "dedup_error" \in faults /\ UNCHANGED seen
  /\ Goes(w, "ack")
  /\ UNCHANGED <<env, status, events, claims, disp, ready, dead, calls, dlc>>

\* _finalize_claim.
Finalize(w) ==
  /\ worker[w].pc \in {"ack", "nack"}
  /\ ready' = IF worker[w].pc = "ack" THEN Acked(ready, worker[w].msg)
              ELSE Returned(ready, worker[w].msg)
  /\ worker' = [worker EXCEPT ![w] = Idle]
  /\ UNCHANGED <<env, status, events, claims, disp, dead, seen, calls, dlc>>

\* _dead_letter: republish, then ack; a failed republish ends the worker with
\* the claim un-acked.
DeadLetter(w) ==
  LET m == worker[w].msg IN
  /\ worker[w].pc = "dead"
  /\ \/ Goes(w, "ack") /\ dead' = Stored(dead, m)
     \/ /\ worker' = [worker EXCEPT ![w] = Idle]
        /\ \/ "publish_timeout" \in faults /\ dead' = Stored(dead, m)
           \/ "publish_lost" \in faults /\ UNCHANGED dead
  /\ UNCHANGED <<env, status, events, claims, disp, ready, seen, calls, dlc>>

\* The process dies (a non-retryable dedup error and a failed ack or nak end
\* it as well) and the pool starts another.
WorkerCrash(w) ==
  /\ "crash" \in faults
  /\ worker[w] # Idle
  /\ worker' = [worker EXCEPT ![w] = Idle]
  /\ UNCHANGED <<env, status, events, claims, disp, ready, dead, seen, calls, dlc>>

-----------------------------------------------------------------------------
(* The backend: LifecycleAdvancingExecutionService.execute_once *)

\* The next hop of the baseline; it does not complete a task of a plan.
next_status ==
  CASE status = "assigned"    -> "in_progress"
    [] status = "in_progress" -> "in_review"
    [] OTHER -> IF status = "in_review" /\ ~linked THEN "completed" ELSE "none"

\* get_task: 404, the task as it is, or the transition to make.
ExecuteRead(c) ==
  /\ c.target = "unread"
  /\ \/ /\ status = "absent"
        /\ Answered(c, "FAILED")
        /\ calls' = calls \ {c}
     \/ /\ status # "absent" /\ next_status = "none"
        /\ Answered(c, map_response(status))
        /\ calls' = calls \ {c}
     \/ /\ status # "absent" /\ next_status # "none"
        /\ calls' = (calls \ {c}) \cup {[c EXCEPT !.target = next_status]}
        /\ UNCHANGED worker
  /\ UNCHANGED <<env, status, events, claims, disp, ready, dead, seen, dlc>>

\* transition_task: accepted, or 404 or 422 when the task moved meanwhile.
\* The response may turn into a 5xx on its way.
ExecuteTransition(c) ==
  /\ c.target # "unread"
  /\ IF status # "absent" /\ validate_transition(status, c.target)
     THEN /\ Moved(c.target)
          /\ \/ Answered(c, map_response(c.target))
             \/ "backend_error" \in faults /\ Answered(c, "RETRY")
     ELSE Answered(c, "FAILED") /\ UNCHANGED <<status, events>>
  /\ calls' = calls \ {c}
  /\ UNCHANGED <<env, claims, disp, ready, dead, seen, dlc>>

\* 5xx without a transition: the engine not running, its queue full, an
\* internal error.
ExecuteFails(c) ==
  /\ "backend_error" \in faults
  /\ Answered(c, "RETRY")
  /\ calls' = calls \ {c}
  /\ UNCHANGED <<env, status, events, claims, disp, ready, dead, seen, dlc>>

\* A guard of the endpoint answers 429, 401 or 403; the worker takes every 4xx
\* for a task that cannot be run.
ExecuteRefused(c) ==
  /\ "http_4xx" \in faults
  /\ c.target = "unread"
  /\ Answered(c, "FAILED")
  /\ calls' = calls \ {c}
  /\ UNCHANGED <<env, status, events, claims, disp, ready, dead, seen, dlc>>

\* The backend's memory is gone: undelivered events, the publish in hand,
\* requests and the dead claim being handled.
BackendCrash ==
  /\ "backend_crash" \in faults
  /\ events' = 0 /\ disp' = NoDisp /\ calls' = {} /\ dlc' = Idle
  /\ claims' = claims + events
  /\ UNCHANGED <<env, status, ready, dead, seen, worker>>

-----------------------------------------------------------------------------
(* The dead-letter consumer *)

NextDead(m) ==
  /\ dlc = Idle
  /\ dead[m].at = "queued"
  /\ dead' = Delivered(dead, m)
  /\ dlc' = [pc |-> "check", msg |-> m, n |-> dead[m].n + 1]
  /\ UNCHANGED <<env, status, events, claims, disp, ready, seen, worker, calls>>

AlreadyHandled ==
  /\ dlc.pc = "check"
  /\ \/ dlc.msg.claim \in seen /\ dlc' = [dlc EXCEPT !.pc = "ack"]
     \/ /\ dlc.msg.claim \notin seen \/ "dedup_error" \in faults
        /\ dlc' = [dlc EXCEPT !.pc = "fail"]
  /\ UNCHANGED <<env, status, events, claims, disp, ready, dead, seen, worker, calls>>

\* The fail-transition: made, or refused by the table and left at that.
FailTask ==
  /\ dlc.pc = "fail"
  /\ dlc' = [dlc EXCEPT !.pc = "mark"]
  /\ IF status # "absent" /\ validate_transition(status, "failed") THEN Moved("failed")
     ELSE UNCHANGED <<status, events>>
  /\ UNCHANGED <<env, claims, disp, ready, dead, seen, worker, calls>>

\* RETRYABLE is given back until the budget is used up; any other failure, and
\* the last delivery, leave the message un-acked.
FailTaskFails ==
  /\ "engine_error" \in faults
  /\ dlc.pc = "fail"
  /\ dlc' = Idle
  /\ \/ dlc.n < MaxDeliver /\ dead' = Returned(dead, dlc.msg)
     \/ UNCHANGED dead
  /\ UNCHANGED <<env, status, events, claims, disp, ready, seen, worker, calls>>

MarkHandled ==
  /\ dlc.pc = "mark"
  /\ \/ seen' = seen \cup {dlc.msg.claim}
     \/ "dedup_error" \in faults /\ UNCHANGED seen
  /\ dlc' = [dlc EXCEPT !.pc = "ack"]
  /\ UNCHANGED <<env, status, events, claims, disp, ready, dead, worker, calls>>

AckDead ==
  /\ dlc.pc = "ack"
  /\ dead' = Acked(dead, dlc.msg)
  /\ dlc' = Idle
  /\ UNCHANGED <<env, status, events, claims, disp, ready, seen, worker, calls>>

-----------------------------------------------------------------------------
WorkerStep(w) ==
  \/ \E m \in Msgs : NextClaim(w, m)
  \/ CheckSeen(w) \/ TransportError(w) \/ MarkCompleted(w) \/ Finalize(w)
  \/ DeadLetter(w)

AckWait == \E m \in Msgs : AckWaitReady(m) \/ AckWaitDead(m)

Execute == \E c \in calls : ExecuteRead(c) \/ ExecuteTransition(c)

DeadLetterStep ==
  \/ \E m \in Msgs : NextDead(m)
  \/ AlreadyHandled \/ FailTask \/ FailTaskFails \/ MarkHandled \/ AckDead

Next ==
  \/ \E new \in Decisions \cup {"assigned", "absent"} : Outside(new)
  \/ BuildClaim \/ PublishClaim
  \/ \E w \in Workers : WorkerStep(w) \/ WorkerCrash(w)
  \/ Execute \/ \E c \in calls : ExecuteFails(c) \/ ExecuteRefused(c)
  \/ BackendCrash
  \/ DeadLetterStep
  \/ AckWait

Spec == Init /\ [][Next]_vars

(***************************************************************************)
(* The processes run: the dispatcher and the consumer are tasks of the     *)
(* backend's event loop, workers are restarted by their pool, the backend  *)
(* works on its requests, and JetStream's ack timer goes off.  Nothing     *)
(* outside has to happen, and no failure.                                  *)
(***************************************************************************)
Fairness ==
  /\ WF_vars(BuildClaim) /\ WF_vars(PublishClaim)
  /\ \A w \in Workers : WF_vars(WorkerStep(w))
  /\ WF_vars(Execute)
  /\ WF_vars(DeadLetterStep)
  /\ WF_vars(AckWait)

FairSpec == Spec /\ Fairness

-----------------------------------------------------------------------------
(* Properties *)

\* Every variable has its type: no publish goes past MaxAttempts and no message
\* past MaxDeliver deliveries.
TypeOK ==
  /\ faults \in FaultSets /\ linked \in BOOLEAN
  /\ status \in TaskStatus \cup {"absent"}
  /\ events \in 0..MaxClaims /\ claims \in 0..MaxClaims
  /\ disp \in Msgs \cup {NoDisp}
  /\ ready \in [Msgs -> Message] /\ dead \in [Msgs -> Message]
  /\ seen \subseteq Claims
  /\ worker \in [Workers -> [pc : WorkerPC, msg : Msgs \cup {NoMsg}, n : 0..MaxDeliver]]
  /\ calls \subseteq [msg : Msgs, n : 1..MaxDeliver,
                      target : {"unread", "in_progress", "in_review", "completed"}]
  /\ dlc \in [pc : {"idle", "check", "fail", "mark", "ack"}, msg : Msgs \cup {NoMsg},
              n : 0..MaxDeliver]

\* What is acked is accounted for: as long as the dedup store answers, a claim
\* leaves the ready subject only once it is marked or on the dead subject, and
\* the dead subject only once it is marked, whatever crashed, lapsed or was
\* delivered twice in between.
AckedIsAccounted ==
  "dedup_error" \notin faults =>
    \A m \in Msgs :
      /\ ready[m].at = "acked" => m.claim \in seen \/ dead[m].at # "none"
      /\ dead[m].at = "acked" => m.claim \in seen

\* Nothing is on its way to move the task.
Quiet ==
  /\ events = 0 /\ disp = NoDisp /\ calls = {} /\ dlc = Idle
  /\ \A w \in Workers : worker[w] = Idle
  /\ \A m \in Msgs : ~Live(ready, m) /\ ~Live(dead, m)

\* As long as nothing worse than an HTTP 5xx or a dedup error happens, no task
\* is left behind: once all claims are used up it has been run to its review
\* or its end, or was failed.
NoOrphan ==
  faults \subseteq {"backend_error", "dedup_error"} /\ Quiet =>
    status \notin {"assigned", "in_progress"}

\* Every message comes to an end, under every failure: no claim is delivered
\* for ever and no worker waits for ever.
MessagesSettle ==
  \A m \in Msgs : /\ Live(ready, m) ~> ~Live(ready, m)
                  /\ Live(dead, m) ~> ~Live(dead, m)

\* A claim that used up its deliveries is marked or dead-lettered, as long as
\* no worker dies or misses its ack deadline and the dead letter can be
\* published; any of the three can lose a claim without a trace.
NeverSilentlyLost ==
  faults \cap {"crash", "ack_lapse", "publish_lost"} = {} =>
    \A m \in Msgs : ready[m].at = "dropped" => m.claim \in seen \/ dead[m].at # "none"

=============================================================================
