------------------------- MODULE TaskDispatchProofs -------------------------
(***************************************************************************)
(* Proofs about TaskDispatch for any number of workers, dispatches,        *)
(* publish attempts and deliveries, whoever else moves the task, and every *)
(* set of failures.                                                        *)
(***************************************************************************)
EXTENDS TaskDispatch, TLAPS

WorkerRecord == [pc : WorkerPC, msg : Msgs \cup {NoMsg}, n : 0..MaxDeliver]

ConsumerRecord == [pc : {"idle", "check", "fail", "mark", "ack"}, msg : Msgs \cup {NoMsg},
                   n : 0..MaxDeliver]

Call == [msg : Msgs, n : 1..MaxDeliver,
         target : {"unread", "in_progress", "in_review", "completed"}]

\* A worker, or the consumer, that has a message knows which.
Knows(h) == h # Idle => h.pc # "idle" /\ h.msg \in Msgs /\ h.n \in 1..MaxDeliver

(***************************************************************************)
(* What the types rest on: an event is given only while a dispatch is left *)
(* for it, a queued message has a delivery left, and whoever is busy has a *)
(* message.                                                                *)
(***************************************************************************)
EngineOK ==
  /\ status \in TaskStatus \cup {"absent"}
  /\ events \in Nat /\ claims \in Nat /\ claims + events <= MaxClaims
  /\ disp \in Msgs \cup {NoDisp}

ReadyOK ==
  /\ ready \in [Msgs -> Message]
  /\ \A m \in Msgs : ready[m].at = "queued" => ready[m].n < MaxDeliver

DeadOK ==
  /\ dead \in [Msgs -> Message]
  /\ \A m \in Msgs : dead[m].at = "queued" => dead[m].n < MaxDeliver

WorkersOK ==
  /\ worker \in [Workers -> WorkerRecord]
  /\ \A w \in Workers : Knows(worker[w])

ConsumerOK == dlc \in ConsumerRecord /\ Knows(dlc)

DispatchInv ==
  /\ faults \in FaultSets /\ linked \in BOOLEAN
  /\ EngineOK /\ ReadyOK /\ DeadOK /\ seen \subseteq Claims
  /\ WorkersOK /\ calls \subseteq Call /\ ConsumerOK

-----------------------------------------------------------------------------
(* The operators *)

\* No message is no message of the subjects, and whoever is idle has none.
LEMMA NoMsgFacts ==
  /\ NoMsg \notin Msgs
  /\ \A m \in Msgs : m.claim \in Claims /\ m.attempt \in 1..MaxAttempts
  /\ Idle.pc = "idle" /\ Idle.msg = NoMsg /\ Idle.n = 0
  BY DispatchAssumption DEF NoMsg, Msgs, Claims, Idle

\* What each operation of a subject does to its messages.
LEMMA SubjectFacts ==
  ASSUME NEW q \in [Msgs -> Message], NEW m \in Msgs
  PROVE  /\ \A k \in Msgs : q[k].at \in {"none", "queued", "out", "acked", "dropped"}
                            /\ q[k].n \in 0..MaxDeliver
         /\ Stored(q, m) \in [Msgs -> Message]
         /\ Stored(q, m)[m].at = "queued" /\ Stored(q, m)[m].n = 0
         /\ q[m].n < MaxDeliver => Delivered(q, m) \in [Msgs -> Message]
         /\ Delivered(q, m)[m].at = "out" /\ Delivered(q, m)[m].n = q[m].n + 1
         /\ Acked(q, m) \in [Msgs -> Message]
         /\ Acked(q, m)[m].n = q[m].n
         /\ Acked(q, m)[m].at = IF Live(q, m) THEN "acked" ELSE q[m].at
         /\ Returned(q, m) \in [Msgs -> Message]
         /\ Returned(q, m)[m].n = q[m].n
         /\ Returned(q, m)[m].at = IF ~Live(q, m) THEN q[m].at
                                   ELSE IF q[m].n < MaxDeliver THEN "queued" ELSE "dropped"
         /\ \A k \in Msgs \ {m} : /\ Stored(q, m)[k] = q[k] /\ Delivered(q, m)[k] = q[k]
                                  /\ Acked(q, m)[k] = q[k] /\ Returned(q, m)[k] = q[k]
<1>a. 0 \in 0..MaxDeliver /\ MaxDeliver \in Nat
  BY DispatchAssumption
<1>b. q[m] \in Message /\ q[m].n \in 0..MaxDeliver
  BY DEF Message
<1>1. /\ Stored(q, m) \in [Msgs -> Message]
      /\ Stored(q, m)[m].at = "queued" /\ Stored(q, m)[m].n = 0
  BY <1>a DEF Stored, Message
<1>2. /\ q[m].n < MaxDeliver => Delivered(q, m) \in [Msgs -> Message]
      /\ Delivered(q, m)[m].at = "out" /\ Delivered(q, m)[m].n = q[m].n + 1
  <2>1. q[m].n < MaxDeliver => q[m].n + 1 \in 0..MaxDeliver
    BY <1>a, <1>b
  <2> QED BY <2>1 DEF Delivered, Message
<1>3. /\ Acked(q, m) \in [Msgs -> Message]
      /\ Acked(q, m)[m].n = q[m].n
      /\ Acked(q, m)[m].at = IF Live(q, m) THEN "acked" ELSE q[m].at
  BY <1>b DEF Acked, Message
<1>4. /\ Returned(q, m) \in [Msgs -> Message]
      /\ Returned(q, m)[m].n = q[m].n
      /\ Returned(q, m)[m].at = IF ~Live(q, m) THEN q[m].at
                                ELSE IF q[m].n < MaxDeliver THEN "queued" ELSE "dropped"
  BY <1>b DEF Returned, Message
<1>5. \A k \in Msgs \ {m} : /\ Stored(q, m)[k] = q[k] /\ Delivered(q, m)[k] = q[k]
                            /\ Acked(q, m)[k] = q[k] /\ Returned(q, m)[k] = q[k]
  BY DEF Stored, Delivered, Acked, Returned
<1>6. \A k \in Msgs : q[k].at \in {"none", "queued", "out", "acked", "dropped"}
                      /\ q[k].n \in 0..MaxDeliver
  BY DEF Message
<1> QED BY <1>1, <1>2, <1>3, <1>4, <1>5, <1>6

\* ... and where it leaves them.
LEMMA AtAfter ==
  ASSUME NEW q \in [Msgs -> Message], NEW m \in Msgs, NEW k \in Msgs
  PROVE  /\ Stored(q, m)[k].at \in {q[k].at, "queued"}
         /\ Delivered(q, m)[k].at \in {q[k].at, "out"}
         /\ Acked(q, m)[k].at \in {q[k].at, "acked"}
         /\ Returned(q, m)[k].at \in {q[k].at, "queued", "dropped"}
<1>1. CASE k = m
  <2>1. Stored(q, m)[m].at = "queued" /\ Delivered(q, m)[m].at = "out"
    BY SubjectFacts
  <2>2. Acked(q, m)[m].at = IF Live(q, m) THEN "acked" ELSE q[m].at
    BY SubjectFacts
  <2>3. Returned(q, m)[m].at = IF ~Live(q, m) THEN q[m].at
                               ELSE IF q[m].n < MaxDeliver THEN "queued" ELSE "dropped"
    BY SubjectFacts
  <2> QED BY <1>1, <2>1, <2>2, <2>3
<1>2. CASE k # m
  BY <1>2, SubjectFacts
<1> QED BY <1>1, <1>2

\* The answer to a call changes nothing of a worker but where it is.
LEMMA AnswerFacts ==
  ASSUME WorkersOK, NEW c, NEW outcome, Answered(c, outcome)
  PROVE  /\ worker' \in [Workers -> WorkerRecord]
         /\ \A w \in Workers :
              /\ worker'[w].msg = worker[w].msg /\ worker'[w].n = worker[w].n
              /\ IF worker[w].pc = "execute" /\ worker[w].msg = c.msg /\ worker[w].n = c.n
                 THEN worker'[w].pc = AfterRun(outcome, worker[w].n)
                 ELSE worker'[w] = worker[w]
<1>1. AfterRun(outcome, c.n) \in {"mark", "dead", "nack"}
  BY DEF AfterRun
<1>2. AfterRun(outcome, c.n) \in WorkerPC
  BY <1>1 DEF WorkerPC
<1> QED BY <1>2 DEF Answered, WorkersOK, WorkerRecord

\* Who touches what.
LEMMA Frames ==
  ASSUME [Next]_vars
  PROVE  /\ UNCHANGED env
         /\ \/ UNCHANGED ready
            \/ \E m \in Msgs : AckWaitReady(m)
            \/ PublishClaim
            \/ \E w \in Workers : Finalize(w) \/ \E m \in Msgs : NextClaim(w, m)
         /\ \/ UNCHANGED dead
            \/ \E m \in Msgs : AckWaitDead(m) \/ NextDead(m)
            \/ \E w \in Workers : DeadLetter(w)
            \/ FailTaskFails \/ AckDead
         /\ \/ UNCHANGED seen
            \/ \E w \in Workers : MarkCompleted(w)
            \/ MarkHandled
         /\ \/ UNCHANGED dlc
            \/ \E m \in Msgs : NextDead(m)
            \/ AlreadyHandled \/ FailTask \/ FailTaskFails \/ MarkHandled \/ AckDead
            \/ BackendCrash
<1> USE DEF vars, env, Next, WorkerStep, Execute, AckWait, DeadLetterStep, Outside, BuildClaim,
            CheckSeen, TransportError, WorkerCrash, ExecuteRead, ExecuteTransition,
            ExecuteFails, ExecuteRefused
<1>1. UNCHANGED env
  BY DEF PublishClaim, BackendCrash, NextClaim, Finalize, MarkCompleted, DeadLetter, AckWaitReady,
         AckWaitDead, NextDead, AlreadyHandled, FailTask, FailTaskFails, MarkHandled, AckDead
<1>2. \/ UNCHANGED ready
      \/ \E m \in Msgs : AckWaitReady(m)
      \/ PublishClaim
      \/ \E w \in Workers : Finalize(w) \/ \E m \in Msgs : NextClaim(w, m)
  BY DEF BackendCrash, MarkCompleted, DeadLetter, AckWaitDead, NextDead, AlreadyHandled, FailTask,
         FailTaskFails, MarkHandled, AckDead
<1>3. \/ UNCHANGED dead
      \/ \E m \in Msgs : AckWaitDead(m) \/ NextDead(m)
      \/ \E w \in Workers : DeadLetter(w)
      \/ FailTaskFails \/ AckDead
  BY DEF PublishClaim, BackendCrash, NextClaim, Finalize, MarkCompleted, AckWaitReady,
         AlreadyHandled, FailTask, MarkHandled
<1>4. \/ UNCHANGED seen
      \/ \E w \in Workers : MarkCompleted(w)
      \/ MarkHandled
  BY DEF PublishClaim, BackendCrash, NextClaim, Finalize, DeadLetter, AckWaitReady,
         AckWaitDead, NextDead, AlreadyHandled, FailTask, FailTaskFails, AckDead
<1>5. \/ UNCHANGED dlc
      \/ \E m \in Msgs : NextDead(m)
      \/ AlreadyHandled \/ FailTask \/ FailTaskFails \/ MarkHandled \/ AckDead
      \/ BackendCrash
  BY DEF PublishClaim, NextClaim, Finalize, MarkCompleted, DeadLetter, AckWaitReady, AckWaitDead
<1> QED BY <1>1, <1>2, <1>3, <1>4, <1>5

\* ... of the dispatcher, the workers and the backend.
LEMMA MoreFrames ==
  ASSUME [Next]_vars
  PROVE  /\ \/ UNCHANGED worker
            \/ \E w \in Workers : \/ \E m \in Msgs : NextClaim(w, m)
                                  \/ CheckSeen(w) \/ TransportError(w) \/ MarkCompleted(w)
                                  \/ Finalize(w) \/ DeadLetter(w) \/ WorkerCrash(w)
            \/ \E c \in calls : \/ ExecuteRead(c) \/ ExecuteTransition(c) \/ ExecuteFails(c)
                                \/ ExecuteRefused(c)
         /\ \/ UNCHANGED calls
            \/ \E w \in Workers : CheckSeen(w)
            \/ \E c \in calls : \/ ExecuteRead(c) \/ ExecuteTransition(c) \/ ExecuteFails(c)
                                \/ ExecuteRefused(c)
            \/ BackendCrash
         /\ \/ UNCHANGED <<status, events>>
            \/ \E new \in Decisions \cup {"assigned", "absent"} : Outside(new)
            \/ \E c \in calls : ExecuteTransition(c)
            \/ FailTask
            \/ BuildClaim \/ BackendCrash
         /\ \/ UNCHANGED <<claims, disp>>
            \/ BuildClaim \/ PublishClaim \/ BackendCrash
<1> USE DEF vars, Next, WorkerStep, Execute, AckWait, DeadLetterStep, AckWaitReady,
            AckWaitDead, NextDead, AlreadyHandled, FailTaskFails, MarkHandled, AckDead
<1>1. \/ UNCHANGED worker
      \/ \E w \in Workers : \/ \E m \in Msgs : NextClaim(w, m)
                            \/ CheckSeen(w) \/ TransportError(w) \/ MarkCompleted(w)
                            \/ Finalize(w) \/ DeadLetter(w) \/ WorkerCrash(w)
      \/ \E c \in calls : \/ ExecuteRead(c) \/ ExecuteTransition(c) \/ ExecuteFails(c)
                          \/ ExecuteRefused(c)
  BY DEF Outside, BuildClaim, PublishClaim, BackendCrash, FailTask
<1>2. \/ UNCHANGED calls
      \/ \E w \in Workers : CheckSeen(w)
      \/ \E c \in calls : \/ ExecuteRead(c) \/ ExecuteTransition(c) \/ ExecuteFails(c)
                          \/ ExecuteRefused(c)
      \/ BackendCrash
  BY DEF Outside, BuildClaim, PublishClaim, FailTask, NextClaim, TransportError, MarkCompleted,
         Finalize, DeadLetter, WorkerCrash
<1>3. \/ UNCHANGED <<status, events>>
      \/ \E new \in Decisions \cup {"assigned", "absent"} : Outside(new)
      \/ \E c \in calls : ExecuteTransition(c)
      \/ FailTask
      \/ BuildClaim \/ BackendCrash
  BY DEF PublishClaim, NextClaim, CheckSeen, TransportError, MarkCompleted, Finalize, DeadLetter,
         WorkerCrash, ExecuteRead, ExecuteFails, ExecuteRefused
<1>4. \/ UNCHANGED <<claims, disp>>
      \/ BuildClaim \/ PublishClaim \/ BackendCrash
  BY DEF Outside, NextClaim, CheckSeen, TransportError, MarkCompleted, Finalize, DeadLetter,
         WorkerCrash, ExecuteRead, ExecuteTransition, ExecuteFails, ExecuteRefused, FailTask
<1> QED BY <1>1, <1>2, <1>3, <1>4

-----------------------------------------------------------------------------
(* Types *)

\* Types hold initially.
LEMMA InitDispatch == Init => DispatchInv
<1> SUFFICES ASSUME Init PROVE DispatchInv
  OBVIOUS
<1>1. Unsent \in Message /\ Unsent.at = "none"
  BY DispatchAssumption DEF Unsent, Message
<1>2. Idle \in WorkerRecord /\ Idle \in ConsumerRecord
  BY DispatchAssumption DEF Idle, WorkerRecord, ConsumerRecord, WorkerPC
<1>3. EngineOK
  BY DispatchAssumption DEF Init, EngineOK, TaskStatus
<1>4. ReadyOK /\ DeadOK
  BY <1>1 DEF Init, ReadyOK, DeadOK
<1>5. WorkersOK /\ ConsumerOK
  BY <1>2 DEF Init, WorkersOK, ConsumerOK, Knows
<1> QED BY <1>3, <1>4, <1>5 DEF Init, DispatchInv

\* The status is one of the table's, and no more dispatches are due than fit.
LEMMA EngineKept ==
  ASSUME DispatchInv, [Next]_vars
  PROVE  EngineOK'
<1>a. /\ status \in TaskStatus \cup {"absent"} /\ events \in Nat /\ claims \in Nat
      /\ claims + events <= MaxClaims /\ disp \in Msgs \cup {NoDisp} /\ MaxClaims \in Nat
      /\ MaxAttempts \in Nat \ {0}
  BY DispatchAssumption DEF DispatchInv, EngineOK
<1>1. /\ status' \in TaskStatus \cup {"absent"} /\ events' \in Nat /\ claims' \in Nat
      /\ claims' + events' <= MaxClaims
  <2>1. ASSUME NEW new \in Decisions \cup {"assigned", "absent"}, Outside(new)
        PROVE  status' \in TaskStatus \cup {"absent"} /\ events' \in Nat
               /\ UNCHANGED claims /\ claims + events' <= MaxClaims
    <3>1. new \in TaskStatus \cup {"absent"}
      BY DispatchAssumption DEF TaskStatus
    <3> QED BY <1>a, <2>1, <3>1 DEF Outside, Moved, is_dispatchable
  <2>2. ASSUME NEW new \in TaskStatus, new # "assigned", Moved(new)
        PROVE  status' \in TaskStatus /\ UNCHANGED events
    BY <2>2 DEF Moved, is_dispatchable
  <2>3. ASSUME NEW c \in calls, ExecuteTransition(c)
        PROVE  status' \in TaskStatus \cup {"absent"} /\ UNCHANGED <<events, claims>>
    <3>1. c.target \in TaskStatus \ {"assigned"} \/ c.target = "unread"
      BY DEF DispatchInv, Call, TaskStatus
    <3> QED BY <1>a, <2>2, <2>3, <3>1 DEF ExecuteTransition
  <2>4. ASSUME FailTask
        PROVE  status' \in TaskStatus \cup {"absent"} /\ UNCHANGED <<events, claims>>
    BY <1>a, <2>2, <2>4 DEF FailTask, TaskStatus
  <2>5. ASSUME BuildClaim \/ BackendCrash
        PROVE  /\ UNCHANGED status /\ events' \in Nat /\ claims' \in Nat
               /\ claims' + events' <= MaxClaims
    BY <1>a, <2>5 DEF BuildClaim, BackendCrash
  <2>6. PublishClaim => UNCHANGED <<claims, events, status>>
    BY DEF PublishClaim
  <2> QED BY <1>a, <2>1, <2>3, <2>4, <2>5, <2>6, MoreFrames
<1>2. disp' \in Msgs \cup {NoDisp}
  <2>1. ASSUME BuildClaim PROVE disp' \in Msgs \cup {NoDisp}
    <3>1. claims + 1 \in Claims /\ 1 \in 1..MaxAttempts
      BY <1>a, <2>1 DEF BuildClaim, Claims
    <3>2. [claim |-> claims + 1, attempt |-> 1] \in Msgs
      BY <3>1 DEF Msgs
    <3> QED BY <1>a, <2>1, <3>2 DEF BuildClaim
  <2>2. ASSUME PublishClaim PROVE disp' \in Msgs \cup {NoDisp}
    <3>1. disp \in Msgs
      BY <1>a, <2>2 DEF PublishClaim
    <3>2. disp.attempt < MaxAttempts => [disp EXCEPT !.attempt = @ + 1] \in Msgs
      BY <1>a, <3>1 DEF Msgs
    <3> QED BY <2>2, <3>2 DEF PublishClaim, NextAttempt
  <2>3. BackendCrash => disp' = NoDisp
    BY DEF BackendCrash
  <2> QED BY <1>a, <2>1, <2>2, <2>3, MoreFrames
<1> QED BY <1>1, <1>2 DEF EngineOK

\* A message that is queued has a delivery left.
LEMMA SubjectsKept ==
  ASSUME DispatchInv, [Next]_vars
  PROVE  ReadyOK' /\ DeadOK'
<1>a. /\ ready \in [Msgs -> Message] /\ dead \in [Msgs -> Message]
      /\ \A m \in Msgs : ready[m].at = "queued" => ready[m].n < MaxDeliver
      /\ \A m \in Msgs : dead[m].at = "queued" => dead[m].n < MaxDeliver
      /\ MaxDeliver \in Nat \ {0}
  BY DispatchAssumption DEF DispatchInv, ReadyOK, DeadOK
<1>b. ASSUME NEW q \in [Msgs -> Message], NEW m \in Msgs,
             \A k \in Msgs : q[k].at = "queued" => q[k].n < MaxDeliver,
             NEW p, \/ p = Stored(q, m)
                    \/ q[m].at = "queued" /\ p = Delivered(q, m)
                    \/ p = Acked(q, m)
                    \/ p = Returned(q, m)
      PROVE  p \in [Msgs -> Message] /\ \A k \in Msgs : p[k].at = "queued" => p[k].n < MaxDeliver
  <2>1. p \in [Msgs -> Message] /\ \A k \in Msgs \ {m} : p[k] = q[k]
    BY <1>b, SubjectFacts
  <2>2. p[m].at = "queued" => p[m].n < MaxDeliver
    <3>1. CASE p = Stored(q, m)
      BY <1>a, <3>1, SubjectFacts
    <3>2. CASE p = Delivered(q, m)
      BY <3>2, SubjectFacts
    <3>3. CASE p = Acked(q, m)
      <4>1. p[m].n = q[m].n /\ p[m].at \in {"acked", q[m].at}
        BY <3>3, SubjectFacts
      <4> QED BY <1>b, <4>1
    <3>4. CASE p = Returned(q, m)
      <4>1. /\ p[m].n = q[m].n
            /\ p[m].at = IF ~Live(q, m) THEN q[m].at
                         ELSE IF q[m].n < MaxDeliver THEN "queued" ELSE "dropped"
        BY <3>4, SubjectFacts
      <4> QED BY <1>b, <4>1
    <3> QED BY <1>b, <3>1, <3>2, <3>3, <3>4
  <2> QED BY <1>b, <2>1, <2>2
<1>1. ReadyOK'
  <2>1. ASSUME NEW m \in Msgs, \/ ready' = Stored(ready, m)
                               \/ ready[m].at = "queued" /\ ready' = Delivered(ready, m)
                               \/ ready' = Acked(ready, m)
                               \/ ready' = Returned(ready, m)
        PROVE  ReadyOK'
    BY <1>a, <1>b, <2>1 DEF ReadyOK
  <2>2. ASSUME NEW m \in Msgs, AckWaitReady(m) PROVE ReadyOK'
    BY <2>1, <2>2 DEF AckWaitReady
  <2>3. ASSUME PublishClaim PROVE ReadyOK'
    <3>1. PICK m : m = disp
      OBVIOUS
    <3>2. m \in Msgs /\ (UNCHANGED ready \/ ready' = Stored(ready, m))
      BY <2>3, <3>1 DEF PublishClaim, DispatchInv, EngineOK
    <3> QED BY <1>a, <2>1, <3>2 DEF ReadyOK
  <2>4. ASSUME NEW w \in Workers, NEW m \in Msgs, NextClaim(w, m) PROVE ReadyOK'
    BY <2>1, <2>4 DEF NextClaim
  <2>5. ASSUME NEW w \in Workers, Finalize(w) PROVE ReadyOK'
    <3>1. PICK m : m = worker[w].msg
      OBVIOUS
    <3>2. m \in Msgs /\ (ready' = Acked(ready, m) \/ ready' = Returned(ready, m))
      BY <2>5, <3>1, NoMsgFacts DEF Finalize, DispatchInv, WorkersOK, Knows
    <3> QED BY <2>1, <3>2
  <2> QED BY <1>a, <2>2, <2>3, <2>4, <2>5, Frames DEF ReadyOK
<1>2. DeadOK'
  <2>1. ASSUME NEW m \in Msgs, \/ dead' = Stored(dead, m)
                               \/ dead[m].at = "queued" /\ dead' = Delivered(dead, m)
                               \/ dead' = Acked(dead, m)
                               \/ dead' = Returned(dead, m)
                               \/ UNCHANGED dead
        PROVE  DeadOK'
    BY <1>a, <1>b, <2>1 DEF DeadOK
  <2>2. ASSUME NEW m \in Msgs, AckWaitDead(m) \/ NextDead(m) PROVE DeadOK'
    BY <2>1, <2>2 DEF AckWaitDead, NextDead
  <2>3. ASSUME NEW w \in Workers, DeadLetter(w) PROVE DeadOK'
    <3>1. PICK m : m = worker[w].msg
      OBVIOUS
    <3>2. m \in Msgs /\ (UNCHANGED dead \/ dead' = Stored(dead, m))
      BY <2>3, <3>1, NoMsgFacts DEF DeadLetter, DispatchInv, WorkersOK, Knows
    <3> QED BY <2>1, <3>2
  <2>4. ASSUME FailTaskFails \/ AckDead PROVE DeadOK'
    <3>1. PICK m : m = dlc.msg
      OBVIOUS
    <3>2. m \in Msgs
      BY <2>4, <3>1, NoMsgFacts DEF FailTaskFails, AckDead, DispatchInv, ConsumerOK, Knows
    <3>3. UNCHANGED dead \/ dead' = Acked(dead, m) \/ dead' = Returned(dead, m)
      BY <2>4, <3>1 DEF FailTaskFails, AckDead
    <3> QED BY <2>1, <3>2, <3>3
  <2> QED BY <1>a, <2>2, <2>3, <2>4, Frames DEF DeadOK
<1> QED BY <1>1, <1>2

\* Busy workers, calls and the consumer know their message.
LEMMA HandsKept ==
  ASSUME DispatchInv, [Next]_vars
  PROVE  WorkersOK' /\ (calls \subseteq Call)' /\ ConsumerOK' /\ (seen \subseteq Claims)'
<1>a. /\ worker \in [Workers -> WorkerRecord] /\ \A w \in Workers : Knows(worker[w])
      /\ WorkersOK /\ calls \subseteq Call /\ dlc \in ConsumerRecord /\ Knows(dlc)
      /\ ready \in [Msgs -> Message] /\ dead \in [Msgs -> Message]
      /\ \A m \in Msgs : ready[m].at = "queued" => ready[m].n < MaxDeliver
      /\ \A m \in Msgs : dead[m].at = "queued" => dead[m].n < MaxDeliver
      /\ MaxDeliver \in Nat \ {0} /\ seen \subseteq Claims
  BY DispatchAssumption DEF DispatchInv, ReadyOK, DeadOK, WorkersOK, ConsumerOK
<1>b. \A w \in Workers : worker[w].pc # "idle" =>
        worker[w] # Idle /\ worker[w].msg \in Msgs /\ worker[w].n \in 1..MaxDeliver
  BY <1>a, NoMsgFacts DEF Knows
<1>c. dlc.pc # "idle" => dlc # Idle /\ dlc.msg \in Msgs /\ dlc.n \in 1..MaxDeliver
  BY <1>a, NoMsgFacts DEF Knows
<1>d. \A m \in Msgs : /\ ready[m].at = "queued" => ready[m].n + 1 \in 1..MaxDeliver
                      /\ dead[m].at = "queued" => dead[m].n + 1 \in 1..MaxDeliver
  BY <1>a DEF Message
<1>e. 1..MaxDeliver \subseteq 0..MaxDeliver /\ Idle \in WorkerRecord /\ Idle \in ConsumerRecord
      /\ Knows(Idle)
  BY <1>a DEF Idle, WorkerRecord, ConsumerRecord, WorkerPC, Knows
<1>1. WorkersOK'
  <2>1. ASSUME NEW w \in Workers, NEW p, p \in WorkerRecord, Knows(p),
               worker' = [worker EXCEPT ![w] = p]
        PROVE  WorkersOK'
    BY <1>a, <2>1 DEF WorkersOK
  <2>2. ASSUME NEW w \in Workers, worker[w].pc # "idle",
               NEW pc \in WorkerPC \ {"idle"}, Goes(w, pc)
        PROVE  WorkersOK'
    <3> DEFINE p == [worker[w] EXCEPT !.pc = pc]
    <3>1. p \in WorkerRecord /\ p.pc = pc /\ p.msg = worker[w].msg /\ p.n = worker[w].n
      BY <1>a DEF WorkerRecord
    <3>2. Knows(p)
      BY <1>b, <2>2, <3>1 DEF Knows
    <3>3. worker' = [worker EXCEPT ![w] = p]
      BY <1>a, <2>2 DEF Goes, WorkerRecord
    <3> HIDE DEF p
    <3> QED BY <2>1, <3>1, <3>2, <3>3
  <2>3. ASSUME NEW w \in Workers, NEW m \in Msgs, NextClaim(w, m) PROVE WorkersOK'
    <3> DEFINE p == [pc |-> "check", msg |-> m, n |-> ready[m].n + 1]
    <3>1. p \in WorkerRecord /\ Knows(p)
      BY <1>d, <1>e, <2>3 DEF NextClaim, WorkerRecord, WorkerPC, Knows
    <3>2. worker' = [worker EXCEPT ![w] = p]
      BY <2>3 DEF NextClaim
    <3> HIDE DEF p
    <3> QED BY <2>1, <3>1, <3>2
  <2>4. ASSUME NEW w \in Workers, CheckSeen(w) \/ TransportError(w) \/ MarkCompleted(w)
        PROVE  WorkersOK'
    <3>1. worker[w].pc # "idle"
      BY <2>4 DEF CheckSeen, TransportError, MarkCompleted
    <3>2. \E pc \in {"ack", "execute", "mark", "dead", "nack"} : Goes(w, pc)
      BY <2>4 DEF CheckSeen, TransportError, MarkCompleted, AfterRun
    <3> QED BY <2>2, <3>1, <3>2 DEF WorkerPC
  <2>5. ASSUME NEW w \in Workers, Finalize(w) \/ DeadLetter(w) \/ WorkerCrash(w)
        PROVE  WorkersOK'
    <3>1. worker' = [worker EXCEPT ![w] = Idle] \/ (worker[w].pc = "dead" /\ Goes(w, "ack"))
      BY <2>5 DEF Finalize, DeadLetter, WorkerCrash
    <3> QED BY <1>e, <2>1, <2>2, <3>1 DEF WorkerPC
  <2>6. ASSUME NEW c \in calls, NEW outcome, Answered(c, outcome) PROVE WorkersOK'
    <3>1. \A w \in Workers : Knows(worker'[w])
      <4> SUFFICES ASSUME NEW w \in Workers, worker'[w] # worker[w] PROVE Knows(worker'[w])
        BY <1>a
      <4>1. /\ worker[w].pc = "execute" /\ worker'[w].pc = AfterRun(outcome, worker[w].n)
            /\ worker'[w].msg = worker[w].msg /\ worker'[w].n = worker[w].n
        BY <1>a, <2>6, AnswerFacts
      <4> QED BY <1>b, <4>1 DEF Knows, AfterRun
    <3> QED BY <1>a, <2>6, <3>1, AnswerFacts DEF WorkersOK
  <2>7. ASSUME NEW c \in calls, \/ ExecuteRead(c) \/ ExecuteTransition(c) \/ ExecuteFails(c)
                                \/ ExecuteRefused(c)
        PROVE  UNCHANGED worker \/ \E outcome : Answered(c, outcome)
    BY <2>7 DEF ExecuteRead, ExecuteTransition, ExecuteFails, ExecuteRefused
  <2>8. UNCHANGED worker => WorkersOK'
    BY <1>a DEF WorkersOK
  <2> QED BY <2>3, <2>4, <2>5, <2>6, <2>7, <2>8, MoreFrames
<1>2. (calls \subseteq Call)'
  <2>1. ASSUME NEW w \in Workers, CheckSeen(w) PROVE calls' \subseteq Call
    <3>1. [msg |-> worker[w].msg, n |-> worker[w].n, target |-> "unread"] \in Call
      BY <1>b, <2>1 DEF CheckSeen, Call
    <3> QED BY <1>a, <2>1, <3>1 DEF CheckSeen
  <2>2. ASSUME NEW c \in calls, ExecuteRead(c) PROVE calls' \subseteq Call
    <3>1. next_status # "none" => [c EXCEPT !.target = next_status] \in Call
      BY <1>a DEF Call, next_status
    <3> QED BY <1>a, <2>2, <3>1 DEF ExecuteRead
  <2>3. ASSUME NEW c \in calls, ExecuteTransition(c) \/ ExecuteFails(c) \/ ExecuteRefused(c)
        PROVE  calls' \subseteq Call
    BY <1>a, <2>3 DEF ExecuteTransition, ExecuteFails, ExecuteRefused
  <2>4. BackendCrash => calls' \subseteq Call
    BY DEF BackendCrash
  <2> QED BY <1>a, <2>1, <2>2, <2>3, <2>4, MoreFrames
<1>3. ConsumerOK'
  <2>1. ASSUME dlc.pc # "idle", NEW pc \in {"check", "fail", "mark", "ack"},
               dlc' = [dlc EXCEPT !.pc = pc]
        PROVE  ConsumerOK'
    <3>1. dlc' \in ConsumerRecord /\ dlc'.pc = pc /\ dlc'.msg = dlc.msg /\ dlc'.n = dlc.n
      BY <1>a, <2>1 DEF ConsumerRecord
    <3> QED BY <1>c, <2>1, <3>1 DEF ConsumerOK, Knows
  <2>2. ASSUME NEW m \in Msgs, NextDead(m) PROVE ConsumerOK'
    BY <1>d, <1>e, <2>2 DEF NextDead, ConsumerRecord, ConsumerOK, Knows
  <2>3. AlreadyHandled \/ FailTask \/ MarkHandled => ConsumerOK'
    BY <2>1 DEF AlreadyHandled, FailTask, MarkHandled
  <2>4. FailTaskFails \/ AckDead \/ BackendCrash => ConsumerOK'
    BY <1>e DEF FailTaskFails, AckDead, BackendCrash, ConsumerOK
  <2>5. UNCHANGED dlc => ConsumerOK'
    BY <1>a DEF ConsumerOK
  <2> QED BY <2>2, <2>3, <2>4, <2>5, Frames
<1>4. (seen \subseteq Claims)'
  <2>1. ASSUME NEW w \in Workers, MarkCompleted(w) PROVE seen' \subseteq Claims
    BY <1>a, <1>b, <2>1, NoMsgFacts DEF MarkCompleted
  <2>2. MarkHandled => seen' \subseteq Claims
    BY <1>a, <1>c, NoMsgFacts DEF MarkHandled
  <2> QED BY <1>a, <2>1, <2>2, Frames
<1> QED BY <1>1, <1>2, <1>3, <1>4

\* Every step keeps the types.
LEMMA DispatchNext == DispatchInv /\ [Next]_vars => DispatchInv'
<1> SUFFICES ASSUME DispatchInv, [Next]_vars PROVE DispatchInv'
  OBVIOUS
<1>1. (faults \in FaultSets /\ linked \in BOOLEAN)'
  BY Frames DEF DispatchInv, env
<1> QED BY <1>1, EngineKept, SubjectsKept, HandsKept DEF DispatchInv

\* ... hence they hold always.
LEMMA DispatchAlways == Spec => []DispatchInv
  BY InitDispatch, DispatchNext, PTL DEF Spec

\* Every variable keeps its type: no claim is dispatched beyond the last, no
\* publish tried beyond its attempts and no message delivered beyond
\* MaxDeliver times, under every failure.
THEOREM TypeCorrect == Spec => []TypeOK
<1>1. DispatchInv => TypeOK
  BY DispatchAssumption DEF DispatchInv, EngineOK, ReadyOK, DeadOK, WorkersOK, ConsumerOK,
     WorkerRecord, ConsumerRecord, Call, TypeOK
<1> QED BY <1>1, DispatchAlways, PTL
-----------------------------------------------------------------------------
(* One worker in one step *)

Answers(c) ==
  ExecuteRead(c) \/ ExecuteTransition(c) \/ ExecuteFails(c) \/ ExecuteRefused(c)

\* What worker v does in a step that moves it on.
MovesOn(v) ==
  /\ worker[v].pc # "idle"
  /\ worker'[v].msg = worker[v].msg /\ worker'[v].n = worker[v].n
  /\ \/ CheckSeen(v) /\ worker'[v].pc = "ack" /\ worker[v].msg.claim \in seen
     \/ CheckSeen(v) /\ worker'[v].pc = "execute"
     \/ TransportError(v) /\ worker'[v].pc = AfterRun("RETRY", worker[v].n)
     \/ MarkCompleted(v) /\ worker'[v].pc = "ack"
     \/ DeadLetter(v) /\ worker'[v].pc = "ack" /\ dead' = Stored(dead, worker[v].msg)
     \/ \E c \in calls, outcome \in {"SUCCESS", "FAILED", "RETRY"} :
          /\ Answers(c) /\ Answered(c, outcome)
          /\ worker[v].pc = "execute" /\ worker[v].msg = c.msg /\ worker[v].n = c.n
          /\ worker'[v].pc = AfterRun(outcome, worker[v].n)

Steps(v) ==
  \/ worker'[v] = worker[v]
  \/ worker'[v] = Idle /\ (Finalize(v) \/ DeadLetter(v) \/ WorkerCrash(v))
  \/ \E m \in Msgs : /\ NextClaim(v, m)
                     /\ worker'[v].pc = "check" /\ worker'[v].msg = m
                     /\ worker'[v].n = ready[m].n + 1
  \/ MovesOn(v)

\* No worker does anything else.
LEMMA WorkersStep ==
  ASSUME DispatchInv, [Next]_vars, NEW v \in Workers
  PROVE  Steps(v)
<1>a. WorkersOK /\ worker \in [Workers -> WorkerRecord] /\ worker[v] \in WorkerRecord
  BY DEF DispatchInv, WorkersOK
<1>1. ASSUME NEW w \in Workers, w # v,
             \/ \E m \in Msgs : NextClaim(w, m)
             \/ CheckSeen(w) \/ TransportError(w) \/ MarkCompleted(w)
             \/ Finalize(w) \/ DeadLetter(w) \/ WorkerCrash(w)
      PROVE  worker'[v] = worker[v]
  BY <1>a, <1>1 DEF NextClaim, CheckSeen, TransportError, MarkCompleted, Finalize, DeadLetter,
                    WorkerCrash, Goes
<1>2. ASSUME NEW pc, Goes(v, pc)
      PROVE  worker'[v].pc = pc /\ worker'[v].msg = worker[v].msg /\ worker'[v].n = worker[v].n
  BY <1>a, <1>2 DEF Goes, WorkerRecord
<1>3. ASSUME NEW m \in Msgs, NextClaim(v, m) PROVE Steps(v)
  BY <1>a, <1>3 DEF NextClaim, Steps
<1>4. ASSUME CheckSeen(v) PROVE MovesOn(v)
  <2>1. /\ worker[v].pc = "check"
        /\ (worker[v].msg.claim \in seen /\ Goes(v, "ack")) \/ Goes(v, "execute")
    BY <1>4 DEF CheckSeen
  <2> QED BY <1>2, <1>4, <2>1 DEF MovesOn
<1>5. ASSUME TransportError(v) PROVE MovesOn(v)
  <2>1. worker[v].pc = "execute" /\ Goes(v, AfterRun("RETRY", worker[v].n))
    BY <1>5 DEF TransportError
  <2> QED BY <1>2, <1>5, <2>1 DEF MovesOn
<1>6. ASSUME MarkCompleted(v) PROVE MovesOn(v)
  <2>1. worker[v].pc = "mark" /\ Goes(v, "ack")
    BY <1>6 DEF MarkCompleted
  <2> QED BY <1>2, <1>6, <2>1 DEF MovesOn
<1>7. ASSUME Finalize(v) \/ WorkerCrash(v) PROVE Steps(v)
  BY <1>a, <1>7 DEF Finalize, WorkerCrash, Steps
<1>8. ASSUME DeadLetter(v) PROVE Steps(v)
  <2>1. CASE worker' = [worker EXCEPT ![v] = Idle]
    BY <1>a, <1>8, <2>1 DEF Steps
  <2>2. CASE Goes(v, "ack") /\ dead' = Stored(dead, worker[v].msg)
    <3>1. worker[v].pc = "dead"
      BY <1>8 DEF DeadLetter
    <3> QED BY <1>2, <1>8, <2>2, <3>1 DEF MovesOn, Steps
  <2> QED BY <1>8, <2>1, <2>2 DEF DeadLetter
<1>9. ASSUME NEW c \in calls, Answers(c) PROVE Steps(v)
  <2>1. UNCHANGED worker \/ \E outcome \in {"SUCCESS", "FAILED", "RETRY"} : Answered(c, outcome)
    BY <1>9 DEF Answers, ExecuteRead, ExecuteTransition, ExecuteFails, ExecuteRefused, map_response
  <2>2. ASSUME NEW outcome \in {"SUCCESS", "FAILED", "RETRY"}, Answered(c, outcome)
        PROVE  Steps(v)
    <3>1. CASE worker[v].pc = "execute" /\ worker[v].msg = c.msg /\ worker[v].n = c.n
      BY <1>a, <1>9, <2>2, <3>1, AnswerFacts DEF Steps, MovesOn
    <3>2. CASE ~(worker[v].pc = "execute" /\ worker[v].msg = c.msg /\ worker[v].n = c.n)
      BY <1>a, <2>2, <3>2, AnswerFacts DEF Steps
    <3> QED BY <3>1, <3>2
  <2> QED BY <2>1, <2>2 DEF Steps
<1> QED BY <1>1, <1>3, <1>4, <1>5, <1>6, <1>7, <1>8, <1>9, MoreFrames DEF Steps, Answers

-----------------------------------------------------------------------------
(***************************************************************************)
(* Acks.  A worker that is about to ack has marked its claim or put it on  *)
(* the dead subject, the consumer that is about to ack has marked it, and  *)
(* neither a mark nor a dead letter is ever taken back.                    *)
(***************************************************************************)
Accounted(m) == m.claim \in seen \/ dead[m].at # "none"

AckInv ==
  /\ \A w \in Workers : worker[w].pc = "ack" => Accounted(worker[w].msg)
  /\ dlc.pc = "ack" => dlc.msg.claim \in seen
  /\ \A m \in Msgs : /\ ready[m].at = "acked" => Accounted(m)
                     /\ dead[m].at = "acked" => m.claim \in seen

\* Marks stay, and so do dead letters.
LEMMA AccountsStay ==
  ASSUME DispatchInv, [Next]_vars
  PROVE  /\ seen \subseteq seen'
         /\ \A m \in Msgs : dead[m].at # "none" => dead'[m].at # "none"
         /\ \A m \in Msgs : Accounted(m) => Accounted(m)'
<1>a. dead \in [Msgs -> Message]
  BY DEF DispatchInv, DeadOK
<1>1. seen \subseteq seen'
  BY Frames DEF MarkCompleted, MarkHandled
<1>2. ASSUME NEW m \in Msgs, dead[m].at # "none" PROVE dead'[m].at # "none"
  <2>1. ASSUME NEW k \in Msgs, \/ dead' = Stored(dead, k) \/ dead' = Delivered(dead, k)
                               \/ dead' = Acked(dead, k) \/ dead' = Returned(dead, k)
                               \/ UNCHANGED dead
        PROVE  dead'[m].at # "none"
    BY <1>a, <1>2, <2>1, AtAfter
  <2>2. ASSUME NEW k \in Msgs, AckWaitDead(k) \/ NextDead(k) PROVE dead'[m].at # "none"
    BY <2>1, <2>2 DEF AckWaitDead, NextDead
  <2>3. ASSUME NEW w \in Workers, DeadLetter(w) PROVE dead'[m].at # "none"
    <3>1. PICK k : k = worker[w].msg
      OBVIOUS
    <3>2. k \in Msgs
      BY <2>3, <3>1, NoMsgFacts DEF DeadLetter, DispatchInv, WorkersOK, Knows
    <3> QED BY <2>1, <2>3, <3>1, <3>2 DEF DeadLetter
  <2>4. ASSUME FailTaskFails \/ AckDead PROVE dead'[m].at # "none"
    <3>1. PICK k : k = dlc.msg
      OBVIOUS
    <3>2. k \in Msgs
      BY <2>4, <3>1, NoMsgFacts DEF FailTaskFails, AckDead, DispatchInv, ConsumerOK, Knows
    <3> QED BY <2>1, <2>4, <3>1, <3>2 DEF FailTaskFails, AckDead
  <2> QED BY <1>2, <2>2, <2>3, <2>4, Frames
<1> QED BY <1>1, <1>2 DEF Accounted

\* Every step keeps the account of acks.
LEMMA AckNext ==
  ASSUME DispatchInv, "dedup_error" \notin faults, AckInv, [Next]_vars
  PROVE  AckInv'
<1>a. /\ ready \in [Msgs -> Message] /\ dead \in [Msgs -> Message]
      /\ \A w \in Workers : worker[w].pc # "idle" => worker[w].msg \in Msgs
      /\ dlc.pc # "idle" => dlc.msg \in Msgs
      /\ Idle.pc = "idle"
  BY NoMsgFacts DEF DispatchInv, ReadyOK, DeadOK, WorkersOK, ConsumerOK, Knows
<1>1. ASSUME NEW w \in Workers, worker'[w].pc = "ack", NEW m, m = worker'[w].msg
      PROVE  Accounted(m)'
  <2>1. CASE worker'[w] = worker[w]
    BY <1>1, <1>a, <2>1, AccountsStay DEF AckInv
  <2>2. CASE MovesOn(w)
    <3>1. m \in Msgs /\ worker[w].msg = m
      BY <1>1, <1>a, <2>2 DEF MovesOn
    <3>2. CASE CheckSeen(w)
      <4>1. worker[w].msg.claim \in seen
        BY <1>1, <2>2, <3>2 DEF MovesOn, CheckSeen, TransportError, MarkCompleted, DeadLetter
      <4> QED BY <3>1, <4>1, AccountsStay DEF Accounted
    <3>3. CASE MarkCompleted(w)
      <4>1. m.claim \in seen'
        BY <3>1, <3>3 DEF MarkCompleted
      <4> QED BY <4>1 DEF Accounted
    <3>4. CASE dead' = Stored(dead, m)
      <4>1. dead'[m].at = "queued"
        BY <1>a, <3>1, <3>4, SubjectFacts
      <4> QED BY <4>1 DEF Accounted
    <3> QED BY <1>1, <2>2, <3>1, <3>2, <3>3, <3>4 DEF MovesOn, AfterRun
  <2> QED BY <1>1, <1>a, <2>1, <2>2, WorkersStep DEF Steps
<1>2. dlc'.pc = "ack" => dlc'.msg.claim \in seen'
  <2>1. CASE UNCHANGED dlc
    BY <2>1, AccountsStay DEF AckInv
  <2>2. CASE (\E m \in Msgs : NextDead(m)) \/ FailTask \/ FailTaskFails \/ AckDead \/ BackendCrash
    <3>1. dlc'.pc \in {"check", "mark", "idle"}
      BY <1>a, <2>2 DEF NextDead, FailTask, FailTaskFails, AckDead, BackendCrash, DispatchInv,
                        ConsumerOK, ConsumerRecord
    <3> QED BY <3>1
  <2>3. CASE AlreadyHandled
    BY <2>3 DEF AlreadyHandled, DispatchInv, ConsumerOK, ConsumerRecord
  <2>4. CASE MarkHandled
    <3>1. dlc'.msg = dlc.msg /\ seen' = seen \cup {dlc.msg.claim}
      BY <2>4, Frames DEF MarkHandled, DispatchInv, ConsumerOK, ConsumerRecord
    <3> QED BY <3>1
  <2> QED BY <2>1, <2>2, <2>3, <2>4, Frames
<1>3. ASSUME NEW m \in Msgs, ready'[m].at = "acked" PROVE Accounted(m)'
  <2>1. ASSUME ready[m].at = "acked" PROVE Accounted(m)'
    BY <2>1, AccountsStay DEF AckInv
  <2>2. ASSUME NEW k \in Msgs, \/ ready' = Stored(ready, k) \/ ready' = Delivered(ready, k)
                               \/ ready' = Returned(ready, k) \/ UNCHANGED ready
        PROVE  ready[m].at = "acked"
    <3>1. CASE ready' = Stored(ready, k)
      BY <1>3, <1>a, <3>1, AtAfter
    <3>2. CASE ready' = Delivered(ready, k)
      BY <1>3, <1>a, <3>2, AtAfter
    <3>3. CASE ready' = Returned(ready, k)
      BY <1>3, <1>a, <3>3, AtAfter
    <3> QED BY <1>3, <2>2, <3>1, <3>2, <3>3
  <2>3. ASSUME NEW w \in Workers, Finalize(w) PROVE Accounted(m)'
    <3>1. PICK k : k = worker[w].msg
      OBVIOUS
    <3>2. k \in Msgs
      BY <1>a, <2>3, <3>1 DEF Finalize
    <3>3. CASE ready' = Returned(ready, k)
      BY <2>1, <2>2, <3>2, <3>3
    <3>4. CASE worker[w].pc = "ack" /\ ready' = Acked(ready, k)
      <4>1. CASE k = m
        BY <3>1, <3>4, <4>1, AccountsStay DEF AckInv
      <4>2. CASE k # m
        <5>1. ready'[m] = ready[m]
          BY <1>a, <3>2, <3>4, <4>2, SubjectFacts
        <5> QED BY <1>3, <2>1, <5>1
      <4> QED BY <4>1, <4>2
    <3> QED BY <2>3, <3>1, <3>3, <3>4 DEF Finalize
  <2>4. ASSUME PublishClaim PROVE Accounted(m)'
    <3>1. PICK k : k = disp
      OBVIOUS
    <3>2. k \in Msgs
      BY <2>4, <3>1 DEF PublishClaim, DispatchInv, EngineOK
    <3> QED BY <2>1, <2>2, <2>4, <3>1, <3>2 DEF PublishClaim
  <2>5. ASSUME NEW k \in Msgs, NEW w \in Workers, AckWaitReady(k) \/ NextClaim(w, k)
        PROVE  Accounted(m)'
    BY <2>1, <2>2, <2>5 DEF AckWaitReady, NextClaim
  <2>6. ASSUME NEW k \in Msgs, AckWaitReady(k) PROVE Accounted(m)'
    BY <2>1, <2>2, <2>6 DEF AckWaitReady
  <2>7. CASE UNCHANGED ready
    BY <1>3, <2>1, <2>7
  <2> QED BY <2>3, <2>4, <2>5, <2>6, <2>7, Frames
<1>4. ASSUME NEW m \in Msgs, dead'[m].at = "acked" PROVE m.claim \in seen'
  <2>1. ASSUME dead[m].at = "acked" PROVE m.claim \in seen'
    BY <2>1, AccountsStay DEF AckInv
  <2>2. ASSUME NEW k \in Msgs, \/ dead' = Stored(dead, k) \/ dead' = Delivered(dead, k)
                               \/ dead' = Returned(dead, k) \/ UNCHANGED dead
        PROVE  dead[m].at = "acked"
    <3>1. CASE dead' = Stored(dead, k)
      BY <1>4, <1>a, <3>1, AtAfter
    <3>2. CASE dead' = Delivered(dead, k)
      BY <1>4, <1>a, <3>2, AtAfter
    <3>3. CASE dead' = Returned(dead, k)
      BY <1>4, <1>a, <3>3, AtAfter
    <3> QED BY <1>4, <2>2, <3>1, <3>2, <3>3
  <2>3. ASSUME NEW k \in Msgs, AckWaitDead(k) \/ NextDead(k) PROVE m.claim \in seen'
    BY <2>1, <2>2, <2>3 DEF AckWaitDead, NextDead
  <2>4. ASSUME NEW w \in Workers, DeadLetter(w) PROVE m.claim \in seen'
    <3>1. PICK k : k = worker[w].msg
      OBVIOUS
    <3>2. k \in Msgs
      BY <1>a, <2>4, <3>1 DEF DeadLetter
    <3> QED BY <2>1, <2>2, <2>4, <3>1, <3>2 DEF DeadLetter
  <2>5. ASSUME FailTaskFails PROVE m.claim \in seen'
    <3>1. PICK k : k = dlc.msg
      OBVIOUS
    <3>2. k \in Msgs
      BY <1>a, <2>5, <3>1 DEF FailTaskFails
    <3> QED BY <2>1, <2>2, <2>5, <3>1, <3>2 DEF FailTaskFails
  <2>6. ASSUME AckDead PROVE m.claim \in seen'
    <3>1. PICK k : k = dlc.msg
      OBVIOUS
    <3>2. k \in Msgs /\ k.claim \in seen' /\ dead' = Acked(dead, k)
      BY <1>a, <2>6, <3>1, AccountsStay DEF AckDead, AckInv
    <3>3. k # m => dead'[m] = dead[m]
      BY <1>a, <3>2, SubjectFacts
    <3> QED BY <1>4, <2>1, <3>2, <3>3
  <2>7. CASE UNCHANGED dead
    BY <1>4, <2>1, <2>7
  <2> QED BY <2>3, <2>4, <2>5, <2>6, <2>7, Frames
<1> QED BY <1>1, <1>2, <1>3, <1>4 DEF AckInv

\* What is acked is accounted for: as long as the dedup store answers, a claim
\* leaves the ready subject only marked or dead-lettered and the dead subject
\* only marked, whatever crashed, lapsed or was delivered twice in between.
THEOREM AcksAccounted == Spec => []AckedIsAccounted
<1> DEFINE Inv == "dedup_error" \notin faults => AckInv
<1>1. Init => Inv
  BY NoMsgFacts DEF Init, AckInv, Unsent
<1>2. DispatchInv /\ Inv /\ [Next]_vars => Inv'
  BY AckNext, Frames DEF env
<1>3. Inv => AckedIsAccounted
  BY DEF AckInv, Accounted, AckedIsAccounted
<1> HIDE DEF Inv
<1> QED BY <1>1, <1>2, <1>3, DispatchAlways, PTL DEF Spec
-----------------------------------------------------------------------------
(* One message in one step *)

Back(n) == IF n < MaxDeliver THEN "queued" ELSE "dropped"

ReadySteps(m) ==
  \/ ready'[m] = ready[m]
  \/ PublishClaim /\ disp = m /\ ready'[m].at = "queued"
  \/ /\ \E w \in Workers : NextClaim(w, m)
     /\ ready[m].at = "queued" /\ ready'[m].at = "out" /\ ready'[m].n = ready[m].n + 1
  \/ /\ AckWaitReady(m)
     /\ ready[m].at = "out" /\ ready'[m].at = Back(ready[m].n) /\ ready'[m].n = ready[m].n
  \/ \E w \in Workers :
       /\ Finalize(w) /\ worker[w].msg = m /\ ready'[m].n = ready[m].n
       /\ \/ worker[w].pc = "ack" /\ ready'[m].at = "acked"
          \/ worker[w].pc = "nack" /\ ready'[m].at = Back(ready[m].n)

\* Nothing else happens to a message.
LEMMA ReadyStep ==
  ASSUME DispatchInv, [Next]_vars, NEW m \in Msgs
  PROVE  ReadySteps(m)
<1>a. ready \in [Msgs -> Message]
  BY DEF DispatchInv, ReadyOK
<1>1. ASSUME NEW k \in Msgs, AckWaitReady(k) PROVE ReadySteps(m)
  <2>1. ready' = Returned(ready, k) /\ ready[k].at = "out"
    BY <1>1 DEF AckWaitReady
  <2>2. CASE k # m
    BY <1>a, <2>1, <2>2, SubjectFacts DEF ReadySteps
  <2>3. CASE k = m
    <3>1. Live(ready, m)
      BY <2>1, <2>3 DEF Live
    <3>2. ready'[m].at = Back(ready[m].n) /\ ready'[m].n = ready[m].n
      BY <1>a, <2>1, <2>3, <3>1, SubjectFacts DEF Back
    <3> QED BY <1>1, <2>1, <2>3, <3>2 DEF ReadySteps
  <2> QED BY <2>2, <2>3
<1>2. ASSUME PublishClaim PROVE ReadySteps(m)
  <2>1. PICK k : k = disp
    OBVIOUS
  <2>2. k \in Msgs /\ (UNCHANGED ready \/ ready' = Stored(ready, k))
    BY <1>2, <2>1 DEF PublishClaim, DispatchInv, EngineOK
  <2>3. ready' = Stored(ready, k) => ready'[m] = ready[m] \/ (k = m /\ ready'[m].at = "queued")
    BY <1>a, <2>2, SubjectFacts
  <2> QED BY <1>2, <2>1, <2>2, <2>3 DEF ReadySteps
<1>3. ASSUME NEW w \in Workers, NEW k \in Msgs, NextClaim(w, k) PROVE ReadySteps(m)
  <2>1. ready[k].at = "queued" /\ ready' = Delivered(ready, k)
    BY <1>3 DEF NextClaim
  <2>2. k # m => ready'[m] = ready[m]
    BY <1>a, <2>1, SubjectFacts
  <2>3. k = m => ready'[m].at = "out" /\ ready'[m].n = ready[m].n + 1
    BY <1>a, <2>1, SubjectFacts
  <2> QED BY <1>3, <2>1, <2>2, <2>3 DEF ReadySteps
<1>4. ASSUME NEW w \in Workers, Finalize(w) PROVE ReadySteps(m)
  <2>1. PICK k : k = worker[w].msg
    OBVIOUS
  <2>2. /\ k \in Msgs
        /\ \/ worker[w].pc = "ack" /\ ready' = Acked(ready, k)
           \/ worker[w].pc = "nack" /\ ready' = Returned(ready, k)
    BY <1>4, <2>1, NoMsgFacts DEF Finalize, DispatchInv, WorkersOK, Knows
  <2>3. k # m => ready'[m] = ready[m]
    BY <1>a, <2>2, SubjectFacts
  <2>4. ~Live(ready, k) => ready' = ready
    BY <2>2 DEF Acked, Returned
  <2>5. ASSUME Live(ready, m), k = m
        PROVE  /\ ready'[m].n = ready[m].n
               /\ \/ worker[w].pc = "ack" /\ ready'[m].at = "acked"
                  \/ worker[w].pc = "nack" /\ ready'[m].at = Back(ready[m].n)
    <3>1. CASE worker[w].pc = "ack" /\ ready' = Acked(ready, k)
      BY <1>a, <2>5, <3>1, SubjectFacts
    <3>2. CASE worker[w].pc = "nack" /\ ready' = Returned(ready, k)
      BY <1>a, <2>5, <3>2, SubjectFacts DEF Back
    <3> QED BY <2>2, <3>1, <3>2
  <2> QED BY <1>4, <2>1, <2>3, <2>4, <2>5 DEF ReadySteps
<1>5. UNCHANGED ready => ReadySteps(m)
  BY DEF ReadySteps
<1> QED BY <1>1, <1>2, <1>3, <1>4, <1>5, Frames

-----------------------------------------------------------------------------
(***************************************************************************)
(* The dispatcher stores a message once: claims are numbered upwards, and  *)
(* so are the attempts of one.                                             *)
(***************************************************************************)
FreshInv ==
  /\ disp # NoDisp => disp.claim = claims
  /\ \A m \in Msgs : ready[m].at # "none" =>
       /\ m.claim <= claims
       /\ disp # NoDisp /\ m.claim = disp.claim => m.attempt < disp.attempt

\* Every step keeps stored messages apart from the one in hand.
LEMMA FreshNext ==
  ASSUME DispatchInv, FreshInv, [Next]_vars
  PROVE  FreshInv'
<1>a. /\ claims \in Nat /\ events \in Nat /\ disp \in Msgs \cup {NoDisp}
      /\ NoDisp \notin Msgs
      /\ \A m \in Msgs : m.claim \in Nat /\ m.attempt \in Nat
  BY DispatchAssumption, NoMsgFacts DEF DispatchInv, EngineOK, NoDisp, Claims
<1>b. \A m \in Msgs : ready'[m].at # "none" => ready[m].at # "none" \/ (PublishClaim /\ m = disp)
  <2> SUFFICES ASSUME NEW m \in Msgs, ready'[m].at # "none", ready[m].at = "none"
               PROVE  PublishClaim /\ m = disp
    OBVIOUS
  <2>1. ~\E w \in Workers : Finalize(w) /\ worker[w].msg = m /\ ready'[m] # ready[m]
    <3> SUFFICES ASSUME NEW w \in Workers, Finalize(w), worker[w].msg = m PROVE UNCHANGED ready
      OBVIOUS
    <3> QED BY DEF Finalize, Acked, Returned, Live
  <2> QED BY <2>1, ReadyStep DEF ReadySteps
<1>1. ASSUME BuildClaim PROVE FreshInv'
  <2>1. /\ claims' = claims + 1 /\ UNCHANGED ready /\ disp = NoDisp
        /\ disp' = NoDisp \/ disp' = [claim |-> claims + 1, attempt |-> 1]
    BY <1>1 DEF BuildClaim
  <2>2. \A m \in Msgs : ready'[m].at # "none" => m.claim <= claims
    BY <2>1 DEF FreshInv
  <2> QED BY <1>a, <2>1, <2>2 DEF FreshInv
<1>2. ASSUME PublishClaim PROVE FreshInv'
  <2>1. PICK k : k = disp
    OBVIOUS
  <2>2. /\ k \in Msgs /\ k.claim = claims /\ UNCHANGED claims /\ disp # NoDisp
        /\ disp' = NoDisp \/ disp' = [k EXCEPT !.attempt = @ + 1]
    BY <1>2, <1>a, <2>1 DEF PublishClaim, NextAttempt, FreshInv
  <2>3. [k EXCEPT !.attempt = @ + 1].claim = k.claim
        /\ [k EXCEPT !.attempt = @ + 1].attempt = k.attempt + 1
    BY <2>2 DEF Msgs
  <2>4. \A m \in Msgs : ready'[m].at # "none" =>
          m.claim <= claims /\ (m.claim = k.claim => m.attempt < k.attempt + 1)
    BY <1>a, <1>b, <2>1, <2>2 DEF FreshInv
  <2> QED BY <2>2, <2>3, <2>4 DEF FreshInv
<1>3. ASSUME BackendCrash PROVE FreshInv'
  <2>1. disp' = NoDisp /\ claims' = claims + events /\ UNCHANGED ready
    BY <1>3 DEF BackendCrash
  <2>2. \A m \in Msgs : ready'[m].at # "none" => m.claim <= claims'
    BY <1>a, <2>1 DEF FreshInv
  <2> QED BY <2>1, <2>2 DEF FreshInv
<1>4. ASSUME UNCHANGED <<claims, disp>>, ~PublishClaim PROVE FreshInv'
  BY <1>b, <1>4 DEF FreshInv
<1> QED BY <1>1, <1>2, <1>3, <1>4, MoreFrames
-----------------------------------------------------------------------------
(***************************************************************************)
(* Deliveries.  While no worker dies, no ack deadline lapses and publishes *)
(* are not lost, a worker holds its message as JetStream counts it, nobody *)
(* else holds it, a worker that gives a message back has a delivery left,  *)
(* and a message that is out is held or has been dead-lettered.            *)
(***************************************************************************)
Steady == faults \cap {"crash", "ack_lapse", "publish_lost"} = {}

Held(m) == \E w \in Workers : worker[w] # Idle /\ worker[w].msg = m

HeldInv ==
  /\ \A w \in Workers : worker[w] # Idle =>
       ready[worker[w].msg].at = "out" /\ ready[worker[w].msg].n = worker[w].n
  /\ \A v, w \in Workers :
       worker[v] # Idle /\ worker[w] # Idle /\ worker[v].msg = worker[w].msg => v = w
  /\ \A w \in Workers : worker[w].pc = "nack" => worker[w].n < MaxDeliver

LostInv ==
  /\ \A m \in Msgs : ready[m].at = "out" => dead[m].at # "none" \/ Held(m)
  /\ \A m \in Msgs : ready[m].at = "dropped" => Accounted(m)

\* A message stays with its worker as long as the worker stays with it.
LEMMA HolderKeeps ==
  ASSUME DispatchInv, FreshInv, Steady, HeldInv, [Next]_vars,
         NEW v \in Workers, worker[v] # Idle, worker'[v] # Idle, NEW m, m = worker[v].msg
  PROVE  ready'[m] = ready[m]
<1>a. m \in Msgs /\ ready[m].at = "out" /\ ready[m].n = worker[v].n
  BY DEF DispatchInv, WorkersOK, Knows, HeldInv
<1>b. worker \in [Workers -> WorkerRecord] /\ m # NoMsg /\ Idle.pc = "idle"
  BY <1>a, NoMsgFacts DEF DispatchInv, WorkersOK
<1>1. ~(PublishClaim /\ disp = m)
  <2> SUFFICES ASSUME PublishClaim, disp = m PROVE FALSE
    OBVIOUS
  <2>1. m.attempt < m.attempt
    BY <1>a DEF FreshInv, PublishClaim
  <2>2. m.attempt \in Nat
    BY <1>a, DispatchAssumption, NoMsgFacts
  <2> QED BY <2>1, <2>2
<1>2. ~AckWaitReady(m)
  BY <1>a DEF AckWaitReady, Holds, Steady
<1>3. \A w \in Workers : Finalize(w) => worker[w].msg # m
  <2> SUFFICES ASSUME NEW w \in Workers, Finalize(w), worker[w].msg = m PROVE FALSE
    OBVIOUS
  <2>1. worker[w] # Idle
    BY <1>b DEF Finalize
  <2>2. w = v
    BY <2>1 DEF HeldInv
  <2> QED BY <1>b, <2>2 DEF Finalize
<1> QED BY <1>a, <1>1, <1>2, <1>3, ReadyStep DEF ReadySteps

\* Every step keeps deliveries with their holders.
LEMMA HeldNext ==
  ASSUME DispatchInv, FreshInv, Steady, HeldInv, [Next]_vars
  PROVE  HeldInv'
<1>a. /\ worker \in [Workers -> WorkerRecord] /\ Idle.pc = "idle"
      /\ \A w \in Workers : worker[w] # Idle => worker[w].msg \in Msgs
  BY NoMsgFacts DEF DispatchInv, WorkersOK, Knows
<1>b. ASSUME NEW v \in Workers, worker'[v] # Idle
      PROVE  \/ worker[v] # Idle /\ worker'[v].msg = worker[v].msg /\ worker'[v].n = worker[v].n
             \/ \E m \in Msgs : NextClaim(v, m) /\ worker'[v].msg = m
                                /\ worker'[v].n = ready[m].n + 1
  BY <1>a, <1>b, WorkersStep DEF Steps, MovesOn
<1>1. ASSUME NEW v \in Workers, worker'[v] # Idle, NEW m, m = worker'[v].msg
      PROVE  ready'[m].at = "out" /\ ready'[m].n = worker'[v].n
  <2>1. CASE worker[v] # Idle /\ worker'[v].msg = worker[v].msg /\ worker'[v].n = worker[v].n
    BY <1>1, <2>1, HolderKeeps DEF HeldInv
  <2>2. CASE NextClaim(v, m) /\ m \in Msgs /\ worker'[v].n = ready[m].n + 1
    <3>1. ready' = Delivered(ready, m)
      BY <2>2 DEF NextClaim
    <3> QED BY <2>2, <3>1, SubjectFacts DEF DispatchInv, ReadyOK
  <2> QED BY <1>1, <1>b, <2>1, <2>2
<1>2. ASSUME NEW v \in Workers, NEW w \in Workers, worker'[v] # Idle, worker'[w] # Idle,
             worker'[v].msg = worker'[w].msg, NEW m \in Msgs, NextClaim(v, m), v # w
      PROVE  FALSE
  <2>1. worker'[v].msg = m /\ worker'[w] = worker[w] /\ ready[m].at = "queued"
    BY <1>a, <1>2 DEF NextClaim
  <2>2. ready[worker[w].msg].at = "out"
    BY <1>2, <2>1 DEF HeldInv
  <2> QED BY <1>2, <2>1, <2>2
<1>3. ASSUME NEW v \in Workers, NEW w \in Workers, worker'[v] # Idle, worker'[w] # Idle,
             worker'[v].msg = worker'[w].msg, v # w
      PROVE  FALSE
  <2>1. worker[v] # Idle /\ worker'[v].msg = worker[v].msg
    BY <1>2, <1>3, <1>b
  <2>2. worker[w] # Idle /\ worker'[w].msg = worker[w].msg
    BY <1>2, <1>3, <1>b
  <2> QED BY <1>3, <2>1, <2>2 DEF HeldInv
<1>4. ASSUME NEW v \in Workers, worker'[v].pc = "nack"
      PROVE  worker'[v].n < MaxDeliver
  <2>1. CASE worker'[v] = worker[v]
    BY <1>4, <2>1 DEF HeldInv
  <2>2. CASE MovesOn(v)
    <3>1. worker'[v].n = worker[v].n /\ \E outcome : AfterRun(outcome, worker[v].n) = "nack"
      BY <1>4, <2>2 DEF MovesOn
    <3>2. ~(worker[v].n >= MaxDeliver)
      BY <3>1 DEF AfterRun, is_final_delivery
    <3>3. worker[v].n \in Nat /\ MaxDeliver \in Nat
      BY <1>a, DispatchAssumption DEF WorkerRecord
    <3> QED BY <3>1, <3>2, <3>3
  <2> QED BY <1>4, <1>a, <2>1, <2>2, WorkersStep DEF Steps
<1> QED BY <1>1, <1>3, <1>4 DEF HeldInv

\* Every step keeps the account of messages that are out or dropped.
LEMMA LostNext ==
  ASSUME DispatchInv, FreshInv, Steady, HeldInv, LostInv, [Next]_vars
  PROVE  LostInv'
<1>a. /\ worker \in [Workers -> WorkerRecord] /\ Idle.pc = "idle"
      /\ ready \in [Msgs -> Message] /\ dead \in [Msgs -> Message]
      /\ \A w \in Workers : worker[w] # Idle => worker[w].msg \in Msgs
  BY NoMsgFacts DEF DispatchInv, WorkersOK, Knows, ReadyOK, DeadOK
<1>1. ASSUME NEW m \in Msgs, ready'[m].at = "out" PROVE dead'[m].at # "none" \/ Held(m)'
  <2>1. ASSUME NEW w \in Workers, NextClaim(w, m) PROVE Held(m)'
    <3>1. worker'[w].msg = m /\ worker'[w].pc = "check"
      BY <1>a, <2>1 DEF NextClaim
    <3> QED BY <1>a, <3>1 DEF Held
  <2>2. CASE ready'[m] = ready[m]
    <3>1. CASE dead[m].at # "none"
      BY <3>1, AccountsStay
    <3>2. ASSUME NEW w \in Workers, worker[w] # Idle, worker[w].msg = m, worker'[w] = Idle
          PROVE  dead'[m].at # "none"
      <4>1. ~Finalize(w)
        <5> SUFFICES ASSUME Finalize(w) PROVE FALSE
          OBVIOUS
        <5>1. ready' = Acked(ready, m) \/ ready' = Returned(ready, m)
          BY <3>2 DEF Finalize
        <5>2. Live(ready, m)
          BY <1>1, <2>2 DEF Live
        <5>3. CASE ready' = Acked(ready, m)
          BY <1>1, <1>a, <5>2, <5>3, SubjectFacts
        <5>4. CASE ready' = Returned(ready, m)
          BY <1>1, <1>a, <5>2, <5>4, SubjectFacts
        <5> QED BY <5>1, <5>3, <5>4
      <4>2. ~WorkerCrash(w)
        BY DEF WorkerCrash, Steady
      <4>3. DeadLetter(w)
        BY <1>a, <3>2, <4>1, <4>2, WorkersStep DEF Steps, MovesOn, NextClaim, AfterRun
      <4>4. dead' = Stored(dead, m)
        BY <3>2, <4>3 DEF DeadLetter, Steady
      <4> QED BY <1>a, <4>4, SubjectFacts
    <3>3. ASSUME NEW w \in Workers, worker[w] # Idle, worker[w].msg = m, worker'[w] # Idle
          PROVE  Held(m)'
      <4>1. worker'[w].msg = m
        BY <3>3, WorkersStep DEF Steps, MovesOn, NextClaim
      <4> QED BY <3>3, <4>1 DEF Held
    <3> QED BY <1>1, <2>2, <3>1, <3>2, <3>3 DEF LostInv, Held
  <2> QED BY <1>1, <2>1, <2>2, ReadyStep DEF ReadySteps, Back
<1>2. ASSUME NEW m \in Msgs, ready'[m].at = "dropped" PROVE Accounted(m)'
  <2>1. CASE ready'[m] = ready[m]
    BY <1>2, <2>1, AccountsStay DEF LostInv
  <2>2. CASE AckWaitReady(m)
    <3>1. ready[m].at = "out" /\ \A w \in Workers : ~Holds(worker[w], ready, m)
      BY <2>2 DEF AckWaitReady, Steady
    <3>2. ~Held(m)
      BY <3>1 DEF Held, HeldInv, Holds
    <3>3. Accounted(m)
      BY <3>1, <3>2 DEF LostInv, Accounted
    <3> QED BY <3>3, AccountsStay
  <2>3. ASSUME NEW w \in Workers, Finalize(w), worker[w].msg = m, worker[w].pc = "nack",
               ready'[m].at = Back(ready[m].n)
        PROVE  FALSE
    <3>1. worker[w].n < MaxDeliver /\ ready[m].n = worker[w].n
      BY <1>a, <2>3 DEF HeldInv
    <3> QED BY <1>2, <2>3, <3>1 DEF Back
  <2> QED BY <1>2, <2>1, <2>2, <2>3, ReadyStep DEF ReadySteps
<1> QED BY <1>1, <1>2 DEF LostInv

SteadyInv == FreshInv /\ (Steady => HeldInv /\ LostInv)

\* ... hence always, in steady environments.
LEMMA SteadyAlways == Spec => []SteadyInv
<1>1. Init => SteadyInv
  <2> SUFFICES ASSUME Init PROVE SteadyInv
    OBVIOUS
  <2>1. \A m \in Msgs : ready[m].at = "none"
    BY DEF Init, Unsent
  <2>2. \A w \in Workers : worker[w] = Idle
    BY DEF Init
  <2>3. FreshInv /\ HeldInv /\ LostInv
    BY <2>1, <2>2, NoMsgFacts DEF Init, FreshInv, HeldInv, LostInv
  <2> QED BY <2>3 DEF SteadyInv
<1>2. DispatchInv /\ SteadyInv /\ [Next]_vars => SteadyInv'
  <2> SUFFICES ASSUME DispatchInv, SteadyInv, [Next]_vars PROVE SteadyInv'
    OBVIOUS
  <2>1. Steady' => Steady
    BY Frames DEF Steady, env
  <2> QED BY <2>1, FreshNext, HeldNext, LostNext DEF SteadyInv
<1> QED BY <1>1, <1>2, DispatchAlways, PTL DEF Spec

\* A claim that used up its deliveries is marked or dead-lettered, as long as
\* no worker dies or misses its ack deadline and no publish is lost.
THEOREM LossesShow == Spec => []NeverSilentlyLost
<1>1. SteadyInv => NeverSilentlyLost
  BY DEF SteadyInv, LostInv, Accounted, Steady, NeverSilentlyLost
<1> QED BY <1>1, SteadyAlways, PTL
-----------------------------------------------------------------------------
(***************************************************************************)
(* No orphans.  While calls and the dedup store may fail and nothing else, *)
(* a message is stored once, is held while it is out, and has one call at  *)
(* most, that of its holder; once its claim is marked or dead-lettered its *)
(* holder only acks it.  A task that is assigned or in progress is then    *)
(* carried: by an event, by the publish in hand, or by a message that is   *)
(* not accounted for and whose call, if it has read the task, is about to  *)
(* make the move that is next.                                             *)
(***************************************************************************)
Calm == faults \subseteq {"backend_error", "dedup_error"}

OneCall ==
  /\ \A c \in calls : \E w \in Workers :
       worker[w].pc = "execute" /\ worker[w].msg = c.msg /\ worker[w].n = c.n
  /\ \A c, d \in calls : c.msg = d.msg => c = d

FirstAttempt ==
  /\ disp # NoDisp => disp.attempt = 1
  /\ \A m \in Msgs : ready[m].at # "none" => m.attempt = 1
  /\ \A k \in seen : \E m \in Msgs : m.claim = k /\ ready[m].at # "none"

Stages ==
  /\ \A m \in Msgs : ready[m].at = "out" => Held(m)
  /\ dlc # Idle => dead[dlc.msg].at = "out" /\ dead[dlc.msg].n = dlc.n
  /\ \A m \in Msgs : dead[m].at # "none" => ready[m].at # "none"
  /\ \A m \in Msgs : Accounted(m) =>
       /\ ready[m].at \in {"none", "out", "acked"}
       /\ \A w \in Workers : worker[w].msg = m => worker[w].pc = "ack"

CalmInv == OneCall /\ FirstAttempt /\ Stages

Carries(m) ==
  \/ ready[m].at = "queued"
  \/ \E w \in Workers :
       worker[w].msg = m /\ worker[w].pc \in {"check", "execute", "nack", "dead"}
  \/ dead[m].at = "queued"
  \/ dlc.msg = m /\ dlc.pc \in {"check", "fail"}

Carrier(m) ==
  /\ m.claim \notin seen
  /\ \A c \in calls : c.msg = m => c.target \in {"unread", next_status}
  /\ Carries(m)

CarriedInv ==
  status \in {"assigned", "in_progress"} =>
    events > 0 \/ disp # NoDisp \/ \E m \in Msgs : Carrier(m)

\* One message of the dead subject in one step.
DeadSteps(m) ==
  \/ dead'[m] = dead[m]
  \/ \E w \in Workers : DeadLetter(w) /\ worker[w].msg = m /\ dead'[m].at = "queued"
  \/ NextDead(m) /\ dead[m].at = "queued" /\ dead'[m].at = "out" /\ dead'[m].n = dead[m].n + 1
  \/ AckWaitDead(m) /\ dead[m].at = "out"
  \/ FailTaskFails
  \/ AckDead /\ dlc.msg = m

\* Nothing else happens to a dead letter.
LEMMA DeadStep ==
  ASSUME DispatchInv, [Next]_vars, NEW m \in Msgs
  PROVE  DeadSteps(m)
<1>a. dead \in [Msgs -> Message]
  BY DEF DispatchInv, DeadOK
<1>1. ASSUME NEW k \in Msgs, AckWaitDead(k) PROVE DeadSteps(m)
  <2>1. dead' = Returned(dead, k) /\ dead[k].at = "out"
    BY <1>1 DEF AckWaitDead
  <2>2. k # m => dead'[m] = dead[m]
    BY <1>a, <2>1, SubjectFacts
  <2> QED BY <1>1, <2>1, <2>2 DEF DeadSteps
<1>2. ASSUME NEW k \in Msgs, NextDead(k) PROVE DeadSteps(m)
  <2>1. dead[k].at = "queued" /\ dead' = Delivered(dead, k)
    BY <1>2 DEF NextDead
  <2>2. k # m => dead'[m] = dead[m]
    BY <1>a, <2>1, SubjectFacts
  <2>3. k = m => dead'[m].at = "out" /\ dead'[m].n = dead[m].n + 1
    BY <1>a, <2>1, SubjectFacts
  <2> QED BY <1>2, <2>1, <2>2, <2>3 DEF DeadSteps
<1>3. ASSUME NEW w \in Workers, DeadLetter(w) PROVE DeadSteps(m)
  <2>1. PICK k : k = worker[w].msg
    OBVIOUS
  <2>2. k \in Msgs /\ (UNCHANGED dead \/ dead' = Stored(dead, k))
    BY <1>3, <2>1, NoMsgFacts DEF DeadLetter, DispatchInv, WorkersOK, Knows
  <2>3. dead' = Stored(dead, k) => dead'[m] = dead[m] \/ (k = m /\ dead'[m].at = "queued")
    BY <1>a, <2>2, SubjectFacts
  <2> QED BY <1>3, <2>1, <2>2, <2>3 DEF DeadSteps
<1>4. ASSUME AckDead PROVE DeadSteps(m)
  <2>1. PICK k : k = dlc.msg
    OBVIOUS
  <2>2. k \in Msgs /\ dead' = Acked(dead, k)
    BY <1>4, <2>1, NoMsgFacts DEF AckDead, DispatchInv, ConsumerOK, Knows
  <2>3. k # m => dead'[m] = dead[m]
    BY <1>a, <2>2, SubjectFacts
  <2> QED BY <1>4, <2>1, <2>3 DEF DeadSteps
<1>5. UNCHANGED dead \/ FailTaskFails => DeadSteps(m)
  BY DEF DeadSteps
<1> QED BY <1>1, <1>2, <1>3, <1>4, <1>5, Frames

\* What cannot happen in such an environment.
LEMMA CalmFacts ==
  ASSUME DispatchInv, Calm, [Next]_vars
  PROVE  /\ Steady /\ Calm'
         /\ ~BackendCrash /\ ~FailTaskFails
         /\ \A w \in Workers : /\ ~WorkerCrash(w)
                               /\ DeadLetter(w) => /\ dead' = Stored(dead, worker[w].msg)
                                                   /\ worker'[w].pc = "ack"
                               /\ TransportError(w) => ~Waiting(w)
         /\ \A c : ~ExecuteRefused(c)
         /\ PublishClaim => disp' = NoDisp /\ ready' = Stored(ready, disp)
         /\ BuildClaim => disp' = [claim |-> claims + 1, attempt |-> 1]
<1>1. Steady /\ Calm'
  BY Frames DEF Calm, Steady, env
<1>2. ASSUME NEW w \in Workers, DeadLetter(w)
      PROVE  dead' = Stored(dead, worker[w].msg) /\ worker'[w].pc = "ack"
  <2>1. Goes(w, "ack") /\ dead' = Stored(dead, worker[w].msg)
    BY <1>2 DEF DeadLetter, Calm
  <2> QED BY <2>1 DEF Goes, DispatchInv, WorkersOK, WorkerRecord
<1>3. PublishClaim => disp' = NoDisp /\ ready' = Stored(ready, disp)
  BY DEF PublishClaim, Calm
<1>4. BuildClaim => disp' = [claim |-> claims + 1, attempt |-> 1]
  BY DEF BuildClaim, Calm
<1>5. /\ ~BackendCrash /\ ~FailTaskFails
      /\ \A w \in Workers : ~WorkerCrash(w) /\ (TransportError(w) => ~Waiting(w))
      /\ \A c : ~ExecuteRefused(c)
  BY DEF BackendCrash, FailTaskFails, WorkerCrash, TransportError, ExecuteRefused, Calm
<1> QED BY <1>1, <1>2, <1>3, <1>4, <1>5

\* One call in one step: it is new, it is read, or it was there; and an answer
\* takes its call with it.
LEMMA CallsStep ==
  ASSUME DispatchInv, Calm, [Next]_vars
  PROVE  /\ \A c \in calls' :
              \/ c \in calls
              \/ \E w \in Workers :
                   /\ CheckSeen(w) /\ worker[w].pc = "check" /\ worker'[w].pc = "execute"
                   /\ calls' = calls \cup {c}
                   /\ c.msg = worker[w].msg /\ c.n = worker[w].n /\ c.target = "unread"
              \/ \E d \in calls :
                   /\ ExecuteRead(d) /\ UNCHANGED worker /\ calls' = (calls \ {d}) \cup {c}
                   /\ c.msg = d.msg /\ c.n = d.n /\ c.target = next_status
         /\ \A c \in calls : Answers(c) => UNCHANGED worker \/ calls' = calls \ {c}
         /\ \A w \in Workers : CheckSeen(w) => calls \subseteq calls'
<1>a. worker \in [Workers -> WorkerRecord] /\ calls \subseteq Call
  BY DEF DispatchInv, WorkersOK
<1>1. ASSUME NEW w \in Workers, CheckSeen(w), NEW c \in calls' \ calls
      PROVE  /\ worker[w].pc = "check" /\ worker'[w].pc = "execute"
             /\ calls' = calls \cup {c}
             /\ c.msg = worker[w].msg /\ c.n = worker[w].n /\ c.target = "unread"
  <2>1. /\ worker[w].pc = "check" /\ Goes(w, "execute")
        /\ calls' = calls \cup {[msg |-> worker[w].msg, n |-> worker[w].n, target |-> "unread"]}
    BY <1>1 DEF CheckSeen
  <2>2. worker'[w].pc = "execute"
    BY <1>a, <2>1 DEF Goes, WorkerRecord
  <2> QED BY <1>1, <2>1, <2>2
<1>2. ASSUME NEW d \in calls, ExecuteRead(d), NEW c \in calls' \ calls
      PROVE  /\ UNCHANGED worker /\ calls' = (calls \ {d}) \cup {c}
             /\ c.msg = d.msg /\ c.n = d.n /\ c.target = next_status
  <2>1. UNCHANGED worker /\ calls' = (calls \ {d}) \cup {[d EXCEPT !.target = next_status]}
    BY <1>2 DEF ExecuteRead
  <2>2. c = [d EXCEPT !.target = next_status]
    BY <1>2, <2>1
  <2> QED BY <1>a, <2>1, <2>2 DEF Call
<1>3. ASSUME NEW d \in calls, ExecuteTransition(d) \/ ExecuteFails(d)
      PROVE  calls' = calls \ {d}
  BY <1>3 DEF ExecuteTransition, ExecuteFails
<1>4. \A c \in calls : Answers(c) => UNCHANGED worker \/ calls' = calls \ {c}
  <2> SUFFICES ASSUME NEW c \in calls, Answers(c) PROVE UNCHANGED worker \/ calls' = calls \ {c}
    OBVIOUS
  <2>1. ExecuteRead(c) => UNCHANGED worker \/ calls' = calls \ {c}
    BY DEF ExecuteRead
  <2> QED BY <1>3, <2>1, CalmFacts DEF Answers
<1>5. \A w \in Workers : CheckSeen(w) => calls \subseteq calls'
  BY DEF CheckSeen
<1>6. ASSUME NEW c \in calls' \ calls
      PROVE  (\E w \in Workers : CheckSeen(w)) \/ (\E d \in calls : ExecuteRead(d))
  BY <1>3, <1>6, MoreFrames, CalmFacts
<1> QED BY <1>1, <1>2, <1>4, <1>5, <1>6

\* Every step keeps one call per message, that of its holder.
LEMMA OneCallNext ==
  ASSUME DispatchInv, Calm, HeldInv, OneCall, [Next]_vars
  PROVE  OneCall'
<1>a. /\ worker \in [Workers -> WorkerRecord] /\ Idle.pc = "idle" /\ calls \subseteq Call
      /\ Steady
  BY NoMsgFacts, CalmFacts DEF DispatchInv, WorkersOK
<1>b. \A c, d \in calls : c.msg = d.msg => c = d
  BY DEF OneCall
<1>1. ASSUME NEW c \in calls, c \in calls', NEW w \in Workers,
             worker[w].pc = "execute", worker[w].msg = c.msg, worker[w].n = c.n
      PROVE  worker'[w] = worker[w]
  <2>1. ~TransportError(w)
    BY <1>1, CalmFacts DEF Waiting
  <2>2. ASSUME NEW d \in calls, Answers(d), worker[w].msg = d.msg PROVE UNCHANGED worker
    <3>1. d = c
      BY <1>1, <1>b, <2>2
    <3> QED BY <1>1, <2>2, <3>1, CallsStep
  <2>3. ~CheckSeen(w) /\ ~MarkCompleted(w) /\ ~DeadLetter(w) /\ ~Finalize(w) /\ ~WorkerCrash(w)
        /\ \A m : ~NextClaim(w, m)
    BY <1>1, <1>a, CalmFacts DEF CheckSeen, MarkCompleted, DeadLetter, Finalize, NextClaim
  <2> QED BY <2>1, <2>2, <2>3, WorkersStep DEF Steps, MovesOn
<1>2. ASSUME NEW c \in calls'
      PROVE  \E w \in Workers : /\ worker'[w].pc = "execute" /\ worker'[w].msg = c.msg
                                /\ worker'[w].n = c.n
  <2>1. CASE c \in calls
    <3>1. PICK w \in Workers :
            worker[w].pc = "execute" /\ worker[w].msg = c.msg /\ worker[w].n = c.n
      BY <2>1 DEF OneCall
    <3> QED BY <1>1, <1>2, <2>1, <3>1
  <2>2. ASSUME NEW w \in Workers, CheckSeen(w), worker'[w].pc = "execute",
               c.msg = worker[w].msg, c.n = worker[w].n
        PROVE  worker'[w].msg = c.msg /\ worker'[w].n = c.n
    BY <1>a, <2>2 DEF CheckSeen, Goes, WorkerRecord
  <2>3. ASSUME NEW d \in calls, UNCHANGED worker, c.msg = d.msg, c.n = d.n
        PROVE  \E w \in Workers : /\ worker'[w].pc = "execute" /\ worker'[w].msg = c.msg
                                  /\ worker'[w].n = c.n
    BY <2>3 DEF OneCall
  <2> QED BY <2>1, <2>2, <2>3, CallsStep
<1>3. ASSUME NEW c \in calls', NEW d \in calls', c.msg = d.msg, c \notin calls PROVE c = d
  <2>1. ASSUME NEW w \in Workers, CheckSeen(w), worker[w].pc = "check",
               calls' = calls \cup {c}, c.msg = worker[w].msg
        PROVE  c = d
    <3>1. ASSUME d \in calls PROVE FALSE
      <4>1. PICK v \in Workers : worker[v].pc = "execute" /\ worker[v].msg = d.msg
        BY <3>1 DEF OneCall
      <4>2. v = w
        BY <1>3, <1>a, <2>1, <4>1 DEF HeldInv
      <4> QED BY <2>1, <4>1, <4>2
    <3> QED BY <2>1, <3>1
  <2>2. ASSUME NEW e \in calls, calls' = (calls \ {e}) \cup {c}, c.msg = e.msg
        PROVE  c = d
    BY <1>3, <2>2 DEF OneCall
  <2> QED BY <1>3, <2>1, <2>2, CallsStep
<1>4. ASSUME NEW c \in calls', NEW d \in calls', c.msg = d.msg PROVE c = d
  <2>1. CASE c \in calls /\ d \in calls
    BY <1>4, <2>1 DEF OneCall
  <2>2. CASE c \notin calls
    BY <1>3, <1>4, <2>2
  <2>3. CASE d \notin calls
    BY <1>3, <1>4, <2>3
  <2> QED BY <2>1, <2>2, <2>3
<1> QED BY <1>2, <1>4 DEF OneCall

\* A stored message stays known.
LEMMA ReadyLasts ==
  ASSUME DispatchInv, [Next]_vars, NEW m \in Msgs, ready[m].at # "none"
  PROVE  ready'[m].at # "none"
  BY ReadyStep DEF ReadySteps, Back

\* Who is behind a new mark.
LEMMA MarkedBy ==
  ASSUME DispatchInv, Calm, HeldInv, Stages, [Next]_vars, NEW k \in seen' \ seen
  PROVE  \/ \E w \in Workers :
              /\ MarkCompleted(w) /\ worker[w].pc = "mark" /\ worker[w] # Idle
              /\ worker[w].msg \in Msgs /\ worker[w].msg.claim = k
              /\ ready[worker[w].msg].at = "out"
         \/ /\ MarkHandled /\ dlc.pc = "mark" /\ dlc # Idle
            /\ dlc.msg \in Msgs /\ dlc.msg.claim = k
            /\ dead[dlc.msg].at = "out" /\ ready[dlc.msg].at # "none"
<1>1. ASSUME NEW w \in Workers, MarkCompleted(w)
      PROVE  /\ worker[w].pc = "mark" /\ worker[w] # Idle
             /\ worker[w].msg \in Msgs /\ worker[w].msg.claim = k
             /\ ready[worker[w].msg].at = "out"
  <2>1. worker[w].pc = "mark" /\ worker[w].msg.claim = k /\ worker[w] # Idle
    BY <1>1, NoMsgFacts DEF MarkCompleted
  <2> QED BY <2>1 DEF DispatchInv, WorkersOK, Knows, HeldInv
<1>2. ASSUME MarkHandled
      PROVE  /\ dlc.pc = "mark" /\ dlc # Idle
             /\ dlc.msg \in Msgs /\ dlc.msg.claim = k
             /\ dead[dlc.msg].at = "out" /\ ready[dlc.msg].at # "none"
  <2>1. dlc.pc = "mark" /\ dlc.msg.claim = k /\ dlc # Idle
    BY <1>2, NoMsgFacts DEF MarkHandled
  <2>2. dlc.msg \in Msgs
    BY <2>1 DEF DispatchInv, ConsumerOK, Knows
  <2> QED BY <2>1, <2>2 DEF Stages
<1> QED BY <1>1, <1>2, Frames

\* Every step keeps publishes to their first attempt.
LEMMA FirstNext ==
  ASSUME DispatchInv, Calm, FreshInv, HeldInv, Stages, FirstAttempt, [Next]_vars
  PROVE  FirstAttempt'
<1>1. disp' # NoDisp => disp'.attempt = 1
  <2>1. [claim |-> claims + 1, attempt |-> 1].attempt = 1
    OBVIOUS
  <2> QED BY <2>1, MoreFrames, CalmFacts DEF FirstAttempt
<1>2. ASSUME NEW m \in Msgs, ready'[m].at # "none" PROVE m.attempt = 1
  <2>1. CASE ready[m].at # "none"
    BY <2>1 DEF FirstAttempt
  <2>2. CASE PublishClaim /\ disp = m
    BY <2>2 DEF PublishClaim, FirstAttempt
  <2>3. ASSUME NEW w \in Workers, Finalize(w), worker[w].msg = m PROVE ready[m].at # "none"
    <3>1. worker[w] # Idle
      BY <2>3, NoMsgFacts DEF Finalize
    <3> QED BY <2>3, <3>1 DEF HeldInv
  <2> QED BY <1>2, <2>1, <2>2, <2>3, ReadyStep DEF ReadySteps
<1>3. ASSUME NEW k \in seen' PROVE \E m \in Msgs : m.claim = k /\ ready'[m].at # "none"
  <2>1. \E m \in Msgs : m.claim = k /\ ready[m].at # "none"
    BY MarkedBy DEF FirstAttempt
  <2> QED BY <2>1, ReadyLasts
<1> QED BY <1>1, <1>2, <1>3 DEF FirstAttempt

\* A message that is out is held: who gives it up acks it or gives it back.
LEMMA OutIsHeld ==
  ASSUME DispatchInv, Calm, Stages, [Next]_vars, NEW m \in Msgs, ready'[m].at = "out"
  PROVE  Held(m)'
<1>a. /\ worker \in [Workers -> WorkerRecord] /\ Idle.pc = "idle"
      /\ ready \in [Msgs -> Message]
  BY NoMsgFacts DEF DispatchInv, WorkersOK, ReadyOK
<1>1. ASSUME NEW w \in Workers, NextClaim(w, m) PROVE Held(m)'
  <2>1. worker'[w].msg = m /\ worker'[w].pc = "check"
    BY <1>a, <1>1 DEF NextClaim
  <2> QED BY <1>a, <2>1 DEF Held
<1>2. CASE ready'[m] = ready[m]
  <2>1. PICK w \in Workers : worker[w] # Idle /\ worker[w].msg = m
    BY <1>2 DEF Stages, Held
  <2>2. ~Finalize(w)
    <3> SUFFICES ASSUME Finalize(w) PROVE FALSE
      OBVIOUS
    <3>1. ready' = Acked(ready, m) \/ ready' = Returned(ready, m)
      BY <2>1 DEF Finalize
    <3>2. Live(ready, m)
      BY <1>2 DEF Live
    <3>3. CASE ready' = Acked(ready, m)
      BY <1>a, <3>2, <3>3, SubjectFacts
    <3>4. CASE ready' = Returned(ready, m)
      BY <1>a, <3>2, <3>4, SubjectFacts
    <3> QED BY <3>1, <3>3, <3>4
  <2>3. worker'[w] # Idle
    BY <1>a, <2>1, <2>2, CalmFacts, WorkersStep DEF Steps, MovesOn, AfterRun
  <2>4. worker'[w].msg = m
    BY <2>1, <2>3, WorkersStep DEF Steps, MovesOn, NextClaim
  <2> QED BY <2>3, <2>4 DEF Held
<1> QED BY <1>1, <1>2, ReadyStep DEF ReadySteps, Back

\* The consumer holds its message as JetStream counts it.
LEMMA ConsumerHolds ==
  ASSUME DispatchInv, Calm, Stages, [Next]_vars, dlc' # Idle, NEW m, m = dlc'.msg
  PROVE  dead'[m].at = "out" /\ dead'[m].n = dlc'.n
<1>a. dlc \in ConsumerRecord /\ dead \in [Msgs -> Message] /\ Idle.pc = "idle"
  BY NoMsgFacts DEF DispatchInv, ConsumerOK, DeadOK
<1>1. CASE UNCHANGED dlc
  <2>1. m \in Msgs /\ dead[m].at = "out" /\ dead[m].n = dlc.n
    BY <1>1 DEF DispatchInv, ConsumerOK, Knows, Stages
  <2>2. \A w \in Workers : ~(DeadLetter(w) /\ worker[w].msg = m)
    BY <2>1 DEF Stages, Accounted, DeadLetter
  <2>3. ~NextDead(m) /\ ~AckDead /\ ~FailTaskFails
    BY <1>1, CalmFacts DEF NextDead, AckDead
  <2>4. ~AckWaitDead(m)
    BY <1>1, <2>1 DEF AckWaitDead, Holds, Calm
  <2> QED BY <1>1, <2>1, <2>2, <2>3, <2>4, DeadStep DEF DeadSteps
<1>2. ASSUME NEW k \in Msgs, NextDead(k) PROVE dead'[m].at = "out" /\ dead'[m].n = dlc'.n
  <2>1. dead' = Delivered(dead, k) /\ dlc'.msg = k /\ dlc'.n = dead[k].n + 1
    BY <1>2 DEF NextDead
  <2> QED BY <1>a, <2>1, SubjectFacts
<1>3. CASE AlreadyHandled \/ FailTask \/ MarkHandled
  <2>1. UNCHANGED dead /\ dlc.pc # "idle"
    BY <1>3 DEF AlreadyHandled, FailTask, MarkHandled
  <2>2. dlc'.msg = dlc.msg /\ dlc'.n = dlc.n
    BY <1>3, <1>a DEF AlreadyHandled, FailTask, MarkHandled, ConsumerRecord
  <2> QED BY <1>a, <2>1, <2>2 DEF Stages
<1>4. ~AckDead
  BY DEF AckDead
<1> QED BY <1>1, <1>2, <1>3, <1>4, CalmFacts, Frames

\* A worker whose message becomes accounted for goes on to ack it.
LEMMA AccountedActs ==
  ASSUME DispatchInv, Calm, FreshInv, HeldInv, FirstAttempt, Stages, [Next]_vars,
         NEW m \in Msgs, Accounted(m)'
  PROVE  \A w \in Workers : worker'[w].msg = m => worker'[w].pc = "ack"
<1>a. /\ worker \in [Workers -> WorkerRecord] /\ Idle.pc = "idle" /\ Idle.msg = NoMsg
      /\ NoMsg \notin Msgs
  BY NoMsgFacts DEF DispatchInv, WorkersOK
<1>1. CASE Accounted(m)
  <2> SUFFICES ASSUME NEW w \in Workers, worker'[w].msg = m PROVE worker'[w].pc = "ack"
    OBVIOUS
  <2>1. ready[m].at # "queued" /\ (worker[w].msg = m => worker[w].pc = "ack")
    BY <1>1 DEF Stages
  <2>2. ~NextClaim(w, m)
    BY <2>1 DEF NextClaim
  <2>3. CASE MovesOn(w)
    BY <2>1, <2>3 DEF MovesOn, CheckSeen, TransportError, MarkCompleted, DeadLetter
  <2> QED BY <1>a, <2>1, <2>2, <2>3, WorkersStep DEF Steps
<1>2. CASE ~Accounted(m) /\ dead'[m].at # "none"
  <2>1. PICK v \in Workers : DeadLetter(v) /\ worker[v].msg = m
    <3>1. AckDead => dlc.msg # m
      BY <1>2, <1>a DEF AckDead, Stages, Accounted
    <3> QED BY <1>2, <3>1, CalmFacts, DeadStep DEF DeadSteps, Accounted
  <2> SUFFICES ASSUME NEW w \in Workers, worker'[w].msg = m PROVE worker'[w].pc = "ack"
    OBVIOUS
  <2>2. worker'[v].pc = "ack" /\ worker[v] # Idle
    BY <1>a, <2>1, CalmFacts DEF DeadLetter
  <2>3. w # v => worker'[w] = worker[w]
    BY <1>a, <2>1 DEF DeadLetter, Goes
  <2> QED BY <1>a, <2>1, <2>2, <2>3 DEF HeldInv
<1>3. CASE ~Accounted(m) /\ m.claim \in seen'
  <2>1. m.claim \in seen' \ seen
    BY <1>3 DEF Accounted
  <2> SUFFICES ASSUME NEW w \in Workers, worker'[w].msg = m PROVE worker'[w].pc = "ack"
    OBVIOUS
  <2>2. ASSUME NEW v \in Workers, MarkCompleted(v), worker[v] # Idle, worker[v].msg \in Msgs,
               worker[v].msg.claim = m.claim, ready[worker[v].msg].at = "out"
        PROVE  worker'[w].pc = "ack"
    <3>1. w # v => worker'[w] = worker[w]
      BY <1>a, <2>2 DEF MarkCompleted, Goes
    <3>2. worker'[v].pc = "ack"
      BY <1>a, <2>2 DEF MarkCompleted, Goes, WorkerRecord
    <3>3. ASSUME w # v PROVE FALSE
      <4>1. worker[w] # Idle /\ ready[m].at = "out" /\ worker[w].msg = m
        BY <1>a, <3>1, <3>3 DEF HeldInv
      <4>2. m.attempt = 1 /\ worker[v].msg.attempt = 1
        BY <2>2, <4>1 DEF FirstAttempt
      <4>3. m = worker[v].msg
        BY <2>2, <4>2 DEF Msgs
      <4> QED BY <2>2, <3>3, <4>1, <4>3 DEF HeldInv
    <3> QED BY <3>2, <3>3
  <2>3. ASSUME MarkHandled, dlc.msg \in Msgs, dlc.msg.claim = m.claim,
               dead[dlc.msg].at = "out", ready[dlc.msg].at # "none"
        PROVE  worker'[w].pc = "ack"
    <3>1. worker'[w] = worker[w]
      BY <2>3 DEF MarkHandled
    <3>2. ready[m].at = "out"
      BY <1>a, <3>1 DEF HeldInv
    <3>3. m.attempt = 1 /\ dlc.msg.attempt = 1
      BY <2>3, <3>2 DEF FirstAttempt
    <3>4. m = dlc.msg
      BY <2>3, <3>3 DEF Msgs
    <3> QED BY <1>3, <2>3, <3>4 DEF Accounted
  <2> QED BY <2>1, <2>2, <2>3, MarkedBy
<1> QED BY <1>1, <1>2, <1>3 DEF Accounted

\* ... and JetStream does not deliver it again.
LEMMA AccountedStays ==
  ASSUME DispatchInv, Calm, FreshInv, HeldInv, FirstAttempt, Stages, [Next]_vars,
         NEW m \in Msgs, Accounted(m)'
  PROVE  ready'[m].at \in {"none", "out", "acked"}
<1>a. /\ worker \in [Workers -> WorkerRecord] /\ Idle.pc = "idle" /\ Idle.msg = NoMsg
      /\ NoMsg \notin Msgs
      /\ \A k \in Msgs : k.attempt \in Nat /\ k.claim \in Nat
  BY DispatchAssumption, NoMsgFacts DEF DispatchInv, WorkersOK, Claims
<1>1. CASE Accounted(m)
  <2>1. ready[m].at \in {"none", "out", "acked"}
    BY <1>1 DEF Stages
  <2>2. ~(PublishClaim /\ disp = m)
    <3> SUFFICES ASSUME PublishClaim, disp = m PROVE FALSE
      OBVIOUS
    <3>1. ready[m].at = "none"
      BY <1>a DEF FreshInv, PublishClaim
    <3>2. m.claim \in seen
      BY <1>1, <3>1 DEF Accounted, Stages
    <3>3. PICK k \in Msgs : k.claim = m.claim /\ ready[k].at # "none"
      BY <3>2 DEF FirstAttempt
    <3>4. k.attempt = 1 /\ m.attempt = 1
      BY <3>3 DEF FirstAttempt, PublishClaim
    <3>5. k = m
      BY <3>3, <3>4 DEF Msgs
    <3> QED BY <3>1, <3>3, <3>5
  <2>3. ~AckWaitReady(m)
    <3> SUFFICES ASSUME AckWaitReady(m) PROVE FALSE
      OBVIOUS
    <3>1. ready[m].at = "out" /\ \A w \in Workers : ~Holds(worker[w], ready, m)
      BY DEF AckWaitReady, Calm
    <3> QED BY <3>1 DEF Stages, Held, HeldInv, Holds
  <2>4. ASSUME NEW w \in Workers, Finalize(w), worker[w].msg = m PROVE worker[w].pc # "nack"
    BY <1>1, <2>4 DEF Stages
  <2> QED BY <2>1, <2>2, <2>3, <2>4, ReadyStep DEF ReadySteps
<1>2. CASE ~Accounted(m) /\ dead'[m].at # "none"
  <2>1. PICK v \in Workers : DeadLetter(v) /\ worker[v].msg = m
    <3>1. AckDead => dlc.msg # m
      BY <1>2, <1>a DEF AckDead, Stages, Accounted
    <3> QED BY <1>2, <3>1, CalmFacts, DeadStep DEF DeadSteps, Accounted
  <2> QED BY <1>a, <2>1 DEF DeadLetter, HeldInv
<1>3. CASE ~Accounted(m) /\ m.claim \in seen'
  <2>1. m.claim \in seen' \ seen
    BY <1>3 DEF Accounted
  <2>2. UNCHANGED ready
    BY <2>1, MarkedBy DEF MarkCompleted, MarkHandled
  <2>3. ASSUME NEW k \in Msgs, k.claim = m.claim, ready[k].at # "none", ready[m].at # "none"
        PROVE  k = m
    <3>1. k.attempt = 1 /\ m.attempt = 1
      BY <2>3 DEF FirstAttempt
    <3> QED BY <2>3, <3>1 DEF Msgs
  <2>4. ASSUME NEW v \in Workers, worker[v] # Idle, worker[v].msg \in Msgs,
               worker[v].msg.claim = m.claim, ready[worker[v].msg].at = "out"
        PROVE  ready[m].at \in {"none", "out"}
    BY <2>3, <2>4
  <2>5. ASSUME dlc.msg \in Msgs, dlc.msg.claim = m.claim,
               dead[dlc.msg].at = "out", ready[dlc.msg].at # "none"
        PROVE  ready[m].at = "none"
    BY <1>3, <2>3, <2>5 DEF Accounted
  <2> QED BY <2>1, <2>2, <2>4, <2>5, MarkedBy
<1> QED BY <1>1, <1>2, <1>3 DEF Accounted

\* The stages of a message follow each other.
LEMMA StagesNext ==
  ASSUME DispatchInv, Calm, FreshInv, HeldInv, FirstAttempt, Stages, [Next]_vars
  PROVE  Stages'
<1>1. ASSUME NEW m \in Msgs, dead'[m].at # "none" PROVE ready'[m].at # "none"
  <2>1. CASE dead[m].at # "none"
    BY <2>1, ReadyLasts DEF Stages
  <2>2. ASSUME NEW w \in Workers, DeadLetter(w), worker[w].msg = m PROVE ready[m].at # "none"
    BY <2>2, NoMsgFacts DEF DeadLetter, HeldInv
  <2>3. AckDead => dlc.msg # m \/ dead[m].at # "none"
    BY NoMsgFacts DEF AckDead, Stages
  <2> QED BY <1>1, <2>1, <2>2, <2>3, CalmFacts, DeadStep, ReadyLasts DEF DeadSteps
<1> QED BY <1>1, OutIsHeld, ConsumerHolds, AccountedActs, AccountedStays DEF Stages

\* A task that is assigned or in progress has a next hop, which the table
\* allows, and may fail.
LEMMA HopFacts ==
  ASSUME status \in {"assigned", "in_progress"}
  PROVE  /\ next_status \in {"in_progress", "in_review"} /\ next_status # status
         /\ validate_transition(status, next_status)
         /\ validate_transition(status, "failed")
  BY DEF next_status, validate_transition, VALID_TRANSITIONS

\* A carrier has been stored, and is held by no worker that marks it.
LEMMA CarrierFacts ==
  ASSUME DispatchInv, HeldInv, Stages, NEW m \in Msgs, Carrier(m)
  PROVE  /\ ready[m].at # "none"
         /\ \A w \in Workers : worker[w].msg = m => worker[w].pc # "mark"
         /\ dlc.msg = m => dlc.pc # "mark"
<1>a. Idle.pc = "idle" /\ Idle.msg = NoMsg /\ NoMsg \notin Msgs
  BY NoMsgFacts
<1>1. \A w \in Workers : worker[w].msg = m => worker[w] # Idle /\ ready[m].at = "out"
  BY <1>a DEF HeldInv
<1>2. dlc.msg = m => dead[m].at = "out"
  BY <1>a DEF Stages
<1>3. ready[m].at # "none"
  BY <1>1, <1>2 DEF Carrier, Carries, Stages
<1>4. ASSUME NEW v \in Workers, worker[v].msg = m, worker[v].pc = "mark" PROVE FALSE
  <2>1. dead[m].at = "none"
    BY <1>4 DEF Stages, Accounted
  <2>2. \A w \in Workers : worker[w].msg = m => w = v
    BY <1>1, <1>4 DEF HeldInv
  <2> QED BY <1>1, <1>2, <1>4, <2>1, <2>2 DEF Carrier, Carries
<1>5. ASSUME dlc.msg = m, dlc.pc = "mark" PROVE FALSE
  <2>1. dead[m].at = "out" /\ Accounted(m)
    BY <1>2, <1>5 DEF Accounted
  <2>2. /\ ready[m].at # "queued"
        /\ \A w \in Workers : worker[w].msg = m => worker[w].pc = "ack"
    BY <2>1 DEF Stages
  <2> QED BY <1>5, <2>1, <2>2 DEF Carrier, Carries
<1> QED BY <1>3, <1>4, <1>5

\* Nobody marks the claim of a carrier: the mark would be the carrier's own.
LEMMA CarrierUnmarked ==
  ASSUME DispatchInv, Calm, HeldInv, FirstAttempt, Stages, [Next]_vars, NEW m \in Msgs, Carrier(m)
  PROVE  m.claim \notin seen'
<1> SUFFICES ASSUME m.claim \in seen' PROVE FALSE
  OBVIOUS
<1>1. m.claim \in seen' \ seen
  BY DEF Carrier
<1>2. ASSUME NEW k \in Msgs, k.claim = m.claim, ready[k].at # "none" PROVE k = m
  <2>1. k.attempt = 1 /\ m.attempt = 1
    BY <1>2, CarrierFacts DEF FirstAttempt
  <2> QED BY <1>2, <2>1 DEF Msgs
<1>3. ASSUME NEW v \in Workers, worker[v].pc = "mark", worker[v].msg \in Msgs,
             worker[v].msg.claim = m.claim, ready[worker[v].msg].at = "out"
      PROVE  FALSE
  BY <1>2, <1>3, CarrierFacts
<1>4. ASSUME dlc.pc = "mark", dlc.msg \in Msgs, dlc.msg.claim = m.claim,
             ready[dlc.msg].at # "none"
      PROVE  FALSE
  BY <1>2, <1>4, CarrierFacts
<1> QED BY <1>1, <1>3, <1>4, MarkedBy

\* A worker with the carrier tries it, gives it back or dead-letters it.
LEMMA WorkerCarries ==
  ASSUME DispatchInv, Calm, HeldInv, Stages, [Next]_vars, NEW m \in Msgs, Carrier(m),
         status \in {"assigned", "in_progress"}, UNCHANGED status,
         NEW w \in Workers, worker[w].msg = m, worker[w].pc \in {"check", "execute", "nack", "dead"}
  PROVE  Carries(m)'
<1>a. /\ worker[w] # Idle /\ ready[m].at = "out" /\ ready[m].n = worker[w].n
      /\ ready \in [Msgs -> Message] /\ dead \in [Msgs -> Message]
  BY NoMsgFacts DEF DispatchInv, ReadyOK, DeadOK, HeldInv
<1>1. ASSUME Finalize(w) PROVE ready'[m].at = "queued"
  <2>1. worker[w].pc = "nack" /\ ready' = Returned(ready, m)
    BY <1>1 DEF Finalize
  <2>2. ready[m].n < MaxDeliver /\ Live(ready, m)
    BY <1>a, <2>1 DEF HeldInv, Live
  <2> QED BY <1>a, <2>1, <2>2, SubjectFacts
<1>2. ASSUME DeadLetter(w) PROVE dead'[m].at = "queued"
  <2>1. dead' = Stored(dead, m)
    BY <1>2, CalmFacts
  <2> QED BY <1>a, <2>1, SubjectFacts
<1>3. AfterRun("RETRY", worker[w].n) \in {"nack", "dead"}
  BY DEF AfterRun
<1>4. ASSUME NEW c \in calls, Answers(c), c.msg = m, worker'[w] # worker[w],
             worker[w].pc = "execute", worker[w].n = c.n
      PROVE  worker'[w].pc \in {"nack", "dead"}
  <2>1. ~ExecuteRead(c)
    BY <1>4, HopFacts DEF ExecuteRead
  <2>2. ~ExecuteTransition(c)
    <3> SUFFICES ASSUME ExecuteTransition(c) PROVE FALSE
      OBVIOUS
    <3>1. c.target = next_status
      BY <1>4 DEF Carrier, ExecuteTransition
    <3>2. status # "absent" /\ validate_transition(status, c.target)
      BY <3>1, HopFacts
    <3>3. status' = c.target
      BY <3>2 DEF ExecuteTransition, Moved
    <3> QED BY <3>1, <3>3, HopFacts
  <2>3. Answered(c, "RETRY")
    BY <1>4, <2>1, <2>2, CalmFacts DEF Answers, ExecuteFails
  <2> QED BY <1>3, <1>4, <2>3, AnswerFacts DEF DispatchInv
<1>5. CASE worker'[w] = worker[w]
  BY <1>5 DEF Carries
<1>6. CASE MovesOn(w)
  <2>1. worker'[w].msg = m
    BY <1>6 DEF MovesOn
  <2>2. ~(CheckSeen(w) /\ worker[w].msg.claim \in seen /\ worker'[w].pc = "ack")
    BY DEF Carrier
  <2>3. ~MarkCompleted(w)
    BY DEF MarkCompleted
  <2>4. worker'[w].pc \in {"execute", "nack", "dead"} \/ dead'[m].at = "queued"
    BY <1>2, <1>3, <1>4, <1>6, <2>2, <2>3 DEF MovesOn
  <2> QED BY <2>1, <2>4 DEF Carries
<1>7. CASE Finalize(w) \/ DeadLetter(w)
  BY <1>1, <1>2, <1>7 DEF Carries
<1>8. \A k : ~NextClaim(w, k)
  BY <1>a DEF NextClaim
<1> QED BY <1>5, <1>6, <1>7, <1>8, WorkersStep, CalmFacts DEF Steps

\* A carrier stays one as long as the status does.
LEMMA CarrierKept ==
  ASSUME DispatchInv, Calm, HeldInv, FirstAttempt, Stages, [Next]_vars, NEW m \in Msgs, Carrier(m),
         status \in {"assigned", "in_progress"}, UNCHANGED status
  PROVE  Carrier(m)'
<1>a. Idle.pc = "idle" /\ Idle.msg = NoMsg /\ NoMsg \notin Msgs
  BY NoMsgFacts
<1>1. m.claim \notin seen'
  BY CarrierUnmarked
<1>2. ASSUME NEW c \in calls', c.msg = m PROVE c.target \in {"unread", next_status}
  BY <1>2, CallsStep DEF Carrier
<1>3. next_status' = next_status
  BY Frames DEF next_status, env
<1>4. ASSUME ready[m].at = "queued" PROVE Carries(m)'
  <2>1. ~\E w \in Workers : Finalize(w) /\ worker[w].msg = m
    BY <1>4, <1>a DEF Finalize, HeldInv
  <2>2. ASSUME NEW w \in Workers, NextClaim(w, m) PROVE worker'[w].msg = m /\ worker'[w].pc = "check"
    BY <2>2 DEF NextClaim, DispatchInv, WorkersOK
  <2> QED BY <1>4, <2>1, <2>2, ReadyStep DEF ReadySteps, Carries
<1>5. ASSUME dead[m].at = "queued" PROVE Carries(m)'
  <2>1. ~(AckDead /\ dlc.msg = m)
    BY <1>5, <1>a DEF AckDead, Stages
  <2>2. NextDead(m) => dlc'.msg = m /\ dlc'.pc = "check"
    BY DEF NextDead
  <2> QED BY <1>5, <2>1, <2>2, DeadStep, CalmFacts DEF DeadSteps, Carries
<1>6. ASSUME dlc.msg = m, dlc.pc \in {"check", "fail"} PROVE Carries(m)'
  <2>1. ~FailTask
    BY HopFacts DEF FailTask, Moved
  <2>2. AlreadyHandled => dlc'.msg = m /\ dlc'.pc = "fail"
    BY <1>6 DEF AlreadyHandled, Carrier, DispatchInv, ConsumerOK, ConsumerRecord
  <2>3. ~MarkHandled /\ ~AckDead /\ \A k : ~NextDead(k)
    BY <1>6, <1>a DEF MarkHandled, AckDead, NextDead
  <2> QED BY <1>6, <2>1, <2>2, <2>3, Frames, CalmFacts DEF Carries
<1>7. Carries(m)'
  BY <1>4, <1>5, <1>6, WorkerCarries DEF Carrier, Carries
<1> QED BY <1>1, <1>2, <1>3, <1>7 DEF Carrier

\* A task that is to be run stays carried: a move into assigned gives an event,
\* an event a publish, a publish a message, and a call that moves the task
\* leaves its message with a worker that will try again or dead-letter it.
LEMMA CarriedNext ==
  ASSUME DispatchInv, Calm, FreshInv, HeldInv, CalmInv, CarriedInv, [Next]_vars
  PROVE  CarriedInv'
<1> SUFFICES ASSUME status' \in {"assigned", "in_progress"}
             PROVE  events' > 0 \/ disp' # NoDisp \/ \E m \in Msgs : Carrier(m)'
  BY DEF CarriedInv
<1>a. /\ worker \in [Workers -> WorkerRecord] /\ ready \in [Msgs -> Message]
      /\ calls \subseteq Call /\ events \in Nat
      /\ Idle.pc = "idle" /\ Idle.msg = NoMsg /\ NoMsg \notin Msgs
      /\ OneCall /\ FirstAttempt /\ Stages
  BY NoMsgFacts DEF DispatchInv, WorkersOK, ReadyOK, EngineOK, CalmInv
<1>1. ASSUME NEW new \in Decisions \cup {"assigned", "absent"}, Outside(new), status' # status
      PROVE  events' > 0
  <2>1. status' = new /\ new = "assigned"
    BY <1>1, DispatchAssumption DEF Outside, Moved
  <2>2. events' = events + 1
    BY <1>1, <2>1 DEF Outside, Moved, is_dispatchable
  <2> QED BY <1>a, <2>2
<1>2. ASSUME NEW c \in calls, ExecuteTransition(c), status' # status
      PROVE  \E m \in Msgs : Carrier(m)'
  <2>1. /\ status' = c.target /\ UNCHANGED seen /\ calls' = calls \ {c}
        /\ Answered(c, map_response(c.target)) \/ Answered(c, "RETRY")
    BY <1>2 DEF ExecuteTransition, Moved
  <2>2. Answered(c, "RETRY")
    BY <2>1 DEF map_response, TERMINAL_STATUSES
  <2>3. PICK w \in Workers : worker[w].pc = "execute" /\ worker[w].msg = c.msg /\ worker[w].n = c.n
    BY <1>a DEF OneCall
  <2>4. PICK m \in Msgs : m = c.msg
    BY <1>a DEF Call
  <2>5. worker'[w].msg = m /\ worker'[w].pc = AfterRun("RETRY", worker[w].n)
    BY <2>2, <2>3, <2>4, AnswerFacts DEF DispatchInv
  <2>6. worker'[w].pc \in {"nack", "dead"}
    BY <2>5 DEF AfterRun
  <2>7. m.claim \notin seen'
    BY <1>a, <2>1, <2>3, <2>4 DEF Stages, Accounted
  <2>8. \A d \in calls' : d.msg # m
    BY <1>a, <2>1, <2>4 DEF OneCall
  <2> QED BY <2>5, <2>6, <2>7, <2>8 DEF Carrier, Carries
<1>3. ASSUME BuildClaim PROVE disp' # NoDisp
  <2>1. disp'.attempt = 1
    BY <1>3, CalmFacts
  <2> QED BY <2>1 DEF NoDisp, NoMsg
<1>4. ASSUME PublishClaim PROVE \E m \in Msgs : Carrier(m)'
  <2>1. PICK m \in Msgs : m = disp
    BY <1>4 DEF PublishClaim, DispatchInv, EngineOK
  <2>2. ready' = Stored(ready, m) /\ UNCHANGED <<seen, calls>>
    BY <1>4, <2>1, CalmFacts DEF PublishClaim
  <2>3. m.attempt = 1 /\ ready[m].at = "none"
    <3>1. m.attempt \in Nat
      BY DispatchAssumption, NoMsgFacts
    <3> QED BY <1>4, <1>a, <2>1, <3>1 DEF PublishClaim, FirstAttempt, FreshInv
  <2>4. m.claim \notin seen
    <3> SUFFICES ASSUME m.claim \in seen PROVE FALSE
      OBVIOUS
    <3>1. PICK k \in Msgs : k.claim = m.claim /\ ready[k].at # "none"
      BY <1>a DEF FirstAttempt
    <3>2. k = m
      BY <1>a, <2>3, <3>1 DEF FirstAttempt, Msgs
    <3> QED BY <2>3, <3>1, <3>2
  <2>5. \A c \in calls : c.msg # m
    <3> SUFFICES ASSUME NEW c \in calls, c.msg = m PROVE FALSE
      OBVIOUS
    <3>1. PICK w \in Workers : worker[w].pc = "execute" /\ worker[w].msg = m
      BY <1>a DEF OneCall
    <3> QED BY <1>a, <2>3, <3>1 DEF HeldInv
  <2>6. ready'[m].at = "queued"
    BY <1>a, <2>2, SubjectFacts
  <2> QED BY <2>2, <2>4, <2>5, <2>6 DEF Carrier, Carries
<1>5. ASSUME FailTask, status' # status PROVE FALSE
  BY <1>5 DEF FailTask, Moved
<1>6. ASSUME UNCHANGED status, ~PublishClaim, ~BuildClaim
      PROVE  events' > 0 \/ disp' # NoDisp \/ \E m \in Msgs : Carrier(m)'
  <2>1. UNCHANGED disp
    BY <1>6, MoreFrames, CalmFacts
  <2>2. events' >= events
    <3>1. \A new : Outside(new) => events' >= events
      BY <1>a DEF Outside, Moved
    <3>2. \A c \in calls : ExecuteTransition(c) => events' >= events
      BY <1>a DEF ExecuteTransition, Moved
    <3>3. FailTask => events' >= events
      BY <1>a DEF FailTask, Moved
    <3> QED BY <1>6, <1>a, <3>1, <3>2, <3>3, MoreFrames, CalmFacts
  <2>3. events' \in Nat
    BY DispatchNext DEF DispatchInv, EngineOK
  <2>4. events > 0 => events' > 0
    BY <1>a, <2>2, <2>3
  <2>5. \A m \in Msgs : Carrier(m) => Carrier(m)'
    BY <1>6, <1>a, CarrierKept
  <2> QED BY <1>6, <2>1, <2>4, <2>5 DEF CarriedInv
<1>7. BackendCrash \/ UNCHANGED <<status, events>> => UNCHANGED status
  BY DEF BackendCrash
<1> QED BY <1>1, <1>2, <1>3, <1>4, <1>5, <1>6, <1>7, MoreFrames

\* ... in every such behaviour.
LEMMA CalmAlways == Spec => [](Calm => CalmInv /\ CarriedInv)
<1> DEFINE Inv == Calm => CalmInv /\ CarriedInv
<1>1. Init => Inv
  <2> SUFFICES ASSUME Init PROVE Inv
    OBVIOUS
  <2>1. \A m \in Msgs : ready[m].at = "none" /\ dead[m].at = "none"
    BY DEF Init, Unsent
  <2>2. OneCall /\ FirstAttempt
    BY <2>1 DEF Init, OneCall, FirstAttempt
  <2>3. Stages
    BY <2>1, NoMsgFacts DEF Init, Stages, Accounted
  <2> QED BY <2>2, <2>3 DEF Init, CalmInv, CarriedInv
<1>2. DispatchInv /\ SteadyInv /\ Inv /\ [Next]_vars => Inv'
  <2> SUFFICES ASSUME DispatchInv, SteadyInv, Inv, [Next]_vars, Calm' PROVE (CalmInv /\ CarriedInv)'
    OBVIOUS
  <2>1. Calm
    BY Frames DEF Calm, env
  <2>2. FreshInv /\ HeldInv /\ CalmInv /\ CarriedInv
    BY <2>1, CalmFacts DEF SteadyInv
  <2>3. OneCall /\ FirstAttempt /\ Stages
    BY <2>2 DEF CalmInv
  <2>4. OneCall' /\ FirstAttempt' /\ Stages'
    BY <2>1, <2>2, <2>3, OneCallNext, FirstNext, StagesNext
  <2>5. CarriedInv'
    BY <2>1, <2>2, CarriedNext
  <2> QED BY <2>4, <2>5 DEF CalmInv
<1> HIDE DEF Inv
<1>3. Spec => []Inv
  BY <1>1, <1>2, DispatchAlways, SteadyAlways, PTL DEF Spec
<1> QED BY <1>3 DEF Inv

\* As long as calls and the dedup store may fail and nothing else, no task is
\* left assigned or in progress with nothing on its way to move it.
THEOREM NothingOrphaned == Spec => []NoOrphan
<1>1. DispatchInv /\ (Calm => CalmInv /\ CarriedInv) => NoOrphan
  <2> SUFFICES ASSUME CarriedInv, Quiet, status \in {"assigned", "in_progress"}
               PROVE  FALSE
    BY DEF NoOrphan, Calm
  <2>1. PICK m \in Msgs : Carries(m)
    BY DEF CarriedInv, Quiet, Carrier
  <2> QED BY <2>1, NoMsgFacts DEF Carries, Quiet, Live
<1> QED BY <1>1, DispatchAlways, CalmAlways, PTL

=============================================================================
