-------------------------- MODULE TaskEngineProofs --------------------------
(***************************************************************************)
(* Proofs about TaskEngine for every set of tasks, requests and mutations, *)
(* any number of generations and every combination of failures.            *)
(***************************************************************************)
EXTENDS TaskEngine, TLAPS

NoWriter == \A g \in Gens : proc[g].pc \notin ProcAlive

\* A loop that is handling something knows what.
HoldsRequest ==
  /\ \A g \in Gens : proc[g].pc \in ProcBusy => proc[g].req \in Requests
  /\ \A g \in Gens : obs[g].pc = "notify" => obs[g].event \in Requests

(***************************************************************************)
(* Why there is one writer: only the loop start() created last can be      *)
(* alive, stop() works on that one, and once stop() is past it, or has     *)
(* returned without marking the engine, it is gone.                        *)
(***************************************************************************)
WriterInv ==
  /\ \A g \in Gens : proc[g].pc \in ProcAlive => g = gen
  /\ running \/ stop_pc # "out" => gen \in Gens
  /\ running => stop_pc = "out" /\ processing_task = gen
  /\ stop_pc \in {"drain_proc", "cancel_proc"} => processing_task = gen
  /\ stop_pc \in {"sentinel", "drain_obs", "cancel_obs"} => NoWriter
  /\ stop_pc = "out" /\ ~running /\ ~unrestartable => NoWriter

EngineInv == TypeOK /\ HoldsRequest /\ WriterInv

-----------------------------------------------------------------------------
(* The operators *)

\* What an accepted mutation saves is a row.
LEMMA WrittenType ==
  ASSUME NEW m \in Mutation, NEW row \in Row,
         m.kind \notin {"create", "delete"} => row # NoTask
  PROVE  Written(m, row) \in Row
<1>1. m.kind \in MutationKind /\ m.target \in TaskStatus /\ m.patch \in Patch
  BY DEF Mutation
<1>2. \A b \in BOOLEAN, how \in {"keep", "set", "clear"} : Merge(b, how) \in BOOLEAN
  BY DEF Merge
<1>3. CASE m.kind = "create"
  <2>1. Written(m, row) = Updated(Filed, m.patch)
    BY <1>3 DEF Written
  <2>2. Updated(Filed, m.patch) \in Task
    BY <1>1, <1>2 DEF Updated, Filed, Task, TaskStatus, Patch
  <2> QED BY <2>1, <2>2 DEF Row
<1>4. CASE m.kind = "update"
  <2>1. row \in Task
    BY <1>4 DEF Row
  <2>2. Written(m, row) = Updated(row, m.patch)
    BY <1>4 DEF Written
  <2>3. Updated(row, m.patch) \in Task
    BY <1>1, <1>2, <2>1 DEF Updated, Task, Patch
  <2> QED BY <2>2, <2>3 DEF Row
<1>5. CASE m.kind = "transition"
  <2>1. row \in Task
    BY <1>5 DEF Row
  <2>2. Written(m, row) = Transitioned(row, m.target, m.patch)
    BY <1>5 DEF Written
  <2>3. Transitioned(row, m.target, m.patch) \in Task
    BY <1>1, <1>2, <2>1 DEF Transitioned, Task, Patch
  <2> QED BY <2>2, <2>3 DEF Row
<1>6. CASE m.kind = "cancel"
  <2>1. row \in Task
    BY <1>6 DEF Row
  <2>2. Written(m, row) = Transitioned(row, "cancelled", EmptyPatch)
    BY <1>6 DEF Written
  <2>3. Transitioned(row, "cancelled", EmptyPatch) \in Task
    BY <1>2, <2>1 DEF Transitioned, Task, EmptyPatch, TaskStatus
  <2> QED BY <2>2, <2>3 DEF Row
<1>7. CASE m.kind = "delete"
  BY <1>7 DEF Written, Row
<1> QED BY <1>1, <1>3, <1>4, <1>5, <1>6, <1>7 DEF MutationKind

\* A settled future holds an answer.
LEMMA SettleType ==
  ASSUME CallsOK, NEW r \in Requests, NEW a \in Answer, Settle(r, a)
  PROVE  answer' \in [Requests -> Answer]
  BY DEF CallsOK, Settle

\* Versions are numbers.
LEMMA VersionType ==
  ASSUME StoreOK, NEW m \in Mutation
  PROVE  /\ Seeded(versions[m.task]) \in Nat
         /\ NextVersion(m) \in Nat
<1>1. versions[m.task] \in Nat
  BY DEF StoreOK, Mutation
<1> QED BY <1>1 DEF Seeded, NextVersion, Mutation, MutationKind

\* _fail_remaining_futures keeps the types of what it touches.
LEMMA FailRemainingType ==
  ASSUME CallsOK, NEW saved, FailRemaining(saved)
  PROVE  /\ answer' \in [Requests -> Answer]
         /\ in_flight' = NoRequest
         /\ queue' \in Seq(Requests)
  BY DEF CallsOK, FailRemaining, Answer, Unknown

-----------------------------------------------------------------------------
(* What a step leaves alone, and what it does to one loop *)

\* Each part of the invariant is about the variables it names.
LEMMA Frames ==
  /\ StoreOK /\ UNCHANGED storeVars => StoreOK'
  /\ LifeOK /\ UNCHANGED lifeVars => LifeOK'
  /\ LoopsOK /\ UNCHANGED loopVars => LoopsOK'
  /\ QueuesOK /\ UNCHANGED queueVars => QueuesOK'
  /\ CallsOK /\ UNCHANGED callVars => CallsOK'
  /\ HistoryOK /\ UNCHANGED histVars => HistoryOK'
  /\ HoldsRequest /\ UNCHANGED <<proc, obs>> => HoldsRequest'
  /\ WriterInv /\ UNCHANGED <<lifeVars, proc>> => WriterInv'
<1>1. StoreOK /\ UNCHANGED storeVars => StoreOK'
  BY DEF StoreOK, storeVars
<1>2. LifeOK /\ UNCHANGED lifeVars => LifeOK'
  BY DEF LifeOK, lifeVars
<1>3. LoopsOK /\ UNCHANGED loopVars => LoopsOK'
  BY DEF LoopsOK, loopVars
<1>4. QueuesOK /\ UNCHANGED queueVars => QueuesOK'
  BY DEF QueuesOK, queueVars
<1>5. CallsOK /\ UNCHANGED callVars => CallsOK'
  BY DEF CallsOK, callVars
<1>6. HistoryOK /\ UNCHANGED histVars => HistoryOK'
  BY DEF HistoryOK, histVars
<1>7. HoldsRequest /\ UNCHANGED <<proc, obs>> => HoldsRequest'
  BY DEF HoldsRequest
<1>8. WriterInv /\ UNCHANGED <<lifeVars, proc>> => WriterInv'
  BY DEF WriterInv, NoWriter, lifeVars
<1> QED BY <1>1, <1>2, <1>3, <1>4, <1>5, <1>6, <1>7, <1>8

\* A processing loop moves; a loop that had ended does not come back.
LEMMA ProcMoves ==
  ASSUME EngineInv, NEW g \in Gens, NEW p \in ProcRecord,
         proc' = [proc EXCEPT ![g] = p],
         p.pc \in ProcBusy => p.req \in Requests,
         proc[g].pc \in ProcAlive,
         in_flight' \in Requests \cup {NoRequest},
         UNCHANGED <<lifeVars, obs>>
  PROVE  LoopsOK' /\ HoldsRequest' /\ WriterInv'
<1> USE DEF EngineInv, TypeOK
<1>1. LoopsOK'
  BY DEF LoopsOK
<1>2. HoldsRequest'
  BY DEF HoldsRequest, LoopsOK
<1>3. \A h \in Gens : proc'[h].pc \in ProcAlive => proc[h].pc \in ProcAlive
  BY DEF LoopsOK
<1>4. WriterInv'
  BY <1>3 DEF WriterInv, NoWriter, lifeVars
<1> QED BY <1>1, <1>2, <1>4

\* An observer loop moves.
LEMMA ObsMoves ==
  ASSUME EngineInv, NEW g \in Gens, NEW o \in ObsRecord,
         obs' = [obs EXCEPT ![g] = o],
         o.pc = "notify" => o.event \in Requests,
         UNCHANGED <<proc, in_flight>>
  PROVE  LoopsOK' /\ HoldsRequest'
  BY DEF EngineInv, TypeOK, LoopsOK, HoldsRequest

-----------------------------------------------------------------------------
(* The invariant: initially, and one lemma for each kind of step *)

\* Before the first start() there is no loop.
LEMMA InitInv == Init => EngineInv
<1> SUFFICES ASSUME Init PROVE EngineInv
  OBVIOUS
<1>1. NewProc \in ProcRecord /\ NewObs \in ObsRecord
  BY DEF NewProc, ProcPC, Row, NewObs, ObsPC, ProcRecord, ObsRecord
<1>2. StoreOK
  BY EngineAssumption DEF Init, StoreOK, NoRows, Row
<1>3. LifeOK
  <2>1. 0 \in 0..MaxGen
    BY EngineAssumption
  <2> QED BY <2>1 DEF Init, LifeOK, NoLoop, StopPC
<1>4. LoopsOK
  BY <1>1 DEF Init, LoopsOK
<1>5. QueuesOK /\ HistoryOK
  BY DEF Init, QueuesOK, HistoryOK
<1>6. CallsOK
  BY DEF Init, CallsOK, Answer
<1>7. HoldsRequest /\ WriterInv
  BY DEF Init, HoldsRequest, WriterInv, NoWriter, ProcAlive, ProcBusy, ProcPC,
         NewProc, NewObs
<1> QED BY <1>2, <1>3, <1>4, <1>5, <1>6, <1>7 DEF EngineInv, TypeOK

\* Writers beside the queue leave everything of the engine alone ...
LEMMA BesideFrame ==
  ASSUME BesideQueue
  PROVE  UNCHANGED <<plans, versions, lifeVars, loopVars, queueVars, callVars, histVars>>
  BY DEF BesideQueue, FindChildren, Probed, reassign, save_many, file_child_tasks

\* ... and write rows.
LEMMA BesideStore ==
  ASSUME StoreOK, BesideQueue
  PROVE  StoreOK'
<1> USE DEF StoreOK
<1>a. Filed \in Row /\ NoTask \in Row /\ NoRows \in [Tasks -> Row]
  BY DEF Filed, Row, Task, TaskStatus, NoRows
<1>b. ASSUME NEW new \in [Tasks -> Row], Upsert(new)
      PROVE  rows' \in [Tasks -> Row] /\ overwritten' \in SUBSET Tasks
  BY <1>b DEF Upsert
<1>1. ASSUME NEW w \in Writers, FindChildren(w) PROVE StoreOK'
  BY <1>1 DEF FindChildren
<1>2. ASSUME NEW w \in Writers, NEW t \in DerivedTasks, Probed(w, t) PROVE StoreOK'
  BY <1>2, <1>a, EngineAssumption DEF Probed
<1>3. ASSUME NEW w \in Writers, reassign(w) PROVE StoreOK'
  <2>1. \A t \in Tasks : rows[t].status \in {"assigned", "in_progress"} =>
          Transitioned(rows[t], "interrupted", Unassign) \in Row
    BY DEF Row, Task, TaskStatus, NoTask, Transitioned, Unassign, EmptyPatch, Merge
  <2> DEFINE Interrupted(S) ==
        [t \in Tasks |-> IF t \in S THEN Transitioned(rows[t], "interrupted", Unassign) ELSE NoTask]
  <2>2. PICK S \in SUBSET {t \in Tasks : rows[t].status \in {"assigned", "in_progress"}} :
          batch' = [batch EXCEPT ![w] = Interrupted(S)]
    BY <1>3 DEF reassign
  <2>5. Interrupted(S) \in [Tasks -> Row]
    <3>1. \A t \in Tasks : t \in S => Transitioned(rows[t], "interrupted", Unassign) \in Row
      BY <2>1, <2>2
    <3> QED BY <1>a, <3>1
  <2> HIDE DEF Interrupted
  <2>3. batch' \in [Writers -> [Tasks -> Row]]
    BY <2>2, <2>5
  <2>4. UNCHANGED <<rows, plans, versions, probing, overwritten>>
    BY <1>3 DEF reassign
  <2> QED BY <2>3, <2>4
<1>4. ASSUME NEW w \in Writers, save_many(w) PROVE StoreOK'
  BY <1>4, <1>a, <1>b DEF save_many
<1>5. ASSUME file_child_tasks PROVE StoreOK'
  BY <1>5, <1>a, <1>b DEF file_child_tasks
<1> QED BY <1>1, <1>2, <1>3, <1>4, <1>5 DEF BesideQueue

\* Callers, operators, plans and the writers beside the queue.
LEMMA CallersInv ==
  ASSUME EngineInv,
         \/ \E r \in Requests : Submit(r) \/ Abandon(r)
         \/ \E n \in MaxQueueSizes : set_max_queue_size(n)
         \/ \E t \in PlanTasks : FilePlan(t) \/ DropPlan(t)
         \/ BesideQueue
  PROVE  EngineInv'
<1> USE Frames DEF EngineInv, TypeOK
<1>1. ASSUME NEW r \in Requests, Submit(r) PROVE EngineInv'
  <2>1. CallsOK'
    BY <1>1 DEF Submit, CallsOK, Answer, Refused
  <2>2. /\ queue' = queue \/ queue' = Append(queue, r)
        /\ observer_queue' = observer_queue
    BY <1>1 DEF Submit
  <2>3. QueuesOK'
    BY <2>2 DEF QueuesOK
  <2> QED BY <1>1, <2>1, <2>3 DEF Submit, loopVars
<1>2. ASSUME NEW r \in Requests, Abandon(r) PROVE EngineInv'
  <2>1. CallsOK'
    BY <1>2 DEF Abandon, CallsOK, Answer, Unknown
  <2> QED BY <1>2, <2>1 DEF Abandon, loopVars
<1>3. ASSUME NEW n \in MaxQueueSizes, set_max_queue_size(n) PROVE EngineInv'
  <2>1. LifeOK'
    BY <1>3 DEF set_max_queue_size, LifeOK
  <2>2. WriterInv'
    BY <1>3 DEF set_max_queue_size, WriterInv, NoWriter, loopVars
  <2> QED BY <1>3, <2>1, <2>2 DEF set_max_queue_size, loopVars
<1>4. ASSUME NEW t \in PlanTasks, FilePlan(t) \/ DropPlan(t) PROVE EngineInv'
  <2>1. StoreOK'
    BY <1>4, EngineAssumption DEF FilePlan, DropPlan, StoreOK
  <2> QED BY <1>4, <2>1 DEF FilePlan, DropPlan, loopVars
<1>5. ASSUME BesideQueue PROVE EngineInv'
  BY <1>5, BesideFrame, BesideStore DEF loopVars
<1> QED BY <1>1, <1>2, <1>3, <1>4, <1>5

\* The loop goes back to its queue, ends, or dies.
LEMMA LoopLetsGo ==
  ASSUME EngineInv, NEW g \in Gens, NEW pc \in {"idle", "done", "dead"},
         proc[g].pc \in ProcAlive,
         proc' = [proc EXCEPT ![g] = [NewProc EXCEPT !.pc = pc]],
         in_flight' \in Requests \cup {NoRequest},
         UNCHANGED <<lifeVars, obs>>
  PROVE  LoopsOK' /\ HoldsRequest' /\ WriterInv'
<1> DEFINE p == [NewProc EXCEPT !.pc = pc]
<1>1. p \in ProcRecord /\ p.pc \notin ProcBusy
  BY DEF NewProc, ProcRecord, ProcPC, ProcBusy, Row
<1> QED BY <1>1, ProcMoves

\* The loop moves on to another await and keeps its request.
LEMMA LoopGoesOn ==
  ASSUME EngineInv, NEW g \in Gens, NEW pc \in ProcPC,
         proc[g].pc \in ProcBusy, GoTo(g, pc), UNCHANGED <<lifeVars, obs, in_flight>>
  PROVE  LoopsOK' /\ HoldsRequest' /\ WriterInv'
<1> DEFINE p == [proc[g] EXCEPT !.pc = pc]
<1>1. proc[g] \in ProcRecord /\ in_flight' \in Requests \cup {NoRequest}
  BY DEF EngineInv, TypeOK, LoopsOK
<1>2. p \in ProcRecord /\ p.req = proc[g].req
  BY <1>1 DEF ProcRecord
<1>3. p.req \in Requests
  BY <1>2 DEF EngineInv, HoldsRequest
<1>4. proc' = [proc EXCEPT ![g] = p]
  BY DEF GoTo
<1>5. proc[g].pc \in ProcAlive
  BY DEF ProcBusy, ProcAlive, ProcPC
<1> QED BY <1>1, <1>2, <1>3, <1>4, <1>5, ProcMoves

\* The processing loop.
LEMMA ProcessingInv ==
  ASSUME EngineInv, NEW g \in Gens,
         ProcessingStep(g) \/ ProcessingFails(g) \/ ProcessingCritical(g)
  PROVE  EngineInv'
<1> DEFINE r == proc[g].req
           m == mutation[r]
<1> USE Frames DEF EngineInv, TypeOK
<1>a. proc[g] \in ProcRecord /\ in_flight \in Requests \cup {NoRequest}
  BY DEF LoopsOK
<1>b. ASSUME proc[g].pc \in ProcBusy
      PROVE  r \in Requests /\ m \in Mutation /\ m.task \in Tasks
  <2>1. r \in Requests
    BY <1>b DEF HoldsRequest
  <2>2. m \in Mutation
    BY <2>1, EngineAssumption DEF CallsOK
  <2> QED BY <2>1, <2>2 DEF Mutation
<1>c. ASSUME proc[g].pc \in ProcBusy, NEW a \in Answer, Settle(r, a),
             UNCHANGED <<mutation, version_of>>
      PROVE  CallsOK'
  <2>1. answer' \in [Requests -> Answer]
    BY <1>b, <1>c, SettleType
  <2> QED BY <1>c, <2>1 DEF CallsOK
<1>d. ASSUME proc[g].pc \in ProcAlive, Released(g), UNCHANGED <<lifeVars, obs>>
      PROVE  LoopsOK' /\ HoldsRequest' /\ WriterInv'
  BY <1>d, LoopLetsGo DEF Released
<1>e. ProcBusy \subseteq ProcAlive
  BY DEF ProcBusy, ProcAlive, ProcPC
<1>1. CASE Dequeue(g)
  <2> DEFINE p == [NewProc EXCEPT !.pc = "read", !.req = Head(queue)]
  <2>1. Head(queue) \in Requests /\ Tail(queue) \in Seq(Requests)
    BY <1>1 DEF Dequeue, QueuesOK
  <2>2. p \in ProcRecord /\ p.req \in Requests
    BY <2>1 DEF NewProc, ProcRecord, ProcPC, Row
  <2>3. proc[g].pc \in ProcAlive
    BY <1>1 DEF Dequeue, At, ProcAlive, ProcPC
  <2>4. LoopsOK' /\ HoldsRequest' /\ WriterInv'
    BY <1>1, <2>1, <2>2, <2>3, ProcMoves DEF Dequeue
  <2>5. QueuesOK'
    BY <1>1, <2>1 DEF Dequeue, QueuesOK
  <2> QED BY <1>1, <2>4, <2>5 DEF Dequeue
<1>2. CASE Read(g)
  <2>1. proc[g].pc \in ProcBusy
    BY <1>2 DEF Read, At, ProcBusy
  <2>2. r \in Requests /\ m \in Mutation /\ m.task \in Tasks
    BY <1>b, <2>1
  <2>3. StoreOK'
    <3>1. Seeded(versions[m.task]) \in Nat
      BY <2>2, VersionType
    <3>2. versions' \in [Tasks -> Nat]
      BY <1>2, <3>1 DEF Read, StoreOK
    <3> QED BY <1>2, <3>2 DEF Read, StoreOK
  <2>4. ASSUME Verdict(m) \in Failures, Settle(r, Verdict(m)), Released(g),
               UNCHANGED <<version_of, mutation, lifeVars, obs>>
        PROVE  CallsOK' /\ LoopsOK' /\ HoldsRequest' /\ WriterInv'
    <3>1. Verdict(m) \in Answer
      BY <2>4 DEF Answer
    <3> QED BY <1>c, <1>d, <1>e, <2>1, <2>4, <3>1
  <2>5. ASSUME Settle(r, "success"), GoTo(g, "publish"),
               version_of' = [version_of EXCEPT ![r] = versions'[m.task]],
               UNCHANGED <<mutation, lifeVars, obs, in_flight>>
        PROVE  CallsOK' /\ LoopsOK' /\ HoldsRequest' /\ WriterInv'
    <3>1. answer' \in [Requests -> Answer]
      BY <2>2, <2>5, SettleType DEF Answer
    <3>2. version_of' \in [Requests -> Nat]
      BY <2>2, <2>3, <2>5 DEF CallsOK, StoreOK
    <3>3. CallsOK'
      BY <2>5, <3>1, <3>2 DEF CallsOK
    <3> QED BY <2>1, <2>5, <3>3, LoopGoesOn DEF ProcPC
  <2>6. ASSUME Verdict(m) = "write",
               proc' = [proc EXCEPT ![g].pc = "save",
                                    ![g].row = Written(m, rows[m.task])],
               UNCHANGED <<answer, version_of, in_flight, mutation, lifeVars, obs>>
        PROVE  CallsOK' /\ LoopsOK' /\ HoldsRequest' /\ WriterInv'
    <3> DEFINE p == [proc[g] EXCEPT !.pc = "save", !.row = Written(m, rows[m.task])]
    <3>1. m.kind \notin {"create", "delete"} => rows[m.task] # NoTask
      BY <2>6 DEF Verdict
    <3>2. rows[m.task] \in Row
      BY <2>2 DEF StoreOK
    <3>3. Written(m, rows[m.task]) \in Row
      BY <2>2, <3>1, <3>2, WrittenType
    <3>4. p \in ProcRecord /\ p.req = r
      BY <1>a, <3>3 DEF ProcRecord, ProcPC
    <3>5. proc' = [proc EXCEPT ![g] = p]
      BY <1>a, <2>6 DEF LoopsOK
    <3>6. CallsOK'
      BY <2>6 DEF CallsOK
    <3> QED BY <1>a, <1>e, <2>1, <2>2, <2>6, <3>4, <3>5, <3>6, ProcMoves
  <2>7. CallsOK' /\ LoopsOK' /\ HoldsRequest' /\ WriterInv'
    BY <1>2, <2>4, <2>5, <2>6 DEF Read
  <2> QED BY <1>2, <2>3, <2>7 DEF Read
<1>3. CASE Commit(g)
  <2>1. proc[g].pc \in ProcBusy
    BY <1>3 DEF Commit, ProcBusy
  <2>2. r \in Requests /\ m.task \in Tasks /\ proc[g].row \in Row
    BY <1>a, <1>b, <2>1 DEF ProcRecord
  <2>3. StoreOK'
    BY <1>3, <2>2 DEF Commit, StoreOK
  <2>4. HistoryOK'
    BY <1>3, <2>2 DEF Commit, HistoryOK
  <2>5. LoopsOK' /\ HoldsRequest' /\ WriterInv'
    BY <1>3, <2>1, LoopGoesOn DEF Commit, ProcPC
  <2> QED BY <1>3, <2>3, <2>4, <2>5 DEF Commit
<1>4. CASE NothingDeleted(g)
  <2>1. proc[g].pc \in ProcBusy /\ "not_found" \in Answer
    BY <1>4 DEF NothingDeleted, At, ProcBusy, Answer, Failures
  <2>2. CallsOK'
    BY <1>4, <1>c, <2>1 DEF NothingDeleted
  <2>3. LoopsOK' /\ HoldsRequest' /\ WriterInv'
    BY <1>4, <1>d, <1>e, <2>1 DEF NothingDeleted
  <2> QED BY <1>4, <2>2, <2>3 DEF NothingDeleted
<1>5. CASE DeleteRestricted(g)
  <2>1. proc[g].pc \in ProcBusy
    BY <1>5 DEF DeleteRestricted, At, ProcBusy
  <2>2. LoopsOK' /\ HoldsRequest' /\ WriterInv'
    BY <1>5, <2>1, LoopGoesOn DEF DeleteRestricted, ProcPC
  <2> QED BY <1>5, <2>2 DEF DeleteRestricted
<1>6. CASE Recheck(g)
  <2>1. proc[g].pc \in ProcBusy
    BY <1>6 DEF Recheck, At, ProcBusy
  <2>2. {"parent_of_plan", "internal"} \subseteq Answer
    BY DEF Answer, Failures, Unknown
  <2>3. CallsOK'
    BY <1>6, <1>c, <2>1, <2>2 DEF Recheck
  <2>4. LoopsOK' /\ HoldsRequest' /\ WriterInv'
    BY <1>6, <1>d, <1>e, <2>1 DEF Recheck
  <2> QED BY <1>6, <2>3, <2>4 DEF Recheck
<1>7. CASE Finish(g)
  <2>1. proc[g].pc \in ProcBusy
    BY <1>7 DEF Finish, At, ProcBusy
  <2>2. r \in Requests /\ m.task \in Tasks /\ NextVersion(m) \in Nat
    BY <1>b, <2>1, VersionType
  <2>3. StoreOK'
    BY <1>7, <2>2 DEF Finish, StoreOK
  <2>4. answer' \in [Requests -> Answer]
    BY <1>7, <2>2, SettleType DEF Finish, Answer
  <2>5. CallsOK'
    BY <1>7, <2>2, <2>4 DEF Finish, CallsOK
  <2>6. LoopsOK' /\ HoldsRequest' /\ WriterInv'
    BY <1>7, <2>1, LoopGoesOn DEF Finish, ProcPC
  <2> QED BY <1>7, <2>3, <2>5, <2>6 DEF Finish
<1>8. CASE Publish(g)
  <2>1. proc[g].pc \in ProcBusy
    BY <1>8 DEF Publish, At, ProcBusy
  <2>2. \/ observer_queue' = observer_queue
        \/ observer_queue' = Append(observer_queue, r)
    BY <1>8 DEF Publish
  <2>3. QueuesOK'
    BY <1>8, <1>b, <2>1, <2>2 DEF Publish, QueuesOK
  <2>4. LoopsOK' /\ HoldsRequest' /\ WriterInv'
    BY <1>8, <1>d, <1>e, <2>1 DEF Publish
  <2> QED BY <1>8, <2>3, <2>4 DEF Publish
<1>9. CASE ProcessingCancelled(g)
  <2>1. in_flight' \in Requests \cup {NoRequest}
    BY <1>9, <1>a DEF ProcessingCancelled
  <2>2. LoopsOK' /\ HoldsRequest' /\ WriterInv'
    BY <1>9, <2>1, LoopLetsGo DEF ProcessingCancelled
  <2> QED BY <1>9, <2>2 DEF ProcessingCancelled
<1>10. CASE ProcessingExits(g)
  <2> DEFINE p == [proc[g] EXCEPT !.pc = "done"]
  <2>1. p \in ProcRecord /\ p.pc \notin ProcBusy
    BY <1>a DEF ProcRecord, ProcPC, ProcBusy
  <2>2. proc[g].pc \in ProcAlive /\ proc' = [proc EXCEPT ![g] = p]
    BY <1>10 DEF ProcessingExits, At, GoTo, ProcAlive, ProcPC
  <2>3. LoopsOK' /\ HoldsRequest' /\ WriterInv'
    BY <1>10, <1>a, <2>1, <2>2, ProcMoves DEF ProcessingExits
  <2> QED BY <1>10, <2>3 DEF ProcessingExits
<1>11. CASE ProcessingFails(g)
  <2>1. proc[g].pc \in ProcBusy /\ "internal" \in Answer
    BY <1>11 DEF ProcessingFails, At, ProcBusy, Answer, Unknown
  <2>2. CallsOK'
    BY <1>11, <1>c, <2>1 DEF ProcessingFails
  <2>3. LoopsOK' /\ HoldsRequest' /\ WriterInv'
    BY <1>11, <1>d, <1>e, <2>1 DEF ProcessingFails
  <2> QED BY <1>11, <2>2, <2>3 DEF ProcessingFails
<1>12. CASE ProcessingCritical(g)
  <2>1. proc[g].pc \in ProcBusy /\ "critical" \in Answer
    BY <1>12 DEF ProcessingCritical, Answer, Unknown
  <2>2. CallsOK'
    BY <1>12, <1>c, <2>1 DEF ProcessingCritical
  <2>3. LoopsOK' /\ HoldsRequest' /\ WriterInv'
    BY <1>12, <1>e, <2>1, LoopLetsGo DEF ProcessingCritical
  <2> QED BY <1>12, <2>2, <2>3 DEF ProcessingCritical
<1> QED BY <1>1, <1>2, <1>3, <1>4, <1>5, <1>6, <1>7, <1>8, <1>9, <1>10, <1>11,
           <1>12 DEF ProcessingStep

\* The observer loop.
LEMMA ObserverInv ==
  ASSUME EngineInv, NEW g \in Gens, ObserverStep(g) \/ ObserverCritical(g)
  PROVE  EngineInv'
<1> USE Frames DEF EngineInv, TypeOK
<1>a. obs[g] \in ObsRecord
  BY DEF LoopsOK
<1>1. CASE ObserverGets(g)
  <2> DEFINE last == Head(observer_queue) = Sentinel
             o == [obs[g] EXCEPT !.pc = IF last THEN "done" ELSE "notify",
                                 !.event = IF last THEN NoRequest
                                           ELSE Head(observer_queue)]
  <2>1. /\ Head(observer_queue) \in Requests \cup {Sentinel}
        /\ Tail(observer_queue) \in Seq(Requests \cup {Sentinel})
    BY <1>1 DEF ObserverGets, QueuesOK
  <2>2. o \in ObsRecord /\ (o.pc = "notify" => o.event \in Requests)
    BY <1>a, <2>1 DEF ObsRecord, ObsPC
  <2>3. obs' = [obs EXCEPT ![g] = o]
    BY <1>1, <1>a DEF ObserverGets, LoopsOK
  <2>4. LoopsOK' /\ HoldsRequest'
    BY <1>1, <2>2, <2>3, ObsMoves DEF ObserverGets
  <2>5. QueuesOK'
    BY <1>1, <2>1 DEF ObserverGets, QueuesOK
  <2> QED BY <1>1, <2>4, <2>5 DEF ObserverGets
<1>b. \A pc \in {"idle", "done", "dead"} :
        [NewObs EXCEPT !.pc = pc] \in ObsRecord /\ [NewObs EXCEPT !.pc = pc].pc = pc
  BY DEF NewObs, ObsRecord, ObsPC
<1>2. CASE ObserverNotified(g)
  <2>1. HistoryOK'
    BY <1>2 DEF ObserverNotified, HistoryOK, HoldsRequest
  <2>2. LoopsOK' /\ HoldsRequest'
    BY <1>2, <1>b, ObsMoves DEF ObserverNotified
  <2> QED BY <1>2, <2>1, <2>2 DEF ObserverNotified
<1>3. CASE ObserverCritical(g)
  <2>1. LoopsOK' /\ HoldsRequest'
    BY <1>3, <1>b, ObsMoves DEF ObserverCritical
  <2> QED BY <1>3, <2>1 DEF ObserverCritical
<1>4. CASE ObserverCancelled(g)
  <2>1. LoopsOK' /\ HoldsRequest'
    BY <1>4, <1>b, ObsMoves DEF ObserverCancelled
  <2> QED BY <1>4, <2>1 DEF ObserverCancelled
<1> QED BY <1>1, <1>2, <1>3, <1>4 DEF ObserverStep

\* start(): the loops of the last generation are gone, or it is refused.
LEMMA StartInv ==
  ASSUME EngineInv, Start
  PROVE  EngineInv'
<1> USE Frames DEF EngineInv, TypeOK
<1> DEFINE p == [NewProc EXCEPT !.pc = "idle"]
           o == [NewObs EXCEPT !.pc = "idle"]
<1>1. gen + 1 \in Gens /\ gen + 1 \in 0..MaxGen
  BY EngineAssumption DEF Start, LifeOK, Gens
<1>2. p \in ProcRecord /\ p.pc = "idle" /\ o \in ObsRecord /\ o.pc = "idle"
  BY DEF NewProc, ProcRecord, ProcPC, Row, NewObs, ObsRecord, ObsPC
<1>3. proc' = [proc EXCEPT ![gen + 1] = p] /\ obs' = [obs EXCEPT ![gen + 1] = o]
  BY DEF Start
<1>4. LifeOK'
  BY <1>1 DEF Start, LifeOK
<1>5. LoopsOK'
  BY <1>2, <1>3 DEF Start, LoopsOK
<1>6. HoldsRequest'
  BY <1>2, <1>3 DEF LoopsOK, HoldsRequest, ProcBusy
<1>7. NoWriter
  BY DEF Start, WriterInv
<1>8. \A g \in Gens : proc'[g].pc \in ProcAlive => g = gen'
  BY <1>3, <1>7 DEF Start, NoWriter, LoopsOK
<1>9. WriterInv'
  BY <1>1, <1>8 DEF Start, WriterInv
<1> QED BY <1>4, <1>5, <1>6, <1>9 DEF Start

\* stop() and the ways it ends.
LEMMA StopInv ==
  ASSUME EngineInv,
         Stop \/ StopStep \/ ProcessingDrainTimeout \/ ObserverDrainTimeout \/ StopAborted
  PROVE  EngineInv'
<1> USE Frames DEF EngineInv, TypeOK
<1>a. NoLoop \in 0..MaxGen
  BY EngineAssumption DEF NoLoop
<1>b. ASSUME stop_pc \in {"drain_proc", "cancel_proc"},
             proc[processing_task].pc \notin ProcAlive
      PROVE  NoWriter
  BY <1>b DEF WriterInv, NoWriter
<1>c. NoWriter /\ UNCHANGED proc => NoWriter'
  BY DEF NoWriter
<1>d. ASSUME NEW saved, FailRemaining(saved), UNCHANGED <<mutation, version_of,
             observer_queue, proc, obs>>
      PROVE  CallsOK' /\ QueuesOK' /\ LoopsOK' /\ HoldsRequest'
  <2>1. answer' \in [Requests -> Answer] /\ in_flight' = NoRequest /\ queue' \in Seq(Requests)
    BY <1>d, FailRemainingType
  <2> QED BY <1>d, <2>1 DEF CallsOK, QueuesOK, LoopsOK
<1>1. CASE Stop
  <2>1. LifeOK'
    BY <1>1 DEF Stop, LifeOK, StopPC
  <2>2. WriterInv'
    BY <1>1 DEF Stop, WriterInv, NoWriter, loopVars
  <2> QED BY <1>1, <2>1, <2>2 DEF Stop, loopVars
<1>2. CASE ProcessingDrained
  <2>1. LifeOK'
    BY <1>2, <1>a DEF ProcessingDrained, LifeOK, StopPC
  <2>2. NoWriter'
    BY <1>2, <1>b, <1>c DEF ProcessingDrained, ProcAlive, loopVars
  <2>3. WriterInv'
    BY <1>2, <2>2 DEF ProcessingDrained, WriterInv, NoWriter
  <2> QED BY <1>2, <2>1, <2>3 DEF ProcessingDrained, loopVars
<1>3. CASE ProcessingFoundDead
  <2>1. LifeOK'
    BY <1>3, <1>a DEF ProcessingFoundDead, LifeOK, StopPC
  <2>2. NoWriter'
    BY <1>3, <1>b, <1>c DEF ProcessingFoundDead, ProcAlive
  <2>3. WriterInv'
    BY <1>3, <2>2 DEF ProcessingFoundDead, WriterInv, NoWriter
  <2>4. CallsOK' /\ QueuesOK' /\ LoopsOK' /\ HoldsRequest'
    BY <1>3, <1>d DEF ProcessingFoundDead
  <2> QED BY <1>3, <2>1, <2>3, <2>4 DEF ProcessingFoundDead
<1>4. CASE ProcessingUnwound
  <2>1. LifeOK'
    BY <1>4, <1>a DEF ProcessingUnwound, LifeOK, StopPC
  <2>2. NoWriter'
    BY <1>4, <1>b, <1>c DEF ProcessingUnwound, ProcAlive
  <2>3. WriterInv'
    BY <1>4, <2>2 DEF ProcessingUnwound, WriterInv, NoWriter
  <2>4. CallsOK' /\ QueuesOK' /\ LoopsOK' /\ HoldsRequest'
    BY <1>4, <1>d DEF ProcessingUnwound
  <2> QED BY <1>4, <2>1, <2>3, <2>4 DEF ProcessingUnwound
<1>5. CASE SendSentinel
  <2>1. LifeOK'
    BY <1>5 DEF SendSentinel, LifeOK, StopPC
  <2>2. \/ observer_queue' = observer_queue
        \/ observer_queue' = Append(observer_queue, Sentinel)
    BY <1>5 DEF SendSentinel
  <2>3. QueuesOK'
    BY <1>5, <2>2 DEF SendSentinel, QueuesOK
  <2>4. WriterInv'
    BY <1>5, <1>c DEF SendSentinel, WriterInv, NoWriter, loopVars
  <2> QED BY <1>5, <2>1, <2>3, <2>4 DEF SendSentinel, loopVars
<1>6. CASE ObserverDrained
  <2>1. LifeOK'
    BY <1>6, <1>a DEF ObserverDrained, LifeOK, StopPC
  <2>2. WriterInv'
    BY <1>6, <1>c DEF ObserverDrained, WriterInv, NoWriter, loopVars
  <2> QED BY <1>6, <2>1, <2>2 DEF ObserverDrained, loopVars
<1>7. CASE ProcessingDrainTimeout
  <2>1. LifeOK'
    BY <1>7 DEF ProcessingDrainTimeout, LifeOK, LoopsOK, StopPC
  <2>2. \A g \in Gens : /\ proc'[g] \in ProcRecord
                        /\ proc'[g].pc = proc[g].pc
                        /\ proc'[g].req = proc[g].req
    BY <1>7 DEF ProcessingDrainTimeout, LoopsOK, ProcRecord
  <2>3. proc' \in [Gens -> ProcRecord]
    BY <1>7, <2>2 DEF ProcessingDrainTimeout, LoopsOK
  <2>4. LoopsOK'
    BY <1>7, <2>3 DEF ProcessingDrainTimeout, LoopsOK
  <2>5. HoldsRequest'
    BY <1>7, <2>2 DEF ProcessingDrainTimeout, HoldsRequest
  <2>6. WriterInv'
    BY <1>7, <2>2 DEF ProcessingDrainTimeout, WriterInv, NoWriter
  <2> QED BY <1>7, <2>1, <2>4, <2>5, <2>6 DEF ProcessingDrainTimeout
<1>8. CASE ObserverDrainTimeout
  <2>1. LifeOK'
    BY <1>8 DEF ObserverDrainTimeout, LifeOK, StopPC
  <2>2. \A g \in Gens : /\ obs'[g] \in ObsRecord
                        /\ obs'[g].pc = obs[g].pc
                        /\ obs'[g].event = obs[g].event
    BY <1>8 DEF ObserverDrainTimeout, LoopsOK, ObsRecord
  <2>3. obs' \in [Gens -> ObsRecord]
    BY <1>8, <2>2 DEF ObserverDrainTimeout, LoopsOK
  <2>4. LoopsOK'
    BY <1>8, <2>3 DEF ObserverDrainTimeout, LoopsOK
  <2>5. HoldsRequest'
    BY <1>8, <2>2 DEF ObserverDrainTimeout, HoldsRequest
  <2>6. WriterInv'
    BY <1>8, <1>c DEF ObserverDrainTimeout, WriterInv, NoWriter
  <2> QED BY <1>8, <2>1, <2>4, <2>5, <2>6 DEF ObserverDrainTimeout
<1>9. CASE StopAborted
  <2>1. /\ LifeOK'
        /\ WriterInv'
    BY <1>9, <1>a DEF StopAborted, LifeOK, StopPC, WriterInv
  <2>2. CASE stop_pc = "drain_proc"
    <3>1. CallsOK' /\ QueuesOK' /\ LoopsOK' /\ HoldsRequest'
      BY <1>9, <1>d, <2>2 DEF StopAborted
    <3> QED BY <1>9, <2>1, <3>1 DEF StopAborted
  <2>3. CASE stop_pc # "drain_proc"
    BY <1>9, <2>1, <2>3 DEF StopAborted, callVars, queueVars, loopVars
  <2> QED BY <2>2, <2>3
<1> QED BY <1>1, <1>2, <1>3, <1>4, <1>5, <1>6, <1>7, <1>8, <1>9 DEF StopStep

-----------------------------------------------------------------------------
(* The theorems *)

\* No step of a caller, a loop, start() or stop() breaks the invariant.
LEMMA NextInv == EngineInv /\ [Next]_vars => EngineInv'
<1> SUFFICES ASSUME EngineInv, [Next]_vars PROVE EngineInv'
  OBVIOUS
<1>1. CASE UNCHANGED vars
  BY <1>1, Frames DEF vars, loopVars, EngineInv, TypeOK
<1>2. CASE Next
  BY <1>2, CallersInv, ProcessingInv, ObserverInv, StartInv, StopInv DEF Next
<1> QED BY <1>1, <1>2

\* So it holds in every state of the engine.
LEMMA InvAlways == Spec => []EngineInv
  BY InitInv, NextInv, PTL DEF Spec

\* Every variable of the engine keeps its type, whatever is submitted and
\* whatever fails: in particular an accepted mutation always writes a row,
\* and an observer is never handed the sentinel or nothing.
THEOREM TypeCorrect == Spec => []TypeOK
<1>1. EngineInv => TypeOK
  BY DEF EngineInv
<1> QED BY <1>1, InvAlways, PTL

\* One writer: however often the engine is started and stopped, and whatever
\* start(), stop() and the loops run into, two processing loops are never
\* alive together.
THEOREM OneWriter == Spec => []SingleWriter
<1>1. EngineInv => SingleWriter
  BY DEF EngineInv, WriterInv, SingleWriter
<1> QED BY <1>1, InvAlways, PTL

-----------------------------------------------------------------------------
(***************************************************************************)
(* The observer loops.  While no loop dies of a critical error they follow *)
(* the same discipline as the processing loops: only the one of the last   *)
(* start() is alive, stop() keeps hold of it until it has ended, and an    *)
(* engine that may be started again has none.                              *)
(***************************************************************************)
NoneDead == \A g \in Gens : proc[g].pc # "dead"

NoDispatcher == \A g \in Gens : obs[g].pc \notin ObsAlive

DispatcherInv ==
  /\ \A g \in Gens : obs[g].pc \in ObsAlive => g = gen
  /\ running \/ stop_pc # "out" => observer_task = gen
  /\ stop_pc = "out" /\ ~running /\ ~unrestartable => NoDispatcher

\* Without a critical error no processing loop dies.
LEMMA NobodyDies ==
  ASSUME "critical" \notin Faults, EngineInv, NoneDead, [Next]_vars
  PROVE  NoneDead'
<1> USE DEF EngineInv, TypeOK
<1>a. proc \in [Gens -> ProcRecord]
  BY DEF LoopsOK
<1>b. ASSUME NEW g \in Gens, NEW p, p.pc # "dead", proc' = [proc EXCEPT ![g] = p]
      PROVE  NoneDead'
  BY <1>a, <1>b DEF NoneDead
<1>c. ASSUME NEW g \in Gens, NEW pc, pc # "dead", GoTo(g, pc)
      PROVE  NoneDead'
  BY <1>a, <1>c DEF NoneDead, GoTo, ProcRecord
<1>d. ASSUME NEW g \in Gens, NEW pc, pc # "dead",
             proc' = [proc EXCEPT ![g] = [NewProc EXCEPT !.pc = pc]]
      PROVE  NoneDead'
  BY <1>b, <1>d DEF NewProc
<1>e. UNCHANGED proc => NoneDead'
  BY DEF NoneDead
<1>1. ASSUME NEW g \in Gens, Read(g) PROVE NoneDead'
  <2>1. CASE Released(g)
    BY <1>d, <2>1 DEF Released
  <2>2. CASE GoTo(g, "publish")
    BY <1>c, <2>2
  <2>3. ASSUME NEW row, proc' = [proc EXCEPT ![g].pc = "save", ![g].row = row]
        PROVE  NoneDead'
    BY <1>a, <2>3 DEF NoneDead, ProcRecord
  <2> QED BY <1>1, <2>1, <2>2, <2>3 DEF Read
<1>2. ASSUME NEW g \in Gens, Dequeue(g) PROVE NoneDead'
  <2> DEFINE p == [NewProc EXCEPT !.pc = "read", !.req = Head(queue)]
  <2>1. p.pc # "dead" /\ proc' = [proc EXCEPT ![g] = p]
    BY <1>2 DEF Dequeue, NewProc
  <2> QED BY <1>b, <2>1
<1>3. ASSUME NEW g \in Gens, ProcessingStep(g) \/ ProcessingFails(g) PROVE NoneDead'
  <2>1. CASE Released(g)
    BY <1>d, <2>1 DEF Released
  <2>2. CASE Commit(g) \/ DeleteRestricted(g) \/ Finish(g) \/ ProcessingExits(g)
    BY <1>c, <2>2 DEF Commit, DeleteRestricted, Finish, ProcessingExits
  <2>3. CASE ProcessingCancelled(g)
    BY <1>d, <2>3 DEF ProcessingCancelled
  <2> QED BY <1>1, <1>2, <1>3, <2>1, <2>2, <2>3
          DEF ProcessingStep, NothingDeleted, Recheck, Publish, ProcessingFails
<1>4. ASSUME Start PROVE NoneDead'
  <2> DEFINE p == [NewProc EXCEPT !.pc = "idle"]
  <2>1. p.pc # "dead" /\ proc' = [proc EXCEPT ![gen + 1] = p]
    BY <1>4 DEF Start, NewProc
  <2> HIDE DEF p
  <2> QED BY <1>a, <2>1 DEF NoneDead
<1>5. ASSUME ProcessingDrainTimeout PROVE NoneDead'
  BY <1>a, <1>5 DEF ProcessingDrainTimeout, NoneDead, ProcRecord
<1>6. CASE UNCHANGED proc
  BY <1>e, <1>6
<1>7. \/ UNCHANGED proc
      \/ \E g \in Gens : ProcessingStep(g) \/ ProcessingFails(g) \/ ProcessingCritical(g)
      \/ Start \/ ProcessingDrainTimeout
  BY BesideFrame
     DEF vars, loopVars, Next, Submit, Abandon, set_max_queue_size, FilePlan, DropPlan,
         ObserverStep, ObserverGets, ObserverNotified,
         ObserverCancelled, ObserverCritical, Stop, StopStep, ProcessingDrained,
         ProcessingFoundDead, ProcessingUnwound, SendSentinel, ObserverDrained,
         ObserverDrainTimeout, StopAborted
<1>8. \A g \in Gens : ~ProcessingCritical(g)
  BY DEF ProcessingCritical
<1> QED BY <1>3, <1>4, <1>5, <1>6, <1>7, <1>8

\* Nor is a second observer loop ever started beside a living one.
LEMMA DispatcherStep ==
  ASSUME EngineInv, NoneDead, DispatcherInv, [Next]_vars
  PROVE  DispatcherInv'
<1> USE DEF EngineInv, TypeOK
<1>a. obs \in [Gens -> ObsRecord]
  BY DEF LoopsOK
<1>b. ASSUME UNCHANGED lifeVars,
             \A g \in Gens : obs'[g].pc \in ObsAlive => obs[g].pc \in ObsAlive
      PROVE  DispatcherInv'
  BY <1>b DEF DispatcherInv, NoDispatcher, lifeVars
<1>c. ASSUME UNCHANGED <<running, unrestartable, gen, observer_task, stop_pc, obs>>
      PROVE  DispatcherInv'
  BY <1>c DEF DispatcherInv, NoDispatcher
<1>1. ASSUME NEW g \in Gens, ObserverStep(g) \/ ObserverCritical(g)
      PROVE  DispatcherInv'
  <2>1. obs[g].pc \in ObsAlive /\ UNCHANGED lifeVars
    BY <1>1 DEF ObserverStep, ObserverGets, ObserverNotified, ObserverCancelled,
                ObserverCritical, ObsAlive
  <2>2. \A h \in Gens \ {g} : obs'[h] = obs[h]
    BY <1>1, <1>a DEF ObserverStep, ObserverGets, ObserverNotified, ObserverCancelled,
                      ObserverCritical
  <2> QED BY <1>b, <2>1, <2>2
<1>2. ASSUME Start PROVE DispatcherInv'
  <2>1. NoDispatcher
    BY <1>2 DEF Start, DispatcherInv
  <2>2. \A g \in Gens : g # gen + 1 => obs'[g] = obs[g]
    BY <1>2, <1>a DEF Start
  <2>3. \A g \in Gens : obs'[g].pc \in ObsAlive => g = gen'
    BY <1>2, <2>1, <2>2 DEF Start, NoDispatcher
  <2> QED BY <1>2, <2>3 DEF Start, DispatcherInv
<1>3. ASSUME Stop PROVE DispatcherInv'
  BY <1>3 DEF Stop, DispatcherInv, NoDispatcher, loopVars
<1>4. ASSUME ProcessingDrained \/ ProcessingUnwound \/ SendSentinel \/ ProcessingDrainTimeout
      PROVE  DispatcherInv'
  BY <1>4 DEF ProcessingDrained, ProcessingUnwound, SendSentinel, ProcessingDrainTimeout,
              DispatcherInv, NoDispatcher, loopVars
<1>5. ~ProcessingFoundDead
  <2>1. SUFFICES ASSUME ProcessingFoundDead PROVE FALSE
    OBVIOUS
  <2>2. processing_task = gen /\ proc[gen].pc = "dead"
    BY <2>1 DEF ProcessingFoundDead, WriterInv
  <2>3. gen \in Gens
    BY <2>1 DEF ProcessingFoundDead, WriterInv
  <2> QED BY <2>2, <2>3 DEF NoneDead
<1>6. ASSUME ObserverDrained PROVE DispatcherInv'
  <2>1. observer_task = gen /\ obs[gen].pc \notin ObsAlive
    BY <1>6 DEF ObserverDrained, DispatcherInv, ObsAlive
  <2>2. NoDispatcher
    BY <2>1 DEF DispatcherInv, NoDispatcher
  <2>3. ~running
    BY <1>6 DEF ObserverDrained, WriterInv
  <2> QED BY <1>6, <2>2, <2>3 DEF ObserverDrained, DispatcherInv, NoDispatcher, loopVars
<1>7. ASSUME ObserverDrainTimeout PROVE DispatcherInv'
  <2>1. \A g \in Gens : obs'[g].pc = obs[g].pc
    BY <1>7, <1>a DEF ObserverDrainTimeout, ObsRecord
  <2> QED BY <1>7, <2>1 DEF ObserverDrainTimeout, DispatcherInv, NoDispatcher
<1>8. ASSUME StopAborted PROVE DispatcherInv'
  <2>1. ~running
    BY <1>8 DEF StopAborted, WriterInv
  <2> QED BY <1>8, <2>1 DEF StopAborted, DispatcherInv, NoDispatcher
<1>9. ASSUME NEW g \in Gens,
             ProcessingStep(g) \/ ProcessingFails(g) \/ ProcessingCritical(g)
      PROVE  DispatcherInv'
  BY <1>9, <1>c DEF ProcessingStep, Dequeue, Read, Commit, NothingDeleted, DeleteRestricted,
         Recheck, Finish, Publish, ProcessingCancelled, ProcessingExits, ProcessingFails,
         ProcessingCritical, lifeVars
<1>10. ASSUME \/ UNCHANGED vars
              \/ \E r \in Requests : Submit(r) \/ Abandon(r)
              \/ \E n \in MaxQueueSizes : set_max_queue_size(n)
              \/ \E t \in PlanTasks : FilePlan(t) \/ DropPlan(t)
              \/ BesideQueue
       PROVE  DispatcherInv'
  BY <1>10, <1>c, BesideFrame
     DEF vars, Submit, Abandon, set_max_queue_size, FilePlan, DropPlan, lifeVars, loopVars
<1> QED BY <1>1, <1>2, <1>3, <1>4, <1>5, <1>6, <1>7, <1>8, <1>9, <1>10 DEF Next, StopStep

\* One dispatcher: unless a loop dies of a critical error, no two generations
\* dispatch to the observers at once, whatever drains time out and whichever
\* stop() is aborted.
THEOREM OneDispatcher == Spec => []SingleDispatcher
<1>1. CASE "critical" \in Faults
  <2>1. SingleDispatcher
    BY <1>1 DEF SingleDispatcher
  <2> QED BY <2>1, PTL
<1>2. CASE "critical" \notin Faults
  <2>1. Init => NoneDead /\ DispatcherInv
    BY DEF Init, NoneDead, DispatcherInv, NoDispatcher, NewProc, NewObs, ObsAlive
  <2>2. EngineInv /\ NoneDead /\ DispatcherInv /\ [Next]_vars => (NoneDead /\ DispatcherInv)'
    BY <1>2, NobodyDies, DispatcherStep
  <2>3. DispatcherInv => SingleDispatcher
    BY DEF DispatcherInv, SingleDispatcher
  <2> QED BY <2>1, <2>2, <2>3, InvAlways, PTL DEF Spec
<1> QED BY <1>1, <1>2

-----------------------------------------------------------------------------
(***************************************************************************)
(* The way of a request: queued once, held by one loop, committed by that  *)
(* loop at most once, and settled with what happened.  Its future is open  *)
(* until then: pending, or given up by its caller or by a shutdown.        *)
(***************************************************************************)
Open == {"pending"} \cup Unknown

Queued(r) == \E i \in 1..Len(queue) : queue[i] = r

QueueInv ==
  /\ \A i, j \in 1..Len(queue) : queue[i] = queue[j] => i = j
  /\ \A i \in 1..Len(queue) : answer[queue[i]] \in Open /\ ~Committed(queue[i])

HeldInv ==
  \A g \in Gens :
    /\ proc[g].pc \in ProcBusy => ~Queued(proc[g].req)
    /\ proc[g].pc \in {"read", "save", "recheck"} =>
         answer[proc[g].req] \in Open /\ ~Committed(proc[g].req)
    /\ proc[g].pc = "saved" =>
         answer[proc[g].req] \in Open /\ Committed(proc[g].req)
    /\ proc[g].pc = "publish" => answer[proc[g].req] \in Unknown \cup {"success"}

AnsweredInv ==
  \A r \in Requests :
    /\ Committed(r) => answer[r] \in Open \cup {"success"}
    /\ answer[r] = "success" => Committed(r) \/ NoOp(mutation[r])

FlowInv == QueueInv /\ HeldInv /\ AnsweredInv

\* What has been committed, before and after one more commit.
LEMMA CommitGrows ==
  ASSUME HistoryOK, NEW r \in Requests, commits' = Append(commits, r)
  PROVE  \A s \in Requests : Committed(s)' <=> Committed(s) \/ s = r
<1>1. /\ commits \in Seq(Requests) /\ Len(commits) \in Nat
      /\ Len(commits') = Len(commits) + 1 /\ commits'[Len(commits) + 1] = r
      /\ \A i \in 1..Len(commits) : commits'[i] = commits[i]
  BY DEF HistoryOK
<1>2. \A i \in 1..Len(commits') : i \in 1..Len(commits) \/ i = Len(commits) + 1
  BY <1>1
<1>3. 1..Len(commits) \subseteq 1..Len(commits') /\ Len(commits) + 1 \in 1..Len(commits')
  BY <1>1
<1> QED BY <1>1, <1>2, <1>3 DEF Committed, Store!Committed

\* ... and without one.
LEMMA CommitsStay ==
  ASSUME UNCHANGED commits
  PROVE  \A s \in Requests : Committed(s)' <=> Committed(s)
  BY DEF Committed, Store!Committed

\* The loop that holds a request does something about that one request.
LEMMA FlowMoves ==
  ASSUME EngineInv, FlowInv, NEW g \in Gens, NEW p \in ProcRecord,
         proc[g].pc \in ProcBusy, proc' = [proc EXCEPT ![g] = p],
         UNCHANGED <<queue, mutation>>,
         NEW r, r = proc[g].req,
         p.pc \in ProcBusy => p.req = r,
         \A s \in Requests \ {r} : answer'[s] = answer[s] /\ (Committed(s)' <=> Committed(s)),
         p.pc \in {"read", "save", "recheck"} => answer'[r] \in Open /\ ~Committed(r)',
         p.pc = "saved" => answer'[r] \in Open /\ Committed(r)',
         p.pc = "publish" => answer'[r] \in Unknown \cup {"success"},
         Committed(r)' => answer'[r] \in Open \cup {"success"},
         answer'[r] = "success" => Committed(r)' \/ NoOp(mutation[r])
  PROVE  FlowInv'
<1>a. /\ proc \in [Gens -> ProcRecord] /\ queue \in Seq(Requests)
      /\ r \in Requests
  BY DEF EngineInv, TypeOK, LoopsOK, QueuesOK, HoldsRequest
<1>b. \A h \in Gens : proc[h].pc \in ProcBusy => h = g
  BY DEF EngineInv, WriterInv, ProcBusy, ProcAlive, ProcPC
<1>c. proc'[g] = p /\ \A h \in Gens \ {g} : proc'[h] = proc[h]
  BY <1>a
<1>d. \A h \in Gens : proc'[h].pc \in ProcBusy => h = g
  BY <1>b, <1>c
<1>e. {"read", "save", "recheck", "saved", "publish"} \subseteq ProcBusy
  BY DEF ProcBusy
<1>f. ~Queued(r) /\ (Queued(r)' <=> Queued(r))
  BY DEF FlowInv, HeldInv, Queued
<1>1. QueueInv'
  <2>1. \A i \in 1..Len(queue) : queue[i] \in Requests \ {r}
    BY <1>a, <1>f DEF Queued
  <2> QED BY <2>1 DEF FlowInv, QueueInv
<1>2. HeldInv'
  BY <1>c, <1>d, <1>e, <1>f DEF HeldInv
<1>3. AnsweredInv'
  BY DEF FlowInv, AnsweredInv
<1> QED BY <1>1, <1>2, <1>3 DEF FlowInv

\* A loop with nothing in its hands moves, or one lets go of what it has.
LEMMA FlowLeaves ==
  ASSUME EngineInv, FlowInv, NEW g \in Gens, NEW p, p.pc \notin ProcBusy,
         proc' = [proc EXCEPT ![g] = p], UNCHANGED <<queue, mutation, answer, commits>>
  PROVE  FlowInv'
<1>a. proc \in [Gens -> ProcRecord]
  BY DEF EngineInv, TypeOK, LoopsOK
<1>b. proc'[g] = p /\ \A h \in Gens \ {g} : proc'[h] = proc[h]
  BY <1>a
<1>c. \A h \in Gens : proc'[h].pc \in ProcBusy => h # g
  BY <1>b
<1>1. QueueInv'
  BY DEF FlowInv, QueueInv, Committed, Store!Committed
<1>2. HeldInv'
  BY <1>b, <1>c DEF FlowInv, HeldInv, Queued, ProcBusy, Committed, Store!Committed
<1>3. AnsweredInv'
  BY DEF FlowInv, AnsweredInv, Committed, Store!Committed
<1> QED BY <1>1, <1>2, <1>3 DEF FlowInv

\* Futures are given up and the queue stays, or is emptied.
LEMMA FlowGivesUp ==
  ASSUME EngineInv, FlowInv, UNCHANGED <<mutation, commits>>,
         UNCHANGED proc \/ \E g \in Gens : proc' = [proc EXCEPT ![g].cancelled = TRUE],
         UNCHANGED queue \/ queue' = <<>>,
         \A s \in Requests : \/ answer'[s] = answer[s]
                             \/ answer[s] = "pending" /\ answer'[s] \in Unknown
  PROVE  FlowInv'
<1>a. proc \in [Gens -> ProcRecord] /\ queue \in Seq(Requests)
  BY DEF EngineInv, TypeOK, LoopsOK, QueuesOK
<1>b. \A g \in Gens : proc'[g].pc = proc[g].pc /\ proc'[g].req = proc[g].req
  BY <1>a DEF ProcRecord
<1>c. \A g \in Gens : proc[g].pc \in ProcBusy => proc[g].req \in Requests
  BY DEF EngineInv, HoldsRequest
<1>d. \A s \in Requests : /\ answer[s] \in Open => answer'[s] \in Open
                          /\ answer[s] \in Unknown \cup {"success"} => answer'[s] = answer[s]
                          /\ answer'[s] = "success" => answer[s] = "success"
  BY DEF Open, Unknown
<1>e. \A s : Queued(s)' => Queued(s)
  <2>1. CASE UNCHANGED queue
    BY <2>1 DEF Queued
  <2>2. CASE queue' = <<>>
    <3>1. Len(queue') = 0
      BY <2>2
    <3> QED BY <3>1 DEF Queued
  <2> QED BY <2>1, <2>2
<1>f. \A s \in Requests : Committed(s)' <=> Committed(s)
  BY CommitsStay
<1>1. QueueInv'
  <2>1. CASE UNCHANGED queue
    <3>1. \A i \in 1..Len(queue) : queue[i] \in Requests
      BY <1>a
    <3> QED BY <1>d, <1>f, <2>1, <3>1 DEF FlowInv, QueueInv
  <2>2. CASE queue' = <<>>
    <3>1. Len(queue') = 0
      BY <2>2
    <3> QED BY <3>1 DEF QueueInv
  <2> QED BY <2>1, <2>2
<1>2. HeldInv'
  BY <1>b, <1>c, <1>d, <1>e, <1>f DEF FlowInv, HeldInv, ProcBusy
<1>3. AnsweredInv'
  BY <1>d, <1>f DEF FlowInv, AnsweredInv, Open
<1> QED BY <1>1, <1>2, <1>3 DEF FlowInv

\* Callers, and everything that touches neither requests nor loops.
LEMMA CallersFlow ==
  ASSUME EngineInv, FlowInv,
         \/ UNCHANGED vars
         \/ \E r \in Requests : Submit(r) \/ Abandon(r)
         \/ \E n \in MaxQueueSizes : set_max_queue_size(n)
         \/ \E t \in PlanTasks : FilePlan(t) \/ DropPlan(t)
         \/ BesideQueue
  PROVE  FlowInv'
<1>a. /\ CallsOK /\ queue \in Seq(Requests)
      /\ \A g \in Gens : proc[g].pc \in ProcBusy => proc[g].req \in Requests
  BY DEF EngineInv, TypeOK, QueuesOK, HoldsRequest
<1>1. ASSUME NEW r \in Requests, Submit(r) PROVE FlowInv'
  <2>1. /\ answer[r] = "none" /\ answer \in [Requests -> Answer]
        /\ UNCHANGED <<proc, mutation, commits>>
    BY <1>1, <1>a DEF Submit, loopVars, histVars, CallsOK
  <2>2. "none" \notin Open /\ "none" # "success" /\ "none" \notin Unknown
    BY DEF Open, Unknown
  <2>3. ~Committed(r) /\ \A s \in Requests : Committed(s)' <=> Committed(s)
    BY <2>1, <2>2, CommitsStay DEF FlowInv, AnsweredInv
  <2>4. \A g \in Gens : proc[g].pc \in ProcBusy => proc[g].req # r
    BY <2>1, <2>2 DEF FlowInv, HeldInv, ProcBusy
  <2>5. \A i \in 1..Len(queue) : queue[i] \in Requests \ {r}
    BY <1>a, <2>1, <2>2 DEF FlowInv, QueueInv
  <2>6. /\ \A s \in Requests \ {r} : answer'[s] = answer[s]
        /\ \/ answer'[r] \in Refused /\ UNCHANGED queue
           \/ answer'[r] = "pending" /\ queue' = Append(queue, r)
    BY <1>1, <2>1 DEF Submit, Refused
  <2>7. answer'[r] # "success"
    BY <2>6 DEF Refused
  <2>8. AnsweredInv'
    BY <2>1, <2>3, <2>6, <2>7 DEF FlowInv, AnsweredInv
  <2>9. CASE UNCHANGED queue
    <3>1. QueueInv'
      BY <2>3, <2>5, <2>6, <2>9 DEF FlowInv, QueueInv
    <3>2. HeldInv'
      BY <1>a, <2>1, <2>3, <2>4, <2>6, <2>9 DEF FlowInv, HeldInv, ProcBusy, Queued
    <3> QED BY <2>8, <3>1, <3>2 DEF FlowInv
  <2>10. CASE answer'[r] = "pending" /\ queue' = Append(queue, r)
    <3>1. /\ Len(queue) \in Nat /\ Len(queue') = Len(queue) + 1
          /\ queue'[Len(queue) + 1] = r
          /\ \A i \in 1..Len(queue) : queue'[i] = queue[i]
      BY <1>a, <2>10
    <3>2. \A i \in 1..Len(queue') : i \in 1..Len(queue) \/ i = Len(queue) + 1
      BY <3>1
    <3>3. answer'[r] \in Open
      BY <2>10 DEF Open
    <3>4. \A i, j \in 1..Len(queue') : queue'[i] = queue'[j] => i = j
      BY <2>5, <3>1, <3>2 DEF FlowInv, QueueInv
    <3>5. (\A i \in 1..Len(queue) : answer[queue[i]] \in Open /\ ~Committed(queue[i]))'
      <4> SUFFICES ASSUME NEW i \in 1..Len(queue'), NEW q, q = queue'[i]
                   PROVE  answer'[q] \in Open /\ ~Committed(q)'
        BY DEF Committed, Store!Committed
      <4>1. CASE i \in 1..Len(queue)
        <5>1. q = queue[i] /\ q \in Requests \ {r}
          BY <2>5, <3>1, <4>1
        <5>2. answer[q] \in Open /\ ~Committed(q)
          BY <4>1, <5>1 DEF FlowInv, QueueInv
        <5> QED BY <2>3, <2>6, <5>1, <5>2
      <4>2. CASE i = Len(queue) + 1
        BY <2>3, <3>1, <3>3, <4>2
      <4> QED BY <3>2, <4>1, <4>2
    <3>6. QueueInv'
      BY <3>4, <3>5 DEF QueueInv
    <3>7. \A s \in Requests \ {r} : Queued(s)' => Queued(s)
      BY <3>1, <3>2 DEF Queued
    <3>8. HeldInv'
      BY <1>a, <2>1, <2>3, <2>4, <2>6, <3>7 DEF FlowInv, HeldInv, ProcBusy
    <3> QED BY <2>8, <3>6, <3>8 DEF FlowInv
  <2> QED BY <2>6, <2>9, <2>10
<1>2. ASSUME NEW r \in Requests, Abandon(r) PROVE FlowInv'
  <2>1. UNCHANGED <<proc, mutation, commits, queue>>
    BY <1>2 DEF Abandon, loopVars, queueVars, histVars
  <2>2. \A s \in Requests : \/ answer'[s] = answer[s]
                            \/ answer[s] = "pending" /\ answer'[s] \in Unknown
    BY <1>2, <1>a DEF Abandon, CallsOK, Unknown
  <2> QED BY <2>1, <2>2, FlowGivesUp
<1>3. ASSUME UNCHANGED <<proc, mutation, commits, queue, answer>> PROVE FlowInv'
  BY <1>3, FlowGivesUp
<1> QED BY <1>1, <1>2, <1>3, BesideFrame
        DEF vars, loopVars, queueVars, callVars, histVars, set_max_queue_size, FilePlan,
            DropPlan

\* Settling touches the future of one request, and only if it is waited for.
LEMMA Settles ==
  ASSUME CallsOK, NEW r \in Requests, NEW a, Settle(r, a)
  PROVE  /\ \A s \in Requests \ {r} : answer'[s] = answer[s]
         /\ answer'[r] = IF answer[r] = "pending" THEN a ELSE answer[r]
  BY DEF CallsOK, Settle

\* The loop settles its request with a true answer and lets it go.
LEMMA FlowSettles ==
  ASSUME EngineInv, FlowInv, NEW g \in Gens, NEW p \in ProcRecord, p.pc \notin ProcBusy,
         proc[g].pc \in ProcBusy, proc' = [proc EXCEPT ![g] = p],
         NEW r, r = proc[g].req, NEW a, Settle(r, a), a # "success",
         a \in Unknown \/ ~Committed(r),
         UNCHANGED <<queue, mutation, commits>>
  PROVE  FlowInv'
<1>a. r \in Requests /\ CallsOK /\ answer[r] \in Open \cup {"success"}
  BY DEF EngineInv, TypeOK, HoldsRequest, FlowInv, HeldInv, ProcBusy, Open
<1>1. \A s \in Requests : Committed(s)' <=> Committed(s)
  BY CommitsStay
<1>2. \A s \in Requests \ {r} : answer'[s] = answer[s]
  BY <1>a, Settles
<1>3. answer'[r] = a \/ answer'[r] = answer[r]
  BY <1>a, Settles
<1>4. Committed(r)' => answer'[r] \in Open \cup {"success"}
  BY <1>a, <1>1, <1>3 DEF Open
<1>5. answer'[r] = "success" => Committed(r)' \/ NoOp(mutation[r])
  BY <1>a, <1>1, <1>3 DEF FlowInv, AnsweredInv
<1>6. {"read", "save", "recheck", "saved", "publish"} \subseteq ProcBusy
  BY DEF ProcBusy
<1> QED BY <1>1, <1>2, <1>4, <1>5, <1>6, FlowMoves

\* The processing loop.
LEMMA ProcessingFlow ==
  ASSUME EngineInv, FlowInv, NEW g \in Gens,
         ProcessingStep(g) \/ ProcessingFails(g) \/ ProcessingCritical(g)
  PROVE  FlowInv'
<1>a. /\ proc \in [Gens -> ProcRecord] /\ proc[g] \in ProcRecord
      /\ queue \in Seq(Requests) /\ CallsOK /\ HistoryOK
  BY DEF EngineInv, TypeOK, LoopsOK, QueuesOK
<1>b. PICK r : r = proc[g].req
  OBVIOUS
<1>c. ASSUME proc[g].pc \in ProcBusy PROVE r \in Requests /\ mutation[r] \in Mutation
  <2>1. r \in Requests
    BY <1>b, <1>c DEF EngineInv, HoldsRequest
  <2> QED BY <2>1, <1>a, EngineAssumption DEF CallsOK
<1>d. ASSUME proc[g].pc \in ProcBusy, NEW pc \in {"idle", "done", "dead"},
             proc' = [proc EXCEPT ![g] = [NewProc EXCEPT !.pc = pc]],
             NEW a, Settle(r, a), a # "success",
             a \in Unknown \/ ~Committed(r), UNCHANGED <<queue, mutation, commits>>
      PROVE  FlowInv'
  <2> DEFINE p == [NewProc EXCEPT !.pc = pc]
  <2>1. p \in ProcRecord /\ p.pc \notin ProcBusy
    BY DEF NewProc, ProcRecord, ProcPC, ProcBusy, Row
  <2> HIDE DEF p
  <2> QED BY <1>b, <1>d, <2>1, FlowSettles DEF p
<1>e. ASSUME NEW pc \in {"idle", "done", "dead"},
             proc' = [proc EXCEPT ![g] = [NewProc EXCEPT !.pc = pc]],
             UNCHANGED <<queue, mutation, answer, commits>>
      PROVE  FlowInv'
  <2> DEFINE p == [NewProc EXCEPT !.pc = pc]
  <2>1. p.pc \notin ProcBusy
    BY DEF NewProc, ProcBusy
  <2> HIDE DEF p
  <2> QED BY <1>e, <2>1, FlowLeaves DEF p
<1>f. UNCHANGED commits => \A s \in Requests : Committed(s)' <=> Committed(s)
  BY CommitsStay
<1>g. ASSUME NEW pc \in ProcPC, GoTo(g, pc)
      PROVE  LET p == [proc[g] EXCEPT !.pc = pc]
             IN  /\ p \in ProcRecord /\ p.pc = pc /\ p.req = proc[g].req
                 /\ proc' = [proc EXCEPT ![g] = p]
  BY <1>a, <1>g DEF GoTo, ProcRecord
<1>1. CASE Dequeue(g)
  <2> DEFINE p == [NewProc EXCEPT !.pc = "read", !.req = Head(queue)]
  <2>1. /\ queue # <<>> /\ queue' = Tail(queue) /\ proc' = [proc EXCEPT ![g] = p]
        /\ UNCHANGED <<answer, mutation, commits>>
    BY <1>1 DEF Dequeue, callVars, histVars
  <2>2. p.pc = "read" /\ p.req = Head(queue)
    BY DEF NewProc
  <2> HIDE DEF p
  <2>3. /\ Len(queue) \in Nat \ {0} /\ Head(queue) = queue[1] /\ queue[1] \in Requests
        /\ Len(queue') = Len(queue) - 1
        /\ \A i \in 1..Len(queue') : queue'[i] = queue[i + 1] /\ i + 1 \in 1..Len(queue)
    BY <1>a, <2>1
  <2>4. \A h \in Gens \ {g} : proc'[h] = proc[h]
    BY <1>a, <2>1
  <2>5. proc'[g] = p
    BY <1>a, <2>1
  <2>6. QueueInv'
    BY <2>1, <2>3 DEF FlowInv, QueueInv, Committed, Store!Committed
  <2>7. answer[queue[1]] \in Open /\ ~Committed(queue[1])
    BY <2>3 DEF FlowInv, QueueInv
  <2>8. \A i \in 1..Len(queue') : queue'[i] # queue[1]
    BY <2>3 DEF FlowInv, QueueInv
  <2>9. \A h \in Gens \ {g} : proc[h].pc \notin ProcBusy
    BY <1>1 DEF Dequeue, At, EngineInv, WriterInv, ProcBusy, ProcAlive, ProcPC
  <2>10. HeldInv'
    BY <2>1, <2>2, <2>3, <2>4, <2>5, <2>7, <2>8, <2>9
       DEF HeldInv, Queued, ProcBusy, Committed, Store!Committed
  <2>11. AnsweredInv'
    BY <2>1 DEF FlowInv, AnsweredInv, Committed, Store!Committed
  <2> QED BY <2>6, <2>10, <2>11 DEF FlowInv
<1>2. CASE Read(g)
  <2>1. /\ proc[g].pc = "read" /\ proc[g].pc \in ProcBusy
        /\ UNCHANGED <<queue, mutation, commits>>
    BY <1>2 DEF Read, At, ProcBusy, queueVars, histVars
  <2>2. r \in Requests /\ answer[r] \in Open /\ ~Committed(r)
    BY <1>b, <1>c, <2>1 DEF FlowInv, HeldInv
  <2>3. ASSUME NEW a \in Failures, Settle(r, a), Released(g)
        PROVE  FlowInv'
    <3>1. a # "success"
      BY <2>3 DEF Failures
    <3> QED BY <1>d, <2>1, <2>2, <2>3, <3>1 DEF Released
  <2>4. ASSUME Verdict(mutation[r]) = "unchanged", Settle(r, "success"), GoTo(g, "publish")
        PROVE  FlowInv'
    <3> DEFINE p == [proc[g] EXCEPT !.pc = "publish"]
    <3>1. NoOp(mutation[r])
      BY <2>4 DEF Verdict
    <3>2. /\ p \in ProcRecord /\ p.pc = "publish" /\ p.req = r
          /\ proc' = [proc EXCEPT ![g] = p]
      BY <1>b, <1>g, <2>4 DEF ProcPC
    <3>3. /\ \A s \in Requests \ {r} : answer'[s] = answer[s]
          /\ answer'[r] \in Unknown \cup {"success"}
      BY <1>a, <2>2, <2>4, Settles DEF Open
    <3> HIDE DEF p
    <3> QED BY <1>b, <1>f, <2>1, <2>2, <3>1, <3>2, <3>3, FlowMoves
  <2>5. ASSUME NEW row \in Row, proc' = [proc EXCEPT ![g].pc = "save", ![g].row = row],
               UNCHANGED answer
        PROVE  FlowInv'
    <3> DEFINE p == [proc[g] EXCEPT !.pc = "save", !.row = row]
    <3>1. /\ p \in ProcRecord /\ p.pc = "save" /\ p.req = r
          /\ proc' = [proc EXCEPT ![g] = p]
      BY <1>a, <1>b, <2>5 DEF ProcRecord, ProcPC
    <3>2. answer[r] # "success"
      BY <2>2 DEF Open, Unknown
    <3> HIDE DEF p
    <3> QED BY <1>b, <1>f, <2>1, <2>2, <2>5, <3>1, <3>2, FlowMoves
  <2>6. Verdict(mutation[r]) = "write" => Written(mutation[r], rows[mutation[r].task]) \in Row
    <3>1. mutation[r] \in Mutation /\ rows[mutation[r].task] \in Row
      BY <1>c, <2>1 DEF EngineInv, TypeOK, StoreOK, Mutation
    <3>2. Verdict(mutation[r]) = "write" =>
            (mutation[r].kind \notin {"create", "delete"} => rows[mutation[r].task] # NoTask)
      BY DEF Verdict
    <3> QED BY <3>1, <3>2, WrittenType
  <2> QED BY <1>2, <1>b, <2>3, <2>4, <2>5, <2>6 DEF Read
<1>3. CASE Commit(g)
  <2> DEFINE p == [proc[g] EXCEPT !.pc = "saved"]
  <2>1. /\ proc[g].pc = "save" /\ proc[g].pc \in ProcBusy
        /\ UNCHANGED <<queue, mutation, answer>> /\ commits' = Append(commits, r)
    BY <1>3, <1>b DEF Commit, At, ProcBusy, queueVars, callVars
  <2>2. r \in Requests /\ answer[r] \in Open
    BY <1>b, <1>c, <2>1 DEF FlowInv, HeldInv
  <2>3. \A s \in Requests : Committed(s)' <=> Committed(s) \/ s = r
    BY <1>a, <2>1, <2>2, CommitGrows
  <2>4. /\ p \in ProcRecord /\ p.pc = "saved" /\ p.req = r
        /\ proc' = [proc EXCEPT ![g] = p]
    BY <1>3, <1>b, <1>g DEF Commit, ProcPC
  <2> HIDE DEF p
  <2> QED BY <1>b, <2>1, <2>2, <2>3, <2>4, FlowMoves
<1>4. CASE NothingDeleted(g)
  <2>1. /\ proc[g].pc = "save" /\ proc[g].pc \in ProcBusy
        /\ UNCHANGED <<queue, mutation, commits>>
    BY <1>4 DEF NothingDeleted, At, ProcBusy, queueVars, histVars
  <2>2. ~Committed(r)
    BY <1>b, <2>1 DEF FlowInv, HeldInv
  <2> QED BY <1>4, <1>b, <1>d, <2>1, <2>2 DEF NothingDeleted, Released
<1>5. CASE DeleteRestricted(g)
  <2> DEFINE p == [proc[g] EXCEPT !.pc = "recheck"]
  <2>1. /\ proc[g].pc = "save" /\ proc[g].pc \in ProcBusy
        /\ UNCHANGED <<queue, mutation, answer, commits>>
    BY <1>5 DEF DeleteRestricted, At, ProcBusy, queueVars, callVars, histVars
  <2>2. r \in Requests /\ answer[r] \in Open /\ ~Committed(r) /\ answer[r] # "success"
    BY <1>b, <1>c, <2>1 DEF FlowInv, HeldInv, Open, Unknown
  <2>3. /\ p \in ProcRecord /\ p.pc = "recheck" /\ p.req = r
        /\ proc' = [proc EXCEPT ![g] = p]
    BY <1>5, <1>b, <1>g DEF DeleteRestricted, ProcPC
  <2> HIDE DEF p
  <2> QED BY <1>b, <1>f, <2>1, <2>2, <2>3, FlowMoves
<1>6. CASE Recheck(g)
  <2> DEFINE a == IF mutation[r].task \in plans THEN "parent_of_plan" ELSE "internal"
  <2>1. /\ proc[g].pc = "recheck" /\ proc[g].pc \in ProcBusy
        /\ UNCHANGED <<queue, mutation, commits>> /\ Settle(r, a) /\ a # "success"
    BY <1>6, <1>b DEF Recheck, At, ProcBusy, queueVars, histVars
  <2>2. ~Committed(r)
    BY <1>b, <2>1 DEF FlowInv, HeldInv
  <2> HIDE DEF a
  <2> QED BY <1>6, <1>d, <2>1, <2>2 DEF Recheck, Released
<1>7. CASE Finish(g)
  <2> DEFINE p == [proc[g] EXCEPT !.pc = "publish"]
  <2>1. /\ proc[g].pc = "saved" /\ proc[g].pc \in ProcBusy /\ Settle(r, "success")
        /\ UNCHANGED <<queue, mutation, commits>>
    BY <1>7, <1>b DEF Finish, At, ProcBusy, queueVars, histVars
  <2>2. r \in Requests /\ answer[r] \in Open /\ Committed(r)
    BY <1>b, <1>c, <2>1 DEF FlowInv, HeldInv
  <2>3. /\ \A s \in Requests \ {r} : answer'[s] = answer[s]
        /\ answer'[r] \in Unknown \cup {"success"}
    BY <1>a, <2>1, <2>2, Settles DEF Open
  <2>4. /\ p \in ProcRecord /\ p.pc = "publish" /\ p.req = r
        /\ proc' = [proc EXCEPT ![g] = p]
    BY <1>7, <1>b, <1>g DEF Finish, ProcPC
  <2>5. answer'[r] \in Open \cup {"success"}
    BY <2>3 DEF Open
  <2> HIDE DEF p
  <2> QED BY <1>b, <1>f, <2>1, <2>2, <2>3, <2>4, <2>5, FlowMoves
<1>8. CASE Publish(g)
  BY <1>8, <1>e DEF Publish, Released, callVars, histVars
<1>9. CASE ProcessingCancelled(g)
  BY <1>9, <1>e DEF ProcessingCancelled, queueVars, callVars, histVars
<1>10. CASE ProcessingExits(g)
  <2> DEFINE p == [proc[g] EXCEPT !.pc = "done"]
  <2>1. p.pc \notin ProcBusy /\ proc' = [proc EXCEPT ![g] = p]
    BY <1>10, <1>g DEF ProcessingExits, ProcPC, ProcBusy
  <2> HIDE DEF p
  <2> QED BY <1>10, <2>1, FlowLeaves DEF ProcessingExits, queueVars, callVars, histVars
<1>11. CASE ProcessingFails(g)
  <2>1. proc[g].pc \in ProcBusy /\ "internal" \in Unknown
    BY <1>11 DEF ProcessingFails, At, ProcBusy, Unknown
  <2> QED BY <1>11, <1>b, <1>d, <2>1 DEF ProcessingFails, Released, queueVars, histVars
<1>12. CASE ProcessingCritical(g)
  <2>1. proc[g].pc \in ProcBusy /\ "critical" \in Unknown
    BY <1>12 DEF ProcessingCritical, Unknown
  <2> QED BY <1>12, <1>b, <1>d, <2>1 DEF ProcessingCritical, queueVars, histVars
<1> QED BY <1>1, <1>2, <1>3, <1>4, <1>5, <1>6, <1>7, <1>8, <1>9, <1>10, <1>11, <1>12
        DEF ProcessingStep

\* start(), stop() and the observer loop.
LEMMA LifecycleFlow ==
  ASSUME EngineInv, FlowInv,
         \/ \E g \in Gens : ObserverStep(g) \/ ObserverCritical(g)
         \/ Start \/ Stop \/ StopStep
         \/ ProcessingDrainTimeout \/ ObserverDrainTimeout \/ StopAborted
  PROVE  FlowInv'
<1>a. CallsOK
  BY DEF EngineInv, TypeOK
<1>1. ASSUME NEW saved, FailRemaining(saved), UNCHANGED <<mutation, commits, proc>>
      PROVE  FlowInv'
  <2>1. \A s \in Requests : \/ answer'[s] = answer[s]
                            \/ answer[s] = "pending" /\ answer'[s] \in Unknown
    BY <1>1 DEF FailRemaining, Unknown
  <2>2. queue' = <<>>
    BY <1>1 DEF FailRemaining
  <2> QED BY <1>1, <2>1, <2>2, FlowGivesUp
<1>2. ASSUME UNCHANGED <<proc, mutation, commits, queue, answer>> PROVE FlowInv'
  BY <1>2, FlowGivesUp
<1>3. CASE ProcessingFoundDead \/ ProcessingUnwound
  BY <1>1, <1>3 DEF ProcessingFoundDead, ProcessingUnwound, histVars
<1>4. CASE StopAborted
  BY <1>1, <1>2, <1>4 DEF StopAborted, histVars
<1>5. CASE ProcessingDrainTimeout
  <2>1. stop_pc \in {"drain_proc"}
    BY <1>5 DEF ProcessingDrainTimeout
  <2>2. processing_task \in Gens
    BY <2>1 DEF EngineInv, WriterInv
  <2> QED BY <1>5, <2>2, FlowGivesUp DEF ProcessingDrainTimeout, queueVars, callVars, histVars
<1>6. CASE Start
  <2> DEFINE p == [NewProc EXCEPT !.pc = "idle"]
  <2>1. gen + 1 \in Gens
    BY <1>6, EngineAssumption DEF Start, EngineInv, TypeOK, LifeOK, Gens
  <2>2. p.pc \notin ProcBusy /\ proc' = [proc EXCEPT ![gen + 1] = p]
    BY <1>6 DEF Start, NewProc, ProcBusy
  <2> HIDE DEF p
  <2>3. UNCHANGED <<queue, mutation, answer, commits>>
    BY <1>6 DEF Start, queueVars, callVars, histVars
  <2> QED BY <2>1, <2>2, <2>3, FlowLeaves
<1> QED BY <1>2, <1>3, <1>4, <1>5, <1>6
        DEF ObserverStep, ObserverGets, ObserverNotified, ObserverCancelled,
            ObserverCritical, Stop, StopStep, ProcessingDrained, SendSentinel,
            ObserverDrained, ObserverDrainTimeout, loopVars, queueVars, callVars, histVars

\* No step of the engine disturbs the way of a request.
LEMMA FlowNext == EngineInv /\ FlowInv /\ [Next]_vars => FlowInv'
<1> SUFFICES ASSUME EngineInv, FlowInv, [Next]_vars PROVE FlowInv'
  OBVIOUS
<1> QED BY CallersFlow, ProcessingFlow, LifecycleFlow DEF Next

\* So it is kept in every state.
LEMMA FlowAlways == Spec => []FlowInv
<1>1. Init => FlowInv
  <2> SUFFICES ASSUME Init PROVE FlowInv
    OBVIOUS
  <2>1. Len(queue) = 0 /\ Len(commits) = 0
    BY DEF Init
  <2>2. \A g \in Gens : proc[g].pc = "off"
    BY DEF Init, NewProc
  <2>3. QueueInv /\ AnsweredInv
    BY <2>1 DEF Init, QueueInv, AnsweredInv, Committed, Store!Committed
  <2>4. HeldInv
    BY <2>2 DEF HeldInv, ProcBusy
  <2> QED BY <2>3, <2>4 DEF FlowInv
<1> QED BY <1>1, FlowNext, InvAlways, PTL DEF Spec

\* What submit() reports is true: a success was committed or had nothing to
\* write, and a refusal was not committed and never will be.
THEOREM AnswersTrue == Spec => []AnswerTellsTruth
<1>1. FlowInv => AnswerTellsTruth
  BY DEF FlowInv, AnsweredInv, AnswerTellsTruth, Open, Unknown, Refused, Failures
<1> QED BY <1>1, FlowAlways, PTL

-----------------------------------------------------------------------------
(***************************************************************************)
(* The futures.  A caller that still waits is found by stop(): its request *)
(* is queued, or in _in_flight, or was there when the drain timed out and  *)
(* the loop's finally clause has cleared it since.  A loop is cancelled    *)
(* only while stop() waits for it to unwind, so it has left nobody behind  *)
(* when it ends by itself, and once stop() is past it nobody waits.        *)
(***************************************************************************)
NobodyWaits == \A r \in Requests : answer[r] # "pending"

FlightInv ==
  /\ in_flight # NoRequest =>
       \E g \in Gens : proc[g].pc \in ProcBusy /\ proc[g].req = in_flight
  /\ \A g \in Gens : proc[g].pc \in ProcAlive =>
       (proc[g].cancelled <=> stop_pc = "cancel_proc")
  /\ stop_pc = "cancel_proc" => in_flight \in {saved_in_flight, NoRequest}

WaitingInv ==
  /\ \A r \in Requests : answer[r] = "pending" =>
       \/ Queued(r)
       \/ in_flight = r
       \/ stop_pc = "cancel_proc" /\ saved_in_flight = r
  /\ running => proc[gen].pc # "done"
  /\ stop_pc = "drain_proc" /\ proc[gen].pc = "done" => NobodyWaits
  /\ ~running /\ stop_pc \notin {"drain_proc", "cancel_proc"} => NobodyWaits

FutureInv == FlightInv /\ WaitingInv

\* What the living loop may do to the futures: hold on to the request it is
\* at, settle it before letting it go, or leave it to the stop() that saved it.
LEMMA FutureMoves ==
  ASSUME EngineInv, FutureInv, NEW g \in Gens, NEW p \in ProcRecord,
         proc[g].pc \in ProcAlive,
         proc' = [proc EXCEPT ![g] = p],
         UNCHANGED lifeVars,
         p.pc \in ProcAlive => p.cancelled = proc[g].cancelled,
         in_flight' # NoRequest => p.pc \in ProcBusy /\ p.req = in_flight',
         stop_pc = "cancel_proc" => in_flight' \in {saved_in_flight, NoRequest},
         \A r \in Requests : answer'[r] = "pending" =>
           /\ answer[r] = "pending"
           /\ \/ Queued(r)'
              \/ in_flight' = r
              \/ stop_pc = "cancel_proc" /\ saved_in_flight = r,
         p.pc = "done" => ~running,
         p.pc = "done" /\ stop_pc = "drain_proc" => NobodyWaits'
  PROVE  FutureInv'
<1>a. proc \in [Gens -> ProcRecord] /\ g = gen
  BY DEF EngineInv, TypeOK, LoopsOK, WriterInv
<1>b. proc'[g] = p /\ \A h \in Gens \ {g} : proc'[h] = proc[h]
  BY <1>a
<1>c. UNCHANGED <<running, stop_pc, saved_in_flight, gen>>
  BY DEF lifeVars
<1>1. FlightInv'
  <2>1. in_flight' # NoRequest =>
          \E h \in Gens : proc'[h].pc \in ProcBusy /\ proc'[h].req = in_flight'
    BY <1>b
  <2>2. \A h \in Gens : proc'[h].pc \in ProcAlive =>
          (proc'[h].cancelled <=> stop_pc' = "cancel_proc")
    BY <1>b, <1>c DEF FutureInv, FlightInv
  <2> QED BY <1>c, <2>1, <2>2 DEF FlightInv
<1>2. WaitingInv'
  <2>1. NobodyWaits => NobodyWaits'
    BY DEF NobodyWaits
  <2>2. running' => proc'[gen'].pc # "done"
    BY <1>a, <1>b, <1>c
  <2>3. stop_pc' = "drain_proc" /\ proc'[gen'].pc = "done" => NobodyWaits'
    BY <1>a, <1>b, <1>c
  <2>4. ~running' /\ stop_pc' \notin {"drain_proc", "cancel_proc"} => NobodyWaits'
    BY <1>c, <2>1 DEF FutureInv, WaitingInv
  <2>5. \A r \in Requests : answer'[r] = "pending" =>
          \/ Queued(r)'
          \/ in_flight' = r
          \/ stop_pc' = "cancel_proc" /\ saved_in_flight' = r
    BY <1>c
  <2> QED BY <2>2, <2>3, <2>4, <2>5 DEF WaitingInv
<1> QED BY <1>1, <1>2 DEF FutureInv

\* A settled future is waited for no longer, the others are as before.
LEMMA SettleEnds ==
  ASSUME CallsOK, NEW r \in Requests, NEW a, a # "pending", Settle(r, a)
  PROVE  \A s \in Requests : answer'[s] = "pending" => answer[s] = "pending" /\ s # r
  BY DEF CallsOK, Settle

\* The loop settles the future of its request and goes back to the queue, or
\* dies.
LEMMA SettledAndGone ==
  ASSUME EngineInv, FutureInv, NEW g \in Gens, NEW pc \in {"idle", "dead"}, NEW a,
         a # "pending", proc[g].pc \in ProcBusy, ~proc[g].cancelled,
         \/ Settle(proc[g].req, a)
         \/ answer[proc[g].req] # "pending" /\ UNCHANGED answer,
         proc' = [proc EXCEPT ![g] = [NewProc EXCEPT !.pc = pc]],
         in_flight' = NoRequest,
         UNCHANGED <<lifeVars, queue>>
  PROVE  FutureInv'
<1> DEFINE p == [NewProc EXCEPT !.pc = pc]
           r == proc[g].req
<1>a. CallsOK /\ r \in Requests /\ g = gen /\ proc[g].pc \in ProcAlive
  BY DEF EngineInv, TypeOK, HoldsRequest, WriterInv, ProcAlive, ProcBusy, ProcPC
<1>1. p \in ProcRecord /\ p.pc = pc /\ p.cancelled = FALSE
  BY DEF NewProc, ProcRecord, ProcPC, Row
<1>2. \A s \in Requests : answer'[s] = "pending" => answer[s] = "pending" /\ s # r
  BY <1>a, SettleEnds
<1>3. in_flight \in {r, NoRequest}
  <2>1. \A h \in Gens : proc[h].pc \in ProcBusy => h = g
    BY <1>a DEF EngineInv, WriterInv, ProcAlive, ProcBusy, ProcPC
  <2> QED BY <2>1 DEF FutureInv, FlightInv
<1>4. stop_pc # "cancel_proc"
  BY <1>a DEF FutureInv, FlightInv
<1>5. \A s \in Requests : answer'[s] = "pending" => answer[s] = "pending" /\ Queued(s)'
  <2>1. \A s \in Requests : Queued(s)' <=> Queued(s)
    BY DEF Queued
  <2> QED BY <1>2, <1>3, <1>4, <2>1, EngineAssumption DEF FutureInv, WaitingInv
<1>6. p.pc # "done" /\ (p.pc \in ProcAlive => p.cancelled = proc[g].cancelled)
  <2>1. proc[g].cancelled = FALSE
    BY DEF EngineInv, TypeOK, LoopsOK, ProcRecord
  <2> QED BY <1>1, <2>1
<1> HIDE DEF p
<1> QED BY <1>a, <1>1, <1>4, <1>5, <1>6, FutureMoves DEF p

\* The loop moves on with its request.
LEMMA FutureGoesOn ==
  ASSUME EngineInv, FutureInv, NEW g \in Gens, NEW p \in ProcRecord,
         proc[g].pc \in ProcBusy, p.pc \in ProcBusy, p.req = proc[g].req,
         p.cancelled = proc[g].cancelled,
         proc' = [proc EXCEPT ![g] = p],
         \A s \in Requests : answer'[s] = "pending" => answer[s] = "pending",
         UNCHANGED <<lifeVars, queue, in_flight>>
  PROVE  FutureInv'
<1>a. g = gen /\ proc[g].pc \in ProcAlive /\ p.pc # "done"
  BY DEF EngineInv, WriterInv, ProcAlive, ProcBusy, ProcPC
<1>1. in_flight # NoRequest => proc[g].req = in_flight
  <2>1. \A h \in Gens : proc[h].pc \in ProcBusy => h = g
    BY <1>a DEF EngineInv, WriterInv, ProcAlive, ProcBusy, ProcPC
  <2> QED BY <2>1 DEF FutureInv, FlightInv
<1>2. \A s \in Requests : Queued(s)' <=> Queued(s)
  BY DEF Queued
<1> QED BY <1>a, <1>1, <1>2, FutureMoves DEF FutureInv, FlightInv, WaitingInv

\* No step of a processing loop strands a caller.
LEMMA ProcessingFutures ==
  ASSUME EngineInv, FlowInv, FutureInv, NEW g \in Gens,
         ProcessingStep(g) \/ ProcessingFails(g) \/ ProcessingCritical(g)
  PROVE  FutureInv'
<1> DEFINE r == proc[g].req
           m == mutation[r]
<1>a. /\ proc \in [Gens -> ProcRecord] /\ proc[g] \in ProcRecord
      /\ queue \in Seq(Requests) /\ CallsOK
  BY DEF EngineInv, TypeOK, LoopsOK, QueuesOK
<1>b. proc[g].pc \in ProcBusy => r \in Requests
  BY DEF EngineInv, HoldsRequest
<1>c. ASSUME proc[g].pc \in ProcBusy, NEW pc \in ProcBusy, GoTo(g, pc),
             UNCHANGED <<lifeVars, queue, in_flight>>,
             \A s \in Requests : answer'[s] = "pending" => answer[s] = "pending"
      PROVE  FutureInv'
  <2> DEFINE p == [proc[g] EXCEPT !.pc = pc]
  <2>1. /\ p \in ProcRecord /\ p.pc = pc /\ p.req = r
        /\ p.cancelled = proc[g].cancelled
    BY <1>a DEF ProcRecord, ProcBusy, ProcPC
  <2>2. proc' = [proc EXCEPT ![g] = p]
    BY <1>c DEF GoTo
  <2> HIDE DEF p
  <2> QED BY <1>c, <2>1, <2>2, FutureGoesOn
<1>d. ASSUME proc[g].pc \in ProcBusy, NEW a, a # "pending", Settle(r, a)
      PROVE  \A s \in Requests : answer'[s] = "pending" => answer[s] = "pending"
  BY <1>a, <1>b, <1>d, SettleEnds
<1>e. ASSUME \E pc \in ProcBusy : At(g, pc), NEW a, a # "pending", Settle(r, a), Released(g),
             UNCHANGED <<lifeVars, queue>>
      PROVE  FutureInv'
  <2>1. proc[g].pc \in ProcBusy /\ ~proc[g].cancelled
    BY <1>e DEF At
  <2> QED BY <1>e, <2>1, SettledAndGone DEF Released
<1>1. CASE Dequeue(g)
  <2> DEFINE p == [NewProc EXCEPT !.pc = "read", !.req = Head(queue)]
  <2>1. Head(queue) \in Requests /\ Len(queue) \in Nat \ {0}
    BY <1>1, <1>a DEF Dequeue
  <2>2. /\ p \in ProcRecord /\ p.pc = "read" /\ p.req = Head(queue)
        /\ p.cancelled = FALSE
    BY <2>1 DEF NewProc, ProcRecord, ProcPC, Row
  <2>3. proc[g].pc \in ProcAlive /\ proc[g].cancelled = FALSE
    BY <1>1, <1>a DEF Dequeue, At, ProcAlive, ProcPC, ProcRecord
  <2>4. stop_pc # "cancel_proc"
    BY <2>3 DEF FutureInv, FlightInv
  <2>5. in_flight = NoRequest
    <3>1. g = gen /\ proc[g].pc \notin ProcBusy
      BY <1>1, <2>3 DEF EngineInv, WriterInv, Dequeue, At, ProcBusy
    <3>2. \A h \in Gens : proc[h].pc \notin ProcBusy
      BY <3>1 DEF EngineInv, WriterInv, ProcBusy, ProcAlive, ProcPC
    <3> QED BY <3>2 DEF FutureInv, FlightInv
  <2>6. \A s \in Requests : Queued(s) => Queued(s)' \/ Head(queue) = s
    <3> SUFFICES ASSUME NEW s \in Requests, NEW i \in 1..Len(queue), queue[i] = s,
                        Head(queue) # s
                 PROVE  Queued(s)'
      BY DEF Queued
    <3>1. Head(queue) = queue[1] /\ i # 1
      BY <2>1, <1>a
    <3>2. queue' = Tail(queue) /\ Len(queue') = Len(queue) - 1
      BY <1>1, <1>a DEF Dequeue
    <3>3. i - 1 \in 1..Len(queue') /\ queue'[i - 1] = queue[i]
      BY <2>1, <3>1, <3>2, <1>a
    <3> QED BY <3>3 DEF Queued
  <2>7. \A s \in Requests : answer'[s] = "pending" =>
          answer[s] = "pending" /\ (Queued(s)' \/ in_flight' = s)
    BY <1>1, <2>4, <2>5, <2>6, EngineAssumption
       DEF Dequeue, callVars, FutureInv, WaitingInv
  <2>8. proc' = [proc EXCEPT ![g] = p] /\ in_flight' = Head(queue) /\ UNCHANGED lifeVars
    BY <1>1 DEF Dequeue
  <2>9. p.pc \in ProcBusy /\ p.pc # "done"
    BY <2>2 DEF ProcBusy
  <2> HIDE DEF p
  <2> QED BY <2>2, <2>3, <2>4, <2>7, <2>8, <2>9, FutureMoves
<1>2. CASE Read(g)
  <2>1. At(g, "read") /\ proc[g].pc \in ProcBusy /\ UNCHANGED <<lifeVars, queue>>
    BY <1>2 DEF Read, At, ProcBusy, queueVars
  <2>2. ASSUME Verdict(m) \in Failures, Settle(r, Verdict(m)), Released(g)
        PROVE  FutureInv'
    <3>1. Verdict(m) # "pending"
      BY <2>2 DEF Failures
    <3> QED BY <1>e, <2>1, <2>2, <3>1 DEF ProcBusy
  <2>3. ASSUME Settle(r, "success"), GoTo(g, "publish"), UNCHANGED in_flight
        PROVE  FutureInv'
    BY <1>c, <1>d, <2>1, <2>3 DEF ProcBusy
  <2>4. ASSUME Verdict(m) = "write",
               proc' = [proc EXCEPT ![g].pc = "save",
                                    ![g].row = Written(m, rows[m.task])],
               UNCHANGED <<answer, in_flight>>
        PROVE  FutureInv'
    <3> DEFINE p == [proc[g] EXCEPT !.pc = "save", !.row = Written(m, rows[m.task])]
    <3>0. m \in Mutation
      BY <1>a, <1>b, <2>1, EngineAssumption DEF CallsOK
    <3>1. Written(m, rows[m.task]) \in Row
      <4>1. rows[m.task] \in Row
        BY <3>0 DEF EngineInv, TypeOK, StoreOK, Mutation
      <4>2. m.kind \notin {"create", "delete"} => rows[m.task] # NoTask
        BY <2>4 DEF Verdict
      <4> QED BY <3>0, <4>1, <4>2, WrittenType
    <3>2. /\ p \in ProcRecord /\ p.pc = "save" /\ p.req = r
          /\ p.cancelled = proc[g].cancelled
      BY <1>a, <3>1 DEF ProcRecord, ProcPC
    <3>3. proc' = [proc EXCEPT ![g] = p] /\ p.pc \in ProcBusy
      BY <1>a, <2>4, <3>2 DEF ProcBusy
    <3> HIDE DEF p
    <3> QED BY <2>1, <2>4, <3>2, <3>3, FutureGoesOn
  <2> QED BY <1>2, <2>2, <2>3, <2>4 DEF Read
<1>3. CASE Commit(g) \/ DeleteRestricted(g)
  <2>1. /\ proc[g].pc \in ProcBusy /\ UNCHANGED <<lifeVars, queue, in_flight, answer>>
        /\ GoTo(g, "saved") \/ GoTo(g, "recheck")
    BY <1>3 DEF Commit, DeleteRestricted, At, ProcBusy, queueVars, callVars
  <2> QED BY <1>c, <2>1 DEF ProcBusy
<1>4. CASE NothingDeleted(g)
  BY <1>e, <1>4 DEF NothingDeleted, queueVars, ProcBusy
<1>5. CASE Recheck(g)
  <2> DEFINE a == IF mutation[r].task \in plans THEN "parent_of_plan" ELSE "internal"
  <2>1. a # "pending" /\ Settle(r, a)
    BY <1>5 DEF Recheck
  <2> HIDE DEF a
  <2> QED BY <1>e, <1>5, <2>1 DEF Recheck, queueVars, ProcBusy
<1>6. CASE Finish(g)
  BY <1>c, <1>d, <1>6 DEF Finish, At, queueVars, ProcBusy
<1>7. CASE Publish(g)
  <2>1. /\ proc[g].pc = "publish" /\ proc[g].pc \in ProcBusy /\ ~proc[g].cancelled
        /\ UNCHANGED <<lifeVars, queue, answer>> /\ Released(g)
    BY <1>7 DEF Publish, At, ProcBusy, callVars
  <2>2. answer[r] # "pending"
    BY <2>1 DEF FlowInv, HeldInv, Unknown
  <2> QED BY <2>1, <2>2, SettledAndGone DEF Released
<1>8. CASE ProcessingCancelled(g)
  <2> DEFINE p == [NewProc EXCEPT !.pc = "done"]
  <2>1. p \in ProcRecord /\ p.pc = "done"
    BY DEF NewProc, ProcRecord, ProcPC, Row
  <2>2. /\ proc[g].cancelled /\ proc[g].pc \in ProcAlive
        /\ proc' = [proc EXCEPT ![g] = p] /\ UNCHANGED <<lifeVars, queue, answer>>
    BY <1>8 DEF ProcessingCancelled, queueVars, callVars
  <2>3. stop_pc = "cancel_proc" /\ g = gen
    BY <2>2 DEF FutureInv, FlightInv, EngineInv, WriterInv
  <2>4. in_flight \in {saved_in_flight, NoRequest} /\ ~running
    BY <2>3 DEF FutureInv, FlightInv, EngineInv, WriterInv
  <2>5. in_flight' = NoRequest
    <3>1. CASE proc[g].pc = "idle"
      <4>1. \A h \in Gens : proc[h].pc \notin ProcBusy
        BY <2>3, <3>1 DEF EngineInv, WriterInv, ProcBusy, ProcAlive, ProcPC
      <4> QED BY <1>8, <3>1, <4>1 DEF ProcessingCancelled, FutureInv, FlightInv
    <3>2. CASE proc[g].pc # "idle"
      BY <1>8, <3>2 DEF ProcessingCancelled
    <3> QED BY <3>1, <3>2
  <2>6. \A s \in Requests : Queued(s)' <=> Queued(s)
    BY <2>2 DEF Queued
  <2>7. \A s \in Requests : answer'[s] = "pending" =>
          answer[s] = "pending" /\ (Queued(s)' \/ saved_in_flight = s)
    BY <2>2, <2>4, <2>6, EngineAssumption DEF FutureInv, WaitingInv
  <2>8. p.pc \notin ProcAlive
    BY <2>1 DEF ProcAlive
  <2> HIDE DEF p
  <2> QED BY <2>1, <2>2, <2>3, <2>4, <2>5, <2>7, <2>8, FutureMoves
<1>9. CASE ProcessingExits(g)
  <2> DEFINE p == [proc[g] EXCEPT !.pc = "done"]
  <2>1. p \in ProcRecord /\ p.pc = "done" /\ p.pc \notin ProcAlive
    BY <1>a DEF ProcRecord, ProcPC, ProcAlive
  <2>2. /\ proc[g].pc \in ProcAlive /\ ~proc[g].cancelled /\ ~running /\ queue = <<>>
        /\ proc' = [proc EXCEPT ![g] = p] /\ UNCHANGED <<lifeVars, queue, answer, in_flight>>
    BY <1>9 DEF ProcessingExits, At, GoTo, ProcAlive, ProcPC, queueVars, callVars
  <2>3. stop_pc # "cancel_proc" /\ g = gen
    BY <2>2 DEF FutureInv, FlightInv, EngineInv, WriterInv
  <2>4. in_flight = NoRequest
    <3>1. \A h \in Gens : proc[h].pc \notin ProcBusy
      BY <1>9, <2>3 DEF ProcessingExits, At, EngineInv, WriterInv, ProcBusy, ProcAlive, ProcPC
    <3> QED BY <3>1 DEF FutureInv, FlightInv
  <2>5. \A s \in Requests : ~Queued(s)
    <3>1. Len(queue) = 0
      BY <2>2
    <3> QED BY <3>1 DEF Queued
  <2>6. NobodyWaits
    BY <2>3, <2>4, <2>5, EngineAssumption DEF FutureInv, WaitingInv, NobodyWaits
  <2>7. NobodyWaits'
    BY <2>2, <2>6 DEF NobodyWaits
  <2> HIDE DEF p
  <2> QED BY <2>1, <2>2, <2>3, <2>4, <2>6, <2>7, FutureMoves DEF NobodyWaits
<1>10. CASE ProcessingFails(g)
  <2>1. \E pc \in ProcBusy : At(g, pc)
    BY <1>10 DEF ProcessingFails, ProcBusy
  <2> QED BY <1>e, <1>10, <2>1 DEF ProcessingFails, queueVars
<1>11. CASE ProcessingCritical(g)
  BY <1>11, SettledAndGone DEF ProcessingCritical, queueVars
<1> QED BY <1>1, <1>2, <1>3, <1>4, <1>5, <1>6, <1>7, <1>8, <1>9, <1>10, <1>11
        DEF ProcessingStep

\* start(), stop() and the observer loop: whoever is still waiting when a
\* processing loop is given up or found gone is told.
LEMMA LifecycleFutures ==
  ASSUME EngineInv, FutureInv,
         \/ Start \/ Stop \/ StopStep
         \/ ProcessingDrainTimeout \/ ObserverDrainTimeout \/ StopAborted
  PROVE  FutureInv'
<1>a. /\ proc \in [Gens -> ProcRecord] /\ queue \in Seq(Requests) /\ CallsOK
      /\ in_flight \in Requests \cup {NoRequest}
      /\ NoRequest \notin Requests
  BY EngineAssumption DEF EngineInv, TypeOK, LoopsOK, QueuesOK
<1>b. ASSUME NEW saved, FailRemaining(saved),
             \A r \in Requests : answer[r] = "pending" =>
               Queued(r) \/ r = (IF saved # NoRequest THEN saved ELSE in_flight)
      PROVE  NobodyWaits' /\ in_flight' = NoRequest
  BY <1>b DEF FailRemaining, NobodyWaits, Queued
<1>c. \A r \in Requests : Queued(r)' <=> \E i \in 1..Len(queue') : queue'[i] = r
  BY DEF Queued
<1>d. stop_pc = "drain_proc" => \A r \in Requests : answer[r] = "pending" =>
        Queued(r) \/ r = (IF in_flight # NoRequest THEN in_flight ELSE in_flight)
  BY DEF FutureInv, WaitingInv
<1>1. CASE Start
  <2>1. /\ stop_pc = "out" /\ ~running /\ NoWriter /\ gen + 1 \in Gens
        /\ stop_pc' = "out" /\ running' /\ gen' = gen + 1
        /\ UNCHANGED <<in_flight, answer, queue, saved_in_flight>>
    BY <1>1, EngineAssumption
       DEF Start, EngineInv, TypeOK, LifeOK, WriterInv, Gens, queueVars, callVars
  <2>2. NobodyWaits
    BY <2>1 DEF FutureInv, WaitingInv
  <2>3. in_flight = NoRequest
    BY <2>1 DEF FutureInv, FlightInv, NoWriter, ProcBusy, ProcAlive, ProcPC
  <2>4. /\ proc'[gen + 1].pc = "idle" /\ proc'[gen + 1].cancelled = FALSE
        /\ \A g \in Gens \ {gen + 1} : proc'[g] = proc[g]
    BY <1>1, <1>a, <2>1 DEF Start, NewProc
  <2>5. FlightInv'
    BY <2>1, <2>3, <2>4 DEF FlightInv, NoWriter
  <2>6. WaitingInv'
    BY <2>1, <2>2, <2>4 DEF WaitingInv, NobodyWaits
  <2> QED BY <2>5, <2>6 DEF FutureInv
<1>2. CASE Stop
  <2>1. /\ stop_pc = "out" /\ running /\ stop_pc' = "drain_proc" /\ ~running'
        /\ UNCHANGED <<in_flight, answer, queue, saved_in_flight, proc, gen>>
    BY <1>2 DEF Stop, loopVars, queueVars, callVars
  <2>2. FlightInv'
    BY <2>1 DEF FutureInv, FlightInv
  <2>3. WaitingInv'
    BY <2>1 DEF FutureInv, WaitingInv, Queued
  <2> QED BY <2>2, <2>3 DEF FutureInv
<1>e. ASSUME stop_pc \in {"drain_proc", "cancel_proc"}
      PROVE  processing_task = gen /\ gen \in Gens /\ ~running
  BY <1>e DEF EngineInv, WriterInv
<1>f. ASSUME ~running, UNCHANGED <<proc, running>>, NobodyWaits', NoWriter,
             stop_pc' \notin {"drain_proc", "cancel_proc"}, in_flight' = NoRequest
      PROVE  FutureInv'
  <2>1. FlightInv'
    BY <1>f DEF FlightInv, NoWriter
  <2>2. WaitingInv'
    BY <1>f DEF WaitingInv, NobodyWaits
  <2> QED BY <2>1, <2>2 DEF FutureInv
<1>g. ASSUME NoWriter PROVE in_flight = NoRequest
  BY <1>g DEF FutureInv, FlightInv, NoWriter, ProcBusy, ProcAlive, ProcPC
<1>h. ASSUME stop_pc \in {"drain_proc", "cancel_proc"},
             proc[processing_task].pc \in {"done", "dead"}
      PROVE  NoWriter
  BY <1>e, <1>h DEF EngineInv, WriterInv, NoWriter, ProcAlive
<1>3. CASE ProcessingDrained
  <2>1. /\ stop_pc = "drain_proc" /\ proc[processing_task].pc = "done"
        /\ stop_pc' = "sentinel" /\ UNCHANGED <<proc, running, answer, in_flight>>
    BY <1>3 DEF ProcessingDrained, loopVars, callVars
  <2>2. NobodyWaits
    BY <1>e, <2>1 DEF FutureInv, WaitingInv
  <2>3. NobodyWaits'
    BY <2>1, <2>2 DEF NobodyWaits
  <2> QED BY <1>e, <1>f, <1>g, <1>h, <2>1, <2>3
<1>4. CASE ProcessingFoundDead
  <2>1. /\ stop_pc = "drain_proc" /\ proc[processing_task].pc = "dead"
        /\ stop_pc' = "out" /\ UNCHANGED <<proc, running>> /\ FailRemaining(in_flight)
    BY <1>4 DEF ProcessingFoundDead
  <2>2. NobodyWaits' /\ in_flight' = NoRequest
    BY <1>b, <1>d, <2>1
  <2> QED BY <1>e, <1>f, <1>h, <2>1, <2>2
<1>5. CASE ProcessingUnwound
  <2>1. /\ stop_pc = "cancel_proc" /\ proc[processing_task].pc = "done"
        /\ stop_pc' = "sentinel" /\ UNCHANGED <<proc, running>>
        /\ FailRemaining(saved_in_flight)
    BY <1>5 DEF ProcessingUnwound
  <2>2. in_flight = NoRequest
    BY <1>g, <1>h, <2>1
  <2>3. NobodyWaits' /\ in_flight' = NoRequest
    BY <1>a, <1>b, <2>1, <2>2 DEF FutureInv, WaitingInv
  <2> QED BY <1>e, <1>f, <1>h, <2>1, <2>3
<1>6. CASE SendSentinel \/ ObserverDrained \/ ObserverDrainTimeout
  <2>1. /\ stop_pc \in {"sentinel", "drain_obs", "cancel_obs"}
        /\ stop_pc' \in {"out", "drain_obs", "cancel_obs"}
        /\ UNCHANGED <<proc, running, answer, in_flight>>
    BY <1>6 DEF SendSentinel, ObserverDrained, ObserverDrainTimeout, loopVars, callVars
  <2>2. ~running /\ NoWriter
    BY <2>1 DEF EngineInv, WriterInv
  <2>3. NobodyWaits
    BY <2>1, <2>2 DEF FutureInv, WaitingInv
  <2>4. NobodyWaits'
    BY <2>1, <2>3 DEF NobodyWaits
  <2> QED BY <1>f, <1>g, <2>1, <2>2, <2>4
<1>7. CASE ProcessingDrainTimeout
  <2>1. /\ stop_pc = "drain_proc" /\ stop_pc' = "cancel_proc"
        /\ saved_in_flight' = in_flight
        /\ proc' = [proc EXCEPT ![gen].cancelled = TRUE]
        /\ UNCHANGED <<gen, running, answer, in_flight, queue>>
    BY <1>7, <1>e DEF ProcessingDrainTimeout, queueVars, callVars
  <2>2. gen \in Gens /\ ~running
    BY <1>e, <2>1
  <2>3. /\ \A g \in Gens : proc'[g].pc = proc[g].pc /\ proc'[g].req = proc[g].req
        /\ proc'[gen].cancelled = TRUE
    BY <1>a, <2>1, <2>2 DEF ProcRecord
  <2>4. \A g \in Gens : proc'[g].pc \in ProcAlive => g = gen
    BY <2>3 DEF EngineInv, WriterInv
  <2>5. FlightInv'
    BY <2>1, <2>3, <2>4 DEF FutureInv, FlightInv
  <2>6. WaitingInv'
    BY <1>c, <2>1, <2>2 DEF FutureInv, WaitingInv, Queued
  <2> QED BY <2>5, <2>6 DEF FutureInv
<1>8. CASE StopAborted
  <2>1. /\ stop_pc \in {"drain_proc", "sentinel", "drain_obs"} /\ stop_pc' = "out"
        /\ UNCHANGED <<proc, running, gen>>
    BY <1>8 DEF StopAborted
  <2>2. ~running
    BY <2>1 DEF EngineInv, WriterInv
  <2>3. NobodyWaits' /\ in_flight' = NoRequest
    <3>1. CASE stop_pc = "drain_proc"
      BY <1>8, <1>b, <1>d, <3>1 DEF StopAborted
    <3>2. CASE stop_pc # "drain_proc"
      <4>1. NobodyWaits /\ NoWriter /\ UNCHANGED <<answer, in_flight>>
        BY <1>8, <2>1, <2>2, <3>2
           DEF StopAborted, FutureInv, WaitingInv, EngineInv, WriterInv
      <4> QED BY <1>g, <4>1 DEF NobodyWaits
    <3> QED BY <3>1, <3>2
  <2>4. \A g \in Gens : proc[g].pc \in ProcAlive => ~proc[g].cancelled
    BY <2>1 DEF FutureInv, FlightInv
  <2>5. FlightInv'
    BY <2>1, <2>3, <2>4 DEF FlightInv
  <2>6. WaitingInv'
    BY <2>1, <2>2, <2>3 DEF WaitingInv, NobodyWaits
  <2> QED BY <2>5, <2>6 DEF FutureInv
<1> QED BY <1>1, <1>2, <1>3, <1>4, <1>5, <1>6, <1>7, <1>8 DEF StopStep

\* Callers come while the engine runs, and may stop waiting.
LEMMA CallersFutures ==
  ASSUME EngineInv, FutureInv, UNCHANGED <<running, stop_pc, saved_in_flight, gen, proc,
         in_flight>>,
         \/ UNCHANGED <<answer, queue>>
         \/ \E r \in Requests : Submit(r) \/ Abandon(r)
  PROVE  FutureInv'
<1>a. queue \in Seq(Requests) /\ answer \in [Requests -> Answer]
  BY DEF EngineInv, TypeOK, QueuesOK, CallsOK
<1>1. FlightInv'
  BY DEF FutureInv, FlightInv
<1>2. ASSUME \A s \in Requests : Queued(s) => Queued(s)',
             \A s \in Requests : answer'[s] = "pending" =>
               answer[s] = "pending" \/ (running /\ Queued(s)')
      PROVE  WaitingInv'
  <2>1. ~running /\ NobodyWaits => NobodyWaits'
    BY <1>2 DEF NobodyWaits
  <2>2. stop_pc = "drain_proc" => ~running
    BY DEF EngineInv, WriterInv
  <2> QED BY <1>2, <2>1, <2>2 DEF FutureInv, WaitingInv
<1>3. ASSUME UNCHANGED <<answer, queue>> PROVE WaitingInv'
  <2>1. \A s \in Requests : Queued(s) => Queued(s)'
    BY <1>3 DEF Queued
  <2> QED BY <1>2, <1>3, <2>1
<1>4. ASSUME NEW r \in Requests, Abandon(r) PROVE WaitingInv'
  BY <1>2, <1>4, <1>a DEF Abandon, Queued, queueVars
<1>5. ASSUME NEW r \in Requests, Submit(r) PROVE WaitingInv'
  <2>1. CASE UNCHANGED queue /\ answer'[r] # "pending"
    BY <1>2, <1>5, <1>a, <2>1 DEF Submit, Queued
  <2>2. CASE running /\ queue' = Append(queue, r)
    <3>1. /\ Len(queue) \in Nat /\ Len(queue') = Len(queue) + 1
          /\ queue'[Len(queue) + 1] = r
          /\ \A i \in 1..Len(queue) : queue'[i] = queue[i] /\ i \in 1..Len(queue')
          /\ Len(queue) + 1 \in 1..Len(queue')
      BY <1>a, <2>2
    <3>2. Queued(r)' /\ \A s \in Requests : Queued(s) => Queued(s)'
      BY <3>1 DEF Queued
    <3>3. \A s \in Requests \ {r} : answer'[s] = answer[s]
      BY <1>5, <1>a DEF Submit
    <3> QED BY <1>2, <2>2, <3>2, <3>3
  <2> QED BY <1>5, <1>a, <2>1, <2>2 DEF Submit
<1> QED BY <1>1, <1>3, <1>4, <1>5 DEF FutureInv

\* No step strands a caller.
LEMMA FutureNext == EngineInv /\ FlowInv /\ FutureInv /\ [Next]_vars => FutureInv'
<1> SUFFICES ASSUME EngineInv, FlowInv, FutureInv, [Next]_vars PROVE FutureInv'
  OBVIOUS
<1>1. ASSUME \/ UNCHANGED vars
             \/ \E r \in Requests : Submit(r) \/ Abandon(r)
             \/ \E n \in MaxQueueSizes : set_max_queue_size(n)
             \/ \E t \in PlanTasks : FilePlan(t) \/ DropPlan(t)
             \/ BesideQueue
             \/ \E g \in Gens : ObserverStep(g) \/ ObserverCritical(g)
      PROVE  FutureInv'
  <2>1. UNCHANGED <<running, stop_pc, saved_in_flight, gen, proc, in_flight>>
    BY <1>1, BesideFrame
       DEF vars, Submit, Abandon, set_max_queue_size, FilePlan, DropPlan, ObserverStep, ObserverGets, ObserverNotified, ObserverCancelled,
         ObserverCritical, lifeVars, loopVars
  <2>2. \/ UNCHANGED <<answer, queue>>
        \/ \E r \in Requests : Submit(r) \/ Abandon(r)
    BY <1>1, BesideFrame
       DEF vars, set_max_queue_size, FilePlan, DropPlan, ObserverStep, ObserverGets, ObserverNotified, ObserverCancelled, ObserverCritical,
         callVars, queueVars
  <2> QED BY <2>1, <2>2, CallersFutures
<1> QED BY <1>1, ProcessingFutures, LifecycleFutures DEF Next

\* Nobody is left waiting on an engine that is down: whatever stop() met, a
\* drain that timed out under a request or a loop that died included, every
\* admitted caller has been answered once no loop is left.
THEOREM FuturesSettled == Spec => []NoStrandedFuture
<1>1. Init => FutureInv
  <2> SUFFICES ASSUME Init PROVE FutureInv
    OBVIOUS
  <2>1. \A g \in Gens : proc[g].pc = "off"
    BY DEF Init, NewProc
  <2>2. FlightInv
    BY <2>1 DEF Init, FlightInv, ProcAlive
  <2>3. WaitingInv
    BY DEF Init, WaitingInv, NobodyWaits
  <2> QED BY <2>2, <2>3 DEF FutureInv
<1>2. FutureInv => NoStrandedFuture
  BY DEF FutureInv, WaitingInv, NoStrandedFuture, NobodyWaits
<1> QED BY <1>1, <1>2, FutureNext, FlowAlways, InvAlways, PTL DEF Spec

=============================================================================
