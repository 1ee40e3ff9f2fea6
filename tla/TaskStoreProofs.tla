-------------------------- MODULE TaskStoreProofs ---------------------------
(***************************************************************************)
(* Proofs about what the TaskEngine writes: that it implements the atomic  *)
(* store TaskStore, that rows move along the status table, that versions   *)
(* fence concurrent writers, and that events reach the observers in the    *)
(* order of the writes.                                                    *)
(***************************************************************************)
EXTENDS TaskEngineProofs

(***************************************************************************)
(* Why a row is written from what it is at that moment, although it was    *)
(* read at an earlier await: of the loops only one is alive, a writer      *)
(* beside the queue that writes over a row is on record (overwritten), one *)
(* that fills in an absent row finds no save in flight there, and a create *)
(* writes where there is nothing and has never been anything.              *)
(***************************************************************************)
CreateInv ==
  \A r \in Requests : mutation[r].kind = "create" =>
    /\ mutation[r].task \notin DerivedTasks
    /\ \A s \in Requests \ {r} :
         mutation[s].kind = "create" => mutation[s].task # mutation[r].task
    /\ ~Committed(r) =>
         /\ rows[mutation[r].task] = NoTask
         /\ mutation[r].task \notin overwritten
         /\ \A w \in Writers : batch[w][mutation[r].task] = NoTask
         /\ \A s \in Requests : Committed(s) => mutation[s].task # mutation[r].task

\* What a writer beside the queue puts into a row.
Beside(t, row) ==
  \/ t \in DerivedTasks /\ row = Filed
  \/ row.status = "interrupted" /\ ~row.assigned

BatchInv ==
  \A w \in Writers, t \in Tasks : batch[w][t] # NoTask => Beside(t, batch[w][t])

\* What the loop is about to save fits a row.
Fits(m, row, new) ==
  /\ new = Written(m, row)
  /\ m.kind # "delete" => /\ (m.kind = "create") <=> (row = NoTask)
                          /\ ~NoOp(m)
                          /\ Valid(m, row)

SaveInv ==
  \A g \in Gens : proc[g].pc = "save" =>
    \E row \in Row :
      /\ mutation[proc[g].req].task \notin overwritten =>
           row = rows[mutation[proc[g].req].task]
      /\ Fits(mutation[proc[g].req], row, proc[g].row)

RecheckInv ==
  \A g \in Gens : proc[g].pc = "recheck" => mutation[proc[g].req].kind = "delete"

RowInv == CreateInv /\ BatchInv /\ SaveInv /\ RecheckInv

\* A step that writes no row: a loop that takes up a mutation starts from the
\* row as it is.
NoWrite ==
  /\ UNCHANGED <<mutation, rows, commits, batch>>
  /\ overwritten' \subseteq overwritten
  /\ UNCHANGED overwritten \/ \E g \in Gens : Read(g)

\* Only a committing loop and the writers beside the queue write to the store,
\* and nobody changes what was submitted.
LEMMA WhoWrites ==
  ASSUME [Next]_vars
  PROVE  /\ UNCHANGED mutation
         /\ NoWrite \/ BesideQueue \/ \E g \in Gens : Commit(g)
<1> DEFINE Idles == UNCHANGED <<mutation, rows, commits, batch, overwritten>>
<1>1. ASSUME \/ \E r \in Requests : Submit(r) \/ Abandon(r)
             \/ \E n \in MaxQueueSizes : set_max_queue_size(n)
             \/ \E t \in PlanTasks : FilePlan(t) \/ DropPlan(t)
             \/ UNCHANGED vars
      PROVE  Idles
  BY <1>1 DEF vars, storeVars, callVars, histVars, Submit, Abandon, set_max_queue_size, FilePlan,
              DropPlan
<1>2. ASSUME NEW g \in Gens, ProcessingStep(g), ~Commit(g), ~Read(g) PROVE Idles
  BY <1>2 DEF storeVars, callVars, histVars, ProcessingStep, Dequeue, NothingDeleted,
              DeleteRestricted, Recheck, Finish, Publish, ProcessingCancelled, ProcessingExits
<1>3. ASSUME NEW g \in Gens, \/ ProcessingFails(g) \/ ProcessingCritical(g)
                             \/ ObserverStep(g) \/ ObserverCritical(g)
      PROVE  Idles
  BY <1>3 DEF storeVars, callVars, histVars, ProcessingFails, ProcessingCritical, ObserverStep,
              ObserverGets, ObserverNotified, ObserverCancelled, ObserverCritical
<1>4. ASSUME \/ Start \/ Stop \/ StopStep
             \/ ProcessingDrainTimeout \/ ObserverDrainTimeout \/ StopAborted
      PROVE  Idles
  BY <1>4 DEF storeVars, callVars, histVars, Start, Stop, StopStep, ProcessingDrained,
              ProcessingFoundDead, ProcessingUnwound, SendSentinel, ObserverDrained,
              ProcessingDrainTimeout, ObserverDrainTimeout, StopAborted
<1>5. ASSUME NEW g \in Gens, Read(g) PROVE NoWrite
  BY <1>5 DEF Read, NoWrite, histVars
<1>6. ASSUME NEW g \in Gens, Commit(g) PROVE UNCHANGED mutation
  BY <1>6 DEF Commit, callVars
<1>7. BesideQueue => UNCHANGED mutation
  BY BesideFrame DEF callVars
<1>8. Idles => NoWrite
  BY DEF NoWrite
<1>9. NoWrite => UNCHANGED mutation
  BY DEF NoWrite
<1> HIDE DEF Idles
<1> QED BY <1>1, <1>2, <1>3, <1>4, <1>5, <1>6, <1>7, <1>8, <1>9 DEF Next

\* What an upsert does to one row.
LEMMA UpsertWrites ==
  ASSUME NEW new, Upsert(new), NEW t \in Tasks
  PROVE  \/ new[t] = NoTask /\ rows'[t] = rows[t] /\ (t \in overwritten' <=> t \in overwritten)
         \/ /\ new[t] # NoTask /\ rows'[t] = new[t]
            /\ t \in overwritten' <=> t \in overwritten \/ rows[t] # NoTask
  BY DEF Upsert

\* What the writers beside the queue do to one row, and what they prepare.
Filled(t) ==
  /\ Beside(t, rows'[t])
  /\ t \in DerivedTasks \/ \E w \in Writers : batch[w][t] # NoTask
  /\ t \in overwritten' <=> t \in overwritten \/ rows[t] # NoTask

Untouched(t) == rows'[t] = rows[t] /\ (t \in overwritten' <=> t \in overwritten)

Prepared(t) ==
  \A w \in Writers : batch'[w][t] # NoTask =>
    /\ Beside(t, batch'[w][t])
    /\ batch[w][t] # NoTask \/ t \in DerivedTasks \/ rows[t] # NoTask

LEMMA BesideWrites ==
  ASSUME EngineInv, BatchInv, BesideQueue, NEW t \in Tasks
  PROVE  (Untouched(t) \/ Filled(t)) /\ Prepared(t)
<1>a. batch \in [Writers -> [Tasks -> Row]] /\ DerivedTasks \subseteq Tasks
  BY EngineAssumption DEF EngineInv, TypeOK, StoreOK
<1>b. UNCHANGED <<rows, overwritten>> => Untouched(t)
  BY DEF Untouched
<1>c. UNCHANGED batch => Prepared(t)
  BY DEF BatchInv, Prepared
<1>1. ASSUME NEW w \in Writers, FindChildren(w) PROVE Untouched(t) /\ Prepared(t)
  BY <1>1, <1>b, <1>c DEF FindChildren
<1>2. ASSUME NEW w \in Writers, NEW u \in DerivedTasks, Probed(w, u)
      PROVE  Untouched(t) /\ Prepared(t)
  <2>1. Untouched(t)
    BY <1>2, <1>b DEF Probed
  <2>2. ASSUME batch' = [batch EXCEPT ![w][u] = Filed] PROVE Prepared(t)
    <3> SUFFICES ASSUME NEW v \in Writers, batch'[v][t] # NoTask
                 PROVE  /\ Beside(t, batch'[v][t])
                        /\ batch[v][t] # NoTask \/ t \in DerivedTasks
      BY DEF Prepared
    <3>1. CASE v = w /\ t = u
      <4>1. batch'[v][t] = Filed /\ t \in DerivedTasks
        BY <1>a, <1>2, <2>2, <3>1
      <4> QED BY <4>1 DEF Beside
    <3>2. CASE ~(v = w /\ t = u)
      <4>1. batch'[v][t] = batch[v][t]
        BY <1>a, <2>2, <3>2
      <4> QED BY <4>1 DEF BatchInv
    <3> QED BY <3>1, <3>2
  <2> QED BY <1>2, <1>c, <2>1, <2>2 DEF Probed
<1>3. ASSUME NEW w \in Writers, reassign(w) PROVE Untouched(t) /\ Prepared(t)
  <2>1. Untouched(t)
    BY <1>3, <1>b DEF reassign
  <2>2. \A row : LET new == Transitioned(row, "interrupted", Unassign)
                 IN  new.status = "interrupted" /\ ~new.assigned
    BY DEF Transitioned, Unassign, EmptyPatch, Merge
  <2>3. PICK S : /\ S \subseteq {u \in Tasks : rows[u].status \in {"assigned", "in_progress"}}
                 /\ batch' = [batch EXCEPT ![w] =
                      [u \in Tasks |-> IF u \in S
                                       THEN Transitioned(rows[u], "interrupted", Unassign)
                                       ELSE NoTask]]
    BY <1>3 DEF reassign
  <2> SUFFICES ASSUME NEW v \in Writers, batch'[v][t] # NoTask
               PROVE  /\ Beside(t, batch'[v][t])
                      /\ batch[v][t] # NoTask \/ rows[t] # NoTask
    BY <2>1 DEF Prepared
  <2>4. CASE v = w
    <3>1. t \in S /\ batch'[v][t] = Transitioned(rows[t], "interrupted", Unassign)
      BY <1>a, <2>3, <2>4
    <3>2. rows[t] # NoTask
      BY <2>3, <3>1 DEF NoTask
    <3> QED BY <2>2, <3>1, <3>2 DEF Beside
  <2>5. CASE v # w
    <3>1. batch'[v][t] = batch[v][t]
      BY <1>a, <2>3, <2>5
    <3> QED BY <3>1 DEF BatchInv
  <2> QED BY <2>4, <2>5
<1>4. ASSUME NEW w \in Writers, save_many(w) PROVE (Untouched(t) \/ Filled(t)) /\ Prepared(t)
  <2>1. Untouched(t) \/ Filled(t)
    <3>1. CASE Upsert(batch[w])
      BY <3>1, UpsertWrites DEF BatchInv, Untouched, Filled
    <3> QED BY <1>4, <1>b, <3>1 DEF save_many
  <2>2. batch' = [batch EXCEPT ![w] = NoRows] /\ NoRows[t] = NoTask
    BY <1>4 DEF save_many, NoRows
  <2>3. \A v \in Writers : batch'[v][t] # NoTask => batch'[v][t] = batch[v][t]
    BY <1>a, <2>2
  <2> QED BY <2>1, <2>3 DEF BatchInv, Prepared
<1>5. ASSUME file_child_tasks PROVE (Untouched(t) \/ Filled(t)) /\ Prepared(t)
  <2> DEFINE new == [u \in Tasks |-> IF u \in DerivedTasks THEN Filed ELSE NoTask]
  <2>1. Upsert(new) /\ UNCHANGED batch
    BY <1>5 DEF file_child_tasks
  <2>2. new[t] = IF t \in DerivedTasks THEN Filed ELSE NoTask
    OBVIOUS
  <2> HIDE DEF new
  <2> QED BY <1>c, <2>1, <2>2, UpsertWrites DEF Untouched, Filled, Beside
<1> QED BY <1>1, <1>2, <1>3, <1>4, <1>5 DEF BesideQueue

\* A commit saves what follows from a row the mutation fits: the one that is
\* there, unless somebody wrote over it.
LEMMA CommitFits ==
  ASSUME EngineInv, FlowInv, RowInv, NEW g \in Gens, Commit(g), NEW r, r = proc[g].req
  PROVE  LET m == mutation[r] IN
         /\ r \in Requests /\ m \in Mutation /\ m.task \in Tasks
         /\ answer[r] \in Open /\ ~Committed(r)
         /\ UNCHANGED <<overwritten, batch>>
         /\ \E row \in Row :
              /\ m.task \notin overwritten => row = rows[m.task]
              /\ rows' = [rows EXCEPT ![m.task] = Written(m, row)]
              /\ (m.kind = "create") <=> (row = NoTask)
              /\ ~NoOp(m)
              /\ Valid(m, row)
<1> DEFINE m == mutation[r]
<1>1. /\ proc[g].pc = "save" /\ rows' = [rows EXCEPT ![m.task] = proc[g].row]
      /\ UNCHANGED <<overwritten, batch>>
  BY DEF Commit
<1>2. r \in Requests
  BY <1>1 DEF EngineInv, HoldsRequest, ProcBusy
<1>3. m \in Mutation /\ m.task \in Tasks
  BY <1>2, EngineAssumption DEF EngineInv, TypeOK, CallsOK, Mutation
<1>4. answer[r] \in Open /\ ~Committed(r)
  BY <1>1 DEF FlowInv, HeldInv
<1>5. PICK row \in Row : /\ m.task \notin overwritten => row = rows[m.task]
                         /\ Fits(m, row, proc[g].row)
  BY <1>1 DEF RowInv, SaveInv
<1>6. CASE m.kind = "delete"
  <2>1. rows[m.task] \in Row /\ rows[m.task] # NoTask
    BY <1>3, <1>6 DEF Commit, EngineInv, TypeOK, StoreOK
  <2>2. proc[g].row = Written(m, rows[m.task]) /\ ~NoOp(m) /\ Valid(m, rows[m.task])
    BY <1>5, <1>6 DEF Fits, Written, NoOp, Valid
  <2> QED BY <1>1, <1>2, <1>3, <1>4, <1>6, <2>1, <2>2
<1>7. CASE m.kind # "delete"
  BY <1>1, <1>2, <1>3, <1>4, <1>5, <1>7 DEF Fits
<1> QED BY <1>6, <1>7

\* A create is of a row that is absent, and stays so until it is committed.
LEMMA CreateKept ==
  ASSUME EngineInv, FlowInv, RowInv, [Next]_vars
  PROVE  CreateInv'
<1>a. /\ mutation \in [Requests -> Mutations] /\ rows \in [Tasks -> Row] /\ HistoryOK
      /\ \A r \in Requests : mutation[r] \in Mutation /\ mutation[r].task \in Tasks
  BY EngineAssumption DEF EngineInv, TypeOK, CallsOK, StoreOK, Mutation
<1>1. ASSUME NoWrite PROVE CreateInv'
  <2>1. /\ UNCHANGED <<mutation, rows, commits, batch>>
        /\ overwritten' \subseteq overwritten
    BY <1>1 DEF NoWrite
  <2>2. \A r \in Requests : Committed(r)' <=> Committed(r)
    BY <2>1, CommitsStay
  <2> QED BY <2>1, <2>2 DEF RowInv, CreateInv
<1>2. ASSUME BesideQueue PROVE CreateInv'
  <2>1. UNCHANGED <<mutation, commits>>
    BY <1>2, BesideFrame DEF callVars, histVars
  <2>2. \A r \in Requests : Committed(r)' <=> Committed(r)
    BY <2>1, CommitsStay
  <2>3. ASSUME NEW r \in Requests, mutation[r].kind = "create", ~Committed(r)
        PROVE  /\ rows'[mutation[r].task] = NoTask
               /\ mutation[r].task \notin overwritten'
               /\ \A w \in Writers : batch'[w][mutation[r].task] = NoTask
    <3>1. PICK t \in Tasks : t = mutation[r].task
      BY <1>a
    <3>2. /\ t \notin DerivedTasks /\ rows[t] = NoTask /\ t \notin overwritten
          /\ \A w \in Writers : batch[w][t] = NoTask
      BY <2>3, <3>1 DEF RowInv, CreateInv
    <3>3. (Untouched(t) \/ Filled(t)) /\ Prepared(t)
      BY <1>2, BesideWrites DEF RowInv
    <3> QED BY <3>1, <3>2, <3>3 DEF Untouched, Filled, Prepared
  <2> QED BY <2>1, <2>2, <2>3 DEF RowInv, CreateInv
<1>3. ASSUME NEW g \in Gens, Commit(g) PROVE CreateInv'
  <2>1. PICK r : r = proc[g].req
    OBVIOUS
  <2>2. /\ r \in Requests /\ mutation[r].task \in Tasks
        /\ UNCHANGED <<overwritten, batch>>
        /\ \E row \in Row :
             /\ mutation[r].task \notin overwritten => row = rows[mutation[r].task]
             /\ rows' = [rows EXCEPT ![mutation[r].task] = Written(mutation[r], row)]
             /\ (mutation[r].kind = "create") <=> (row = NoTask)
    BY <1>3, <2>1, CommitFits
  <2>3. UNCHANGED mutation /\ commits' = Append(commits, r)
    BY <1>3, <2>1 DEF Commit, callVars
  <2>4. \A s \in Requests : Committed(s)' <=> Committed(s) \/ s = r
    BY <1>a, <2>2, <2>3, CommitGrows
  <2>5. ASSUME NEW q \in Requests, mutation[q].kind = "create", ~Committed(q)'
        PROVE  /\ rows'[mutation[q].task] = NoTask
               /\ mutation[q].task \notin overwritten'
               /\ \A w \in Writers : batch'[w][mutation[q].task] = NoTask
               /\ \A s \in Requests : Committed(s)' => mutation[s].task # mutation[q].task
    <3>1. q # r /\ ~Committed(q)
      BY <2>4, <2>5
    <3>2. /\ rows[mutation[q].task] = NoTask
          /\ mutation[q].task \notin overwritten
          /\ \A w \in Writers : batch[w][mutation[q].task] = NoTask
          /\ \A s \in Requests : Committed(s) => mutation[s].task # mutation[q].task
      BY <2>5, <3>1 DEF RowInv, CreateInv
    <3>3. mutation[r].task # mutation[q].task
      BY <2>2, <2>5, <3>1, <3>2 DEF RowInv, CreateInv
    <3>4. rows'[mutation[q].task] = rows[mutation[q].task]
      BY <1>a, <2>2, <3>3
    <3> QED BY <2>2, <2>4, <3>2, <3>3, <3>4
  <2> QED BY <2>3, <2>5 DEF RowInv, CreateInv
<1> QED BY <1>1, <1>2, <1>3, WhoWrites

\* What a writer beside the queue will save is of one of two shapes.
LEMMA BatchKept ==
  ASSUME EngineInv, FlowInv, RowInv, [Next]_vars
  PROVE  BatchInv'
<1>1. ASSUME UNCHANGED batch PROVE BatchInv'
  BY <1>1 DEF RowInv, BatchInv
<1>2. ASSUME BesideQueue PROVE BatchInv'
  <2>1. \A t \in Tasks : Prepared(t)
    BY <1>2, BesideWrites DEF RowInv
  <2> QED BY <2>1 DEF BatchInv, Prepared
<1>3. NoWrite \/ (\E g \in Gens : Commit(g)) => UNCHANGED batch
  BY DEF NoWrite, Commit
<1> QED BY <1>1, <1>2, <1>3, WhoWrites

\* How a loop comes to hold what it holds after a step.
Moved(h) ==
  \/ proc'[h].pc \notin ProcBusy
  \/ Dequeue(h) /\ proc'[h].pc = "read"
  \/ /\ proc[h].pc \in ProcBusy /\ proc'[h].req = proc[h].req
     /\ \/ proc'[h].pc = proc[h].pc /\ proc'[h].row = proc[h].row /\ ~Commit(h) /\ ~Finish(h)
        \/ /\ Read(h) /\ proc'[h].pc = "save"
           /\ Verdict(mutation[proc[h].req]) = "write"
           /\ proc'[h].row = Written(mutation[proc[h].req],
                                     rows[mutation[proc[h].req].task])
        \/ /\ Read(h) /\ proc'[h].pc = "publish"
           /\ Verdict(mutation[proc[h].req]) = "unchanged"
        \/ DeleteRestricted(h) /\ proc'[h].pc = "recheck"
        \/ Commit(h) /\ proc'[h].pc = "saved"
        \/ Finish(h) /\ proc'[h].pc = "publish"

\* Every step moves a loop in one of those ways.
LEMMA LoopsMove ==
  ASSUME EngineInv, [Next]_vars, NEW h \in Gens
  PROVE  Moved(h)
<1>a. proc \in [Gens -> ProcRecord] /\ proc[h] \in ProcRecord
  BY DEF EngineInv, TypeOK, LoopsOK
<1>b. ASSUME NEW pc, GoTo(h, pc)
      PROVE  proc'[h].pc = pc /\ proc'[h].req = proc[h].req /\ proc'[h].row = proc[h].row
  BY <1>a, <1>b DEF GoTo, ProcRecord
<1>c. ASSUME NEW pc, pc \notin ProcBusy,
             proc' = [proc EXCEPT ![h] = [NewProc EXCEPT !.pc = pc]]
      PROVE  Moved(h)
  <2>1. proc'[h].pc = pc
    BY <1>a, <1>c DEF NewProc
  <2> QED BY <1>c, <2>1 DEF Moved
<1>d. Released(h) => Moved(h)
  BY <1>c DEF Released, ProcBusy
<1>1. CASE Dequeue(h)
  BY <1>1, <1>a DEF Dequeue, NewProc, Moved
<1>2. CASE Read(h)
  <2> DEFINE m == mutation[proc[h].req]
  <2>1. proc[h].pc \in ProcBusy
    BY <1>2 DEF Read, At, ProcBusy
  <2>2. CASE Verdict(m) = "unchanged" /\ GoTo(h, "publish")
    BY <1>2, <1>b, <2>1, <2>2 DEF Moved
  <2>3. CASE /\ Verdict(m) = "write"
             /\ proc' = [proc EXCEPT ![h].pc = "save",
                                     ![h].row = Written(m, rows[m.task])]
    <3>1. /\ proc'[h].pc = "save" /\ proc'[h].req = proc[h].req
          /\ proc'[h].row = Written(m, rows[m.task])
      BY <1>a, <2>3 DEF ProcRecord
    <3> QED BY <1>2, <2>1, <2>3, <3>1 DEF Moved
  <2> QED BY <1>2, <1>d, <2>2, <2>3 DEF Read
<1>3. CASE Commit(h)
  <2>1. proc[h].pc \in ProcBusy /\ GoTo(h, "saved")
    BY <1>3 DEF Commit, ProcBusy
  <2> QED BY <1>3, <1>b, <2>1 DEF Moved
<1>4. CASE DeleteRestricted(h)
  <2>1. proc[h].pc \in ProcBusy /\ GoTo(h, "recheck")
    BY <1>4 DEF DeleteRestricted, At, ProcBusy
  <2> QED BY <1>4, <1>b, <2>1 DEF Moved
<1>5. CASE Finish(h)
  <2>1. proc[h].pc \in ProcBusy /\ GoTo(h, "publish")
    BY <1>5 DEF Finish, At, ProcBusy
  <2> QED BY <1>5, <1>b, <2>1 DEF Moved
<1>6. CASE NothingDeleted(h) \/ Recheck(h) \/ Publish(h) \/ ProcessingFails(h)
  BY <1>6, <1>d DEF NothingDeleted, Recheck, Publish, ProcessingFails
<1>7. CASE ProcessingCancelled(h) \/ ProcessingCritical(h)
  BY <1>7, <1>c DEF ProcessingCancelled, ProcessingCritical, ProcBusy
<1>8. CASE ProcessingExits(h)
  BY <1>8, <1>b DEF ProcessingExits, Moved, ProcBusy
<1>9. CASE ~Commit(h) /\ ~Finish(h)
  <2>0. ASSUME proc'[h].pc = proc[h].pc, proc'[h].req = proc[h].req,
               proc'[h].row = proc[h].row
        PROVE  Moved(h)
    BY <1>9, <2>0 DEF Moved
  <2>1. ASSUME NEW g \in Gens, g # h,
               ProcessingStep(g) \/ ProcessingFails(g) \/ ProcessingCritical(g)
        PROVE  proc'[h] = proc[h]
    BY <1>a, <2>1
       DEF ProcessingStep, Dequeue, Read, Commit, NothingDeleted, DeleteRestricted, Recheck,
           Finish, Publish, ProcessingCancelled, ProcessingExits, ProcessingFails,
           ProcessingCritical, Released, GoTo
  <2>2. CASE Start
    <3>1. CASE h = gen + 1
      <4>1. proc'[h].pc = "idle"
        BY <1>a, <2>2, <3>1 DEF Start, NewProc
      <4> QED BY <4>1 DEF Moved, ProcBusy
    <3>2. CASE h # gen + 1
      <4>1. proc'[h] = proc[h]
        BY <1>a, <2>2, <3>2 DEF Start
      <4> QED BY <2>0, <4>1
    <3> QED BY <3>1, <3>2
  <2>3. CASE ProcessingDrainTimeout
    BY <1>a, <2>0, <2>3 DEF ProcessingDrainTimeout, ProcRecord
  <2>4. CASE UNCHANGED proc
    BY <2>0, <2>4
  <2>5. \/ UNCHANGED proc
        \/ Start \/ ProcessingDrainTimeout
        \/ \E g \in Gens : ProcessingStep(g) \/ ProcessingFails(g) \/ ProcessingCritical(g)
    BY BesideFrame
       DEF vars, loopVars, Next, Submit, Abandon, set_max_queue_size, FilePlan, DropPlan,
         ObserverStep, ObserverGets, ObserverNotified,
         ObserverCancelled, ObserverCritical, Stop, StopStep, ProcessingDrained,
         ProcessingFoundDead, ProcessingUnwound, SendSentinel, ObserverDrained,
         ObserverDrainTimeout, StopAborted
  <2>6. \A g \in Gens : ProcessingStep(g) \/ ProcessingFails(g) \/ ProcessingCritical(g) =>
          g # h \/ Moved(h)
    BY <1>1, <1>2, <1>3, <1>4, <1>5, <1>6, <1>7, <1>8 DEF ProcessingStep
  <2> QED BY <2>0, <2>1, <2>2, <2>3, <2>4, <2>5, <2>6
<1> QED BY <1>3, <1>5, <1>9

\* What a loop is about to save still fits the row when it saves it, or was
\* written over in between.
LEMMA SaveKept ==
  ASSUME EngineInv, FlowInv, RowInv, [Next]_vars
  PROVE  SaveInv'
<1> SUFFICES ASSUME NEW h \in Gens, proc'[h].pc = "save", NEW r, r = proc'[h].req
             PROVE  \E row \in Row :
                      /\ mutation'[r].task \notin overwritten' => row = rows'[mutation'[r].task]
                      /\ Fits(mutation'[r], row, proc'[h].row)
  BY DEF SaveInv, Fits
<1>a. /\ \A q \in Requests : mutation[q] \in Mutation /\ mutation[q].task \in Tasks
      /\ UNCHANGED mutation
  <2>1. UNCHANGED mutation
    BY WhoWrites
  <2> QED BY <2>1, EngineAssumption DEF EngineInv, TypeOK, CallsOK, Mutation
<1>b. proc'[h].pc \in ProcBusy
  BY DEF ProcBusy
<1>c. /\ proc[h].pc \in ProcBusy /\ proc[h].req = r
      /\ \/ proc[h].pc = "save" /\ proc'[h].row = proc[h].row /\ ~Commit(h) /\ ~Finish(h)
         \/ /\ Read(h)
            /\ Verdict(mutation[r]) = "write"
            /\ proc'[h].row = Written(mutation[r], rows[mutation[r].task])
  BY <1>b, LoopsMove DEF Moved
<1>d. r \in Requests
  BY <1>c DEF EngineInv, HoldsRequest
<1>1. CASE Read(h) /\ Verdict(mutation[r]) = "write" /\ proc[h].req = r
           /\ proc'[h].row = Written(mutation[r], rows[mutation[r].task])
  <2> DEFINE m == mutation[r]
  <2>1. proc[h].pc = "read" /\ UNCHANGED <<rows, mutation>>
    BY <1>1 DEF Read, At
  <2>2. ~Committed(r)
    BY <1>1, <2>1 DEF FlowInv, HeldInv
  <2>3. /\ m.kind \notin {"create", "delete"} => rows[m.task] # NoTask
        /\ ~NoOp(m) /\ Valid(m, rows[m.task])
    BY <1>1 DEF Verdict
  <2>4. m.kind = "create" => rows[m.task] = NoTask
    BY <1>d, <2>2 DEF RowInv, CreateInv
  <2>5. Fits(m, rows[m.task], proc'[h].row) /\ rows[m.task] \in Row
    BY <1>1, <1>a, <1>d, <2>3, <2>4 DEF Fits, EngineInv, TypeOK, StoreOK
  <2> QED BY <2>1, <2>5
<1>2. CASE proc[h].pc = "save" /\ proc'[h].row = proc[h].row /\ proc[h].req = r /\ ~Commit(h)
  <2>1. PICK t \in Tasks : t = mutation[r].task
    BY <1>a, <1>d
  <2>2. PICK row \in Row : /\ t \notin overwritten => row = rows[t]
                           /\ Fits(mutation[r], row, proc'[h].row)
    BY <1>2, <2>1 DEF RowInv, SaveInv
  <2>3. \A g \in Gens : ~Commit(g) /\ ~Read(g)
    <3> SUFFICES ASSUME NEW g \in Gens, Commit(g) \/ Read(g) PROVE FALSE
      OBVIOUS
    <3>1. proc[g].pc \in ProcAlive /\ proc[h].pc \in ProcAlive
      BY <1>2 DEF Commit, Read, At, ProcAlive, ProcPC
    <3>2. g = h
      BY <3>1 DEF EngineInv, WriterInv
    <3> QED BY <1>2, <3>2 DEF Read, At
  <2>4. CASE NoWrite
    <3>1. UNCHANGED <<rows, overwritten>>
      BY <2>3, <2>4 DEF NoWrite
    <3> QED BY <1>a, <2>1, <2>2, <3>1
  <2>5. CASE BesideQueue
    <3>1. Untouched(t) \/ Filled(t)
      BY <2>5, BesideWrites DEF RowInv
    <3>2. CASE Untouched(t) \/ t \in overwritten'
      BY <1>a, <2>1, <2>2, <3>2 DEF Untouched
    <3>3. CASE Filled(t) /\ t \notin overwritten'
      <4>1. rows[t] = NoTask /\ t \notin overwritten
        BY <3>3 DEF Filled
      <4>2. ~Committed(r)
        BY <1>2 DEF FlowInv, HeldInv
      <4>3. mutation[r].kind # "create"
        BY <1>d, <2>1, <3>3, <4>2 DEF Filled, RowInv, CreateInv
      <4>4. mutation[r].kind = "delete"
        BY <2>2, <4>1, <4>3 DEF Fits
      <4>5. rows'[t] \in Row
        BY <2>5, BesideStore DEF EngineInv, TypeOK, StoreOK
      <4>6. Fits(mutation[r], rows'[t], proc'[h].row)
        BY <2>2, <4>4 DEF Fits, Written
      <4> QED BY <1>a, <2>1, <4>5, <4>6
    <3> QED BY <3>1, <3>2, <3>3
  <2> QED BY <2>3, <2>4, <2>5, WhoWrites
<1> QED BY <1>c, <1>1, <1>2

\* Plans are looked up a second time only for a delete.
LEMMA RecheckKept ==
  ASSUME EngineInv, RowInv, [Next]_vars
  PROVE  RecheckInv'
<1> SUFFICES ASSUME NEW h \in Gens, proc'[h].pc = "recheck"
             PROVE  mutation'[proc'[h].req].kind = "delete"
  BY DEF RecheckInv
<1>1. UNCHANGED mutation
  BY WhoWrites
<1>2. /\ proc'[h].req = proc[h].req
      /\ proc[h].pc = "recheck" \/ DeleteRestricted(h)
  BY LoopsMove DEF Moved, ProcBusy
<1> QED BY <1>1, <1>2 DEF RowInv, RecheckInv, DeleteRestricted

\* No step of the engine breaks it.
LEMMA RowNext == EngineInv /\ FlowInv /\ RowInv /\ [Next]_vars => RowInv'
  BY CreateKept, BatchKept, SaveKept, RecheckKept DEF RowInv

\* So what is saved fits in every state.
LEMMA RowAlways == Spec => []RowInv
<1>1. Init => RowInv
  <2> SUFFICES ASSUME Init PROVE RowInv
    OBVIOUS
  <2>1. \A r \in Requests : ~Committed(r)
    <3>1. Len(commits) = 0
      BY DEF Init
    <3> QED BY <3>1 DEF Committed, Store!Committed
  <2>2. CreateInv
    BY <2>1, EngineAssumption DEF Init, FreshIds, CreateInv, NoRows, Mutation
  <2>3. BatchInv
    BY DEF Init, BatchInv, NoRows
  <2>4. SaveInv /\ RecheckInv
    BY DEF Init, SaveInv, RecheckInv, NewProc
  <2> QED BY <2>2, <2>3, <2>4 DEF RowInv
<1> QED BY <1>1, RowNext, FlowAlways, InvAlways, PTL DEF Spec

-----------------------------------------------------------------------------
(* The status table *)

\* A mutation that is accepted moves a row along the table, if at all.
LEMMA WrittenFollowsTable ==
  ASSUME NEW m \in Mutation, NEW row \in Row, row # NoTask, m.kind # "create", Valid(m, row),
         Written(m, row) # NoTask, Written(m, row).status # row.status
  PROVE  validate_transition(row.status, Written(m, row).status)
<1>1. m.kind \in MutationKind
  BY DEF Mutation
<1>2. m.kind # "delete"
  BY DEF Written
<1>3. m.kind # "update"
  <2> SUFFICES ASSUME m.kind = "update" PROVE FALSE
    OBVIOUS
  <2>1. Written(m, row) = Updated(row, m.patch)
    BY DEF Written
  <2>2. Updated(row, m.patch).status = row.status
    BY DEF Updated, Row, Task
  <2> QED BY <2>1, <2>2
<1>4. CASE m.kind = "transition"
  <2>1. Written(m, row) = Transitioned(row, m.target, m.patch)
    BY <1>4 DEF Written
  <2>2. Transitioned(row, m.target, m.patch).status = m.target
    BY DEF Transitioned
  <2>3. CanTransition(row, m.target, m.patch)
    BY <1>4 DEF Valid
  <2> QED BY <2>1, <2>2, <2>3 DEF CanTransition
<1>5. CASE m.kind = "cancel"
  <2>1. Written(m, row) = Transitioned(row, "cancelled", EmptyPatch)
    BY <1>5 DEF Written
  <2>2. Transitioned(row, "cancelled", EmptyPatch).status = "cancelled"
    BY DEF Transitioned
  <2>3. CanTransition(row, "cancelled", EmptyPatch)
    BY <1>5 DEF Valid
  <2> QED BY <2>1, <2>2, <2>3 DEF CanTransition
<1> QED BY <1>1, <1>2, <1>3, <1>4, <1>5 DEF MutationKind

\* Whatever a row went through between the engine's read and its save, the
\* save moves its status along the table, unless a writer beside the queue
\* wrote over the row in between; and such a writer changes no status where
\* it does not write over a row.
THEOREM StatusesFollowTable == Spec => StatusFollowsTable
<1> DEFINE Follows ==
      \A t \in Tasks \ (overwritten \cup overwritten') :
        rows[t] # NoTask /\ rows'[t] # NoTask /\ rows'[t].status # rows[t].status
          => validate_transition(rows[t].status, rows'[t].status)
<1>1. ASSUME EngineInv, FlowInv, RowInv, [Next]_vars PROVE [Follows]_vars
  <2>a. rows \in [Tasks -> Row]
    BY <1>1 DEF EngineInv, TypeOK, StoreOK
  <2>1. CASE NoWrite
    BY <2>1 DEF NoWrite
  <2>2. CASE BesideQueue
    <3>1. \A t \in Tasks : Untouched(t) \/ Filled(t)
      BY <1>1, <2>2, BesideWrites DEF RowInv
    <3> QED BY <3>1 DEF Untouched, Filled
  <2>3. ASSUME NEW g \in Gens, Commit(g) PROVE Follows
    <3>1. PICK r : r = proc[g].req
      OBVIOUS
    <3> DEFINE m == mutation[r]
    <3>2. /\ m \in Mutation /\ m.task \in Tasks
          /\ \E row \in Row :
               /\ m.task \notin overwritten => row = rows[m.task]
               /\ rows' = [rows EXCEPT ![m.task] = Written(m, row)]
               /\ (m.kind = "create") <=> (row = NoTask)
               /\ Valid(m, row)
      BY <1>1, <2>3, <3>1, CommitFits
    <3> HIDE DEF m
    <3>3. ASSUME NEW t \in Tasks, t \notin overwritten, rows[t] # NoTask, rows'[t] # NoTask,
                 rows'[t].status # rows[t].status
          PROVE  validate_transition(rows[t].status, rows'[t].status)
      <4>1. /\ t = m.task /\ rows[t] \in Row /\ rows'[t] = Written(m, rows[t])
            /\ m.kind # "create" /\ Valid(m, rows[t])
        BY <2>a, <3>2, <3>3
      <4> QED BY <3>2, <3>3, <4>1, WrittenFollowsTable
    <3> QED BY <3>3
  <2> QED BY <1>1, <2>1, <2>2, <2>3, WhoWrites
<1> QED BY <1>1, InvAlways, FlowAlways, RowAlways, PTL DEF Spec, StatusFollowsTable

-----------------------------------------------------------------------------
(***************************************************************************)
(* The engine implements TaskStore.  The abstract store keeps the engine's *)
(* rows, mutations, answers and commits; its queue, loops and lifecycle    *)
(* are hidden.  A commit is Apply, a save_many() is WriteBeside, and a     *)
(* step that settles futures, admits a caller or reads a row is Reply.     *)
(***************************************************************************)

\* The store's copies of the operators on rows are the engine's.
LEMMA SameOperators ==
  /\ Store!NoTask = NoTask /\ Store!Filed = Filed /\ Store!Row = Row
  /\ Store!Unknown = Unknown /\ Store!Refused = Refused
  /\ \A m : (Store!NoOp(m) <=> NoOp(m)) /\ (Store!Checked(m) <=> Checked(m))
  /\ \A m, row : Store!Written(m, row) = Written(m, row)
  /\ \A m \in Mutation : \A row : Store!Valid(m, row) <=> Valid(m, row)
<1>1. /\ Store!NoTask = NoTask /\ Store!Filed = Filed /\ Store!EmptyPatch = EmptyPatch
      /\ Store!Unknown = Unknown /\ Store!Refused = Refused
  BY DEF Store!NoTask, NoTask, Store!Filed, Filed, Store!EmptyPatch, EmptyPatch,
         Store!Unknown, Unknown, Store!Refused, Refused
<1>2. \A m : (Store!NoOp(m) <=> NoOp(m)) /\ (Store!Checked(m) <=> Checked(m))
  BY <1>1 DEF Store!NoOp, NoOp, Store!Checked, Checked
<1>3. \A t, target, patch :
        /\ Store!Updated(t, patch) = Updated(t, patch)
        /\ Store!Transitioned(t, target, patch) = Transitioned(t, target, patch)
  BY DEF Store!Updated, Updated, Store!Transitioned, Transitioned, Store!Merge, Merge
<1>4. \A m, row : Store!Written(m, row) = Written(m, row)
  BY <1>1, <1>3 DEF Store!Written, Written
<1>5. \A t, target, patch :
        /\ Store!model_validate(t, patch) <=> model_validate(t, patch)
        /\ Store!CanTransition(t, target, patch) <=> CanTransition(t, target, patch)
  BY <1>3 DEF Store!model_validate, model_validate, Store!CanTransition, CanTransition,
         Store!CoherentTask, CoherentTask, Store!REQUIRES_ASSIGNEE, REQUIRES_ASSIGNEE,
         Store!validate_transition, validate_transition,
         Store!VALID_TRANSITIONS, VALID_TRANSITIONS
<1>6. ASSUME NEW m \in Mutation, NEW row PROVE Store!Valid(m, row) <=> Valid(m, row)
  <2>1. CASE m.kind = "create" \/ m.kind = "update"
    BY <1>4, <1>5, <2>1 DEF Store!Valid, Valid
  <2>2. CASE m.kind = "transition"
    BY <1>5, <2>2 DEF Store!Valid, Valid
  <2>3. CASE m.kind = "cancel"
    BY <1>1, <1>5, <2>3 DEF Store!Valid, Valid
  <2>4. CASE m.kind = "delete"
    BY <2>4 DEF Store!Valid, Valid
  <2> QED BY <2>1, <2>2, <2>3, <2>4 DEF Mutation, MutationKind
<1>7. Store!Row = Row
  BY <1>1 DEF Store!Row, Row, Store!Task, Task, Store!TaskStatus, TaskStatus
<1> QED BY <1>1, <1>2, <1>4, <1>6, <1>7

TrueReply ==
  \A r \in Requests : answer'[r] # answer[r] =>
    \/ answer[r] = "none" /\ answer'[r] \in {"pending"} \cup Refused
    \/ answer[r] = "pending" /\ Store!Justified(r, answer'[r])

\* Who admits, refuses and answers callers.
LEMMA WhoAnswers ==
  ASSUME [Next]_vars
  PROVE  \/ UNCHANGED answer
         \/ \E r \in Requests : Submit(r) \/ Abandon(r)
         \/ \E g \in Gens : \/ Read(g) \/ NothingDeleted(g) \/ Recheck(g) \/ Finish(g)
                            \/ ProcessingFails(g) \/ ProcessingCritical(g)
         \/ \E saved : FailRemaining(saved)
  BY BesideFrame
     DEF vars, callVars, Next, set_max_queue_size, FilePlan, DropPlan, ProcessingStep, Dequeue, Commit, DeleteRestricted, Publish,
         ProcessingCancelled, ProcessingExits, ObserverStep, ObserverGets, ObserverNotified,
         ObserverCancelled, ObserverCritical, Start, Stop, StopStep, ProcessingDrained,
         ProcessingFoundDead, ProcessingUnwound, SendSentinel, ObserverDrained,
         ProcessingDrainTimeout, ObserverDrainTimeout, StopAborted

\* Every answer that is given is true of the store at that moment.
LEMMA RepliesTrue ==
  ASSUME EngineInv, FlowInv, RowInv, [Next]_vars
  PROVE  TrueReply
<1>a. /\ CallsOK /\ answer \in [Requests -> Answer]
      /\ \A r \in Requests : mutation[r] \in Mutation
  BY EngineAssumption DEF EngineInv, TypeOK, CallsOK
<1>b. UNCHANGED answer => TrueReply
  BY DEF TrueReply
<1>c. ASSUME NEW r \in Requests, NEW a, Settle(r, a), Store!Justified(r, a)
      PROVE  TrueReply
  <2>1. /\ \A s \in Requests \ {r} : answer'[s] = answer[s]
        /\ answer'[r] = answer[r] \/ (answer[r] = "pending" /\ answer'[r] = a)
    BY <1>a, <1>c, Settles
  <2> QED BY <1>c, <2>1 DEF TrueReply
<1>d. ASSUME NEW r \in Requests, NEW a \in Unknown PROVE Store!Justified(r, a)
  BY SameOperators DEF Store!Justified
<1>e. ASSUME NEW g \in Gens, proc[g].pc \in ProcBusy PROVE proc[g].req \in Requests
  BY <1>e DEF EngineInv, HoldsRequest
<1>1. ASSUME NEW r \in Requests, Submit(r) PROVE TrueReply
  BY <1>1, <1>a DEF Submit, TrueReply, Refused
<1>2. ASSUME NEW r \in Requests, Abandon(r) PROVE TrueReply
  <2>1. Store!Justified(r, "abandoned")
    BY <1>d DEF Unknown
  <2> QED BY <1>2, <1>a, <2>1 DEF Abandon, TrueReply
<1>3. ASSUME NEW saved, FailRemaining(saved) PROVE TrueReply
  <2>1. \A r \in Requests : Store!Justified(r, "shutdown")
    BY <1>d DEF Unknown
  <2>2. \A r \in Requests : \/ answer'[r] = answer[r]
                            \/ answer[r] = "pending" /\ answer'[r] = "shutdown"
    BY <1>3 DEF FailRemaining
  <2> QED BY <2>1, <2>2 DEF TrueReply
<1>4. ASSUME NEW g \in Gens, Read(g) PROVE TrueReply
  <2>1. PICK r : r = proc[g].req
    OBVIOUS
  <2> DEFINE m == mutation[r]
             row == rows[m.task]
  <2>2. proc[g].pc = "read" /\ r \in Requests
    BY <1>4, <1>e, <2>1 DEF Read, At, ProcBusy
  <2>3. ~Committed(r) /\ m \in Mutation
    BY <1>a, <2>1, <2>2 DEF FlowInv, HeldInv
  <2>4. ASSUME Verdict(m) \in Failures PROVE Store!Justified(r, Verdict(m))
    <3>1. CASE Verdict(m) = "parent_of_plan"
      <4>1. m.kind = "delete"
        BY <3>1 DEF Verdict
      <4> QED BY <2>3, <3>1, <4>1 DEF Store!Justified, Committed
    <3>2. CASE Verdict(m) = "not_found"
      <4>1. row = NoTask
        BY <3>2 DEF Verdict
      <4> QED BY <2>3, <3>2, <4>1, SameOperators DEF Store!Justified, Committed
    <3>3. CASE Verdict(m) = "version_conflict"
      <4>1. Checked(m)
        BY <3>3 DEF Verdict, VersionConflict
      <4> QED BY <2>3, <3>3, <4>1, SameOperators DEF Store!Justified, Committed
    <3>4. CASE Verdict(m) = "validation"
      <4>1. ~Valid(m, row)
        BY <3>4 DEF Verdict
      <4>2. ~Store!Valid(m, row)
        BY <2>3, <4>1, SameOperators
      <4> QED BY <2>3, <3>4, <4>2 DEF Store!Justified, Committed
    <3> QED BY <2>4, <3>1, <3>2, <3>3, <3>4 DEF Failures
  <2>5. ASSUME Verdict(m) = "unchanged" PROVE Store!Justified(r, "success")
    <3>1. NoOp(m) /\ row # NoTask
      BY <2>5 DEF Verdict, NoOp
    <3> QED BY <3>1, SameOperators DEF Store!Justified
  <2>6. \/ Verdict(m) \in Failures /\ Settle(r, Verdict(m))
        \/ Verdict(m) = "unchanged" /\ Settle(r, "success")
        \/ UNCHANGED answer
    BY <1>4, <2>1 DEF Read
  <2> HIDE DEF m
  <2> QED BY <1>b, <1>c, <2>2, <2>4, <2>5, <2>6
<1>5. ASSUME NEW g \in Gens, NothingDeleted(g) PROVE TrueReply
  <2>1. PICK r : r = proc[g].req
    OBVIOUS
  <2>2. /\ proc[g].pc = "save" /\ r \in Requests /\ Settle(r, "not_found")
        /\ rows[mutation[r].task] = NoTask
    BY <1>5, <1>e, <2>1 DEF NothingDeleted, At, ProcBusy
  <2>3. ~Committed(r)
    BY <2>1, <2>2 DEF FlowInv, HeldInv
  <2>4. Store!Justified(r, "not_found")
    BY <2>2, <2>3, SameOperators DEF Store!Justified, Committed
  <2> QED BY <1>c, <2>2, <2>4
<1>6. ASSUME NEW g \in Gens, Recheck(g) PROVE TrueReply
  <2>1. PICK r : r = proc[g].req
    OBVIOUS
  <2>2. /\ proc[g].pc = "recheck" /\ r \in Requests
        /\ Settle(r, "parent_of_plan") \/ Settle(r, "internal")
    BY <1>6, <1>e, <2>1 DEF Recheck, At, ProcBusy
  <2>3. ~Committed(r)
    BY <2>1, <2>2 DEF FlowInv, HeldInv
  <2>4. mutation[r].kind = "delete"
    BY <2>1, <2>2 DEF RowInv, RecheckInv
  <2>5. Store!Justified(r, "parent_of_plan") /\ Store!Justified(r, "internal")
    BY <1>d, <2>2, <2>3, <2>4 DEF Store!Justified, Committed, Unknown
  <2> QED BY <1>c, <2>2, <2>5
<1>7. ASSUME NEW g \in Gens, Finish(g) PROVE TrueReply
  <2>1. PICK r : r = proc[g].req
    OBVIOUS
  <2>2. proc[g].pc = "saved" /\ r \in Requests /\ Settle(r, "success")
    BY <1>7, <1>e, <2>1 DEF Finish, At, ProcBusy
  <2>3. Committed(r)
    BY <2>1, <2>2 DEF FlowInv, HeldInv
  <2>4. Store!Justified(r, "success")
    BY <2>3 DEF Store!Justified, Committed
  <2> QED BY <1>c, <2>2, <2>4
<1>8. ASSUME NEW g \in Gens, ProcessingFails(g) PROVE TrueReply
  <2>1. proc[g].req \in Requests /\ Settle(proc[g].req, "internal")
    BY <1>8, <1>e DEF ProcessingFails, At, ProcBusy
  <2> QED BY <1>c, <1>d, <2>1 DEF Unknown
<1>9. ASSUME NEW g \in Gens, ProcessingCritical(g) PROVE TrueReply
  <2>1. proc[g].req \in Requests /\ Settle(proc[g].req, "critical")
    BY <1>9, <1>e DEF ProcessingCritical
  <2> QED BY <1>c, <1>d, <2>1 DEF Unknown
<1>10. CASE UNCHANGED answer
  BY <1>10, <1>b
<1>11. \/ UNCHANGED answer
       \/ \E r \in Requests : Submit(r) \/ Abandon(r)
       \/ \E g \in Gens : \/ Read(g) \/ NothingDeleted(g) \/ Recheck(g) \/ Finish(g)
                          \/ ProcessingFails(g) \/ ProcessingCritical(g)
       \/ \E saved : FailRemaining(saved)
  BY WhoAnswers
<1> QED BY <1>1, <1>2, <1>3, <1>4, <1>5, <1>6, <1>7, <1>8, <1>9, <1>10, <1>11

\* A step of the engine is a step of the store, or none.
LEMMA StepsMatch ==
  ASSUME EngineInv, FlowInv, RowInv, [Next]_vars
  PROVE  [Store!Next]_(Store!vars)
<1>a. UNCHANGED mutation /\ TrueReply /\ rows \in [Tasks -> Row]
  BY WhoWrites, RepliesTrue DEF EngineInv, TypeOK, StoreOK
<1>1. CASE NoWrite
  <2>1. Store!Reply
    BY <1>1, <1>a, SameOperators DEF NoWrite, Store!Reply, TrueReply
  <2> QED BY <2>1 DEF Store!Next
<1>2. CASE BesideQueue
  <2>1. UNCHANGED <<mutation, answer, commits>> /\ rows' \in [Tasks -> Row]
    BY <1>2, BesideFrame, BesideStore DEF callVars, histVars, EngineInv, TypeOK, StoreOK
  <2>2. \A t \in Tasks : Untouched(t) \/ Filled(t)
    BY <1>2, BesideWrites DEF RowInv
  <2>3. /\ overwritten \subseteq Tasks /\ overwritten' \subseteq Tasks
    BY <1>2, BesideStore DEF EngineInv, TypeOK, StoreOK
  <2> DEFINE S == {t \in Tasks : ~Untouched(t)}
  <2>4. rows' = [t \in Tasks |-> IF t \in S THEN rows'[t] ELSE rows[t]]
    BY <2>1 DEF Untouched
  <2>5. \A t \in S : Store!WrittenBeside(t, rows'[t])
    BY <2>2, SameOperators DEF Filled, Beside, Store!WrittenBeside
  <2>6. overwritten' = overwritten \cup {t \in S : rows[t] # Store!NoTask}
    BY <2>2, <2>3, SameOperators DEF Untouched, Filled
  <2>7. Store!WriteBeside
    BY <2>1, <2>4, <2>5, <2>6 DEF Store!WriteBeside
  <2> QED BY <2>7 DEF Store!Next
<1>3. ASSUME NEW g \in Gens, Commit(g) PROVE Store!Next
  <2>1. PICK r : r = proc[g].req
    OBVIOUS
  <2> DEFINE m == mutation[r]
  <2>2. /\ r \in Requests /\ m \in Mutation
        /\ answer[r] \in Open /\ ~Committed(r) /\ UNCHANGED overwritten
    BY <1>3, <2>1, CommitFits
  <2>3. PICK row \in Row :
          /\ m.task \notin overwritten => row = rows[m.task]
          /\ rows' = [rows EXCEPT ![m.task] = Written(m, row)]
          /\ (m.kind = "create") <=> (row = NoTask)
          /\ ~NoOp(m) /\ Valid(m, row)
    BY <1>3, <2>1, CommitFits
  <2>4. UNCHANGED <<mutation, answer>> /\ commits' = Append(commits, r)
    BY <1>3, <2>1 DEF Commit, callVars
  <2>5. Store!Acceptable(m, row)
    BY <2>2, <2>3, SameOperators DEF Store!Acceptable
  <2>6. /\ rows' = [rows EXCEPT ![m.task] = Store!Written(m, row)]
        /\ row \in IF m.task \in overwritten THEN Store!Row ELSE {rows[m.task]}
    BY <2>3, SameOperators
  <2>7. Store!Apply(r)
    BY <2>2, <2>4, <2>5, <2>6, SameOperators DEF Store!Apply, Open, Committed
  <2> QED BY <2>2, <2>7 DEF Store!Next
<1> QED BY <1>1, <1>2, <1>3, WhoWrites

\* The engine is a linearizable store: whatever its loops, its stop() and its
\* callers run into, every mutation takes effect at most once, in one step and
\* on the row of that moment, and every answer is true when it is given.  Where
\* a writer beside the queue wrote over the row since the engine took the
\* mutation up, it takes effect on a row of before, and in no other case.
THEOREM EngineImplementsStore == Spec => Linearizable
<1>1. Init => Store!Init
  BY DEF Init, Store!Init
<1>2. EngineInv /\ FlowInv /\ RowInv /\ [Next]_vars => [Store!Next]_(Store!vars)
  BY StepsMatch
<1> QED BY <1>1, <1>2, InvAlways, FlowAlways, RowAlways, PTL DEF Spec, Linearizable, Store!Spec

-----------------------------------------------------------------------------
(***************************************************************************)
(* Optimistic concurrency.  A fenced write that passed its check still     *)
(* finds the version it named when it is done, because nobody else bumps   *)
(* one; and a fenced write that succeeded has put the version past the one *)
(* it named, for good unless the task is deleted: a create, which starts   *)
(* the version over, is the first write of its task.                       *)
(***************************************************************************)
Deleted(t) ==
  \E d \in Requests : mutation[d].kind = "delete" /\ Committed(d) /\ mutation[d].task = t

FencedInv ==
  \A g \in Gens : proc[g].pc \in {"save", "saved"} /\ Checked(mutation[proc[g].req]) =>
    versions[mutation[proc[g].req].task] = mutation[proc[g].req].expected

FirstInv ==
  \A g \in Gens : proc[g].pc = "saved" /\ mutation[proc[g].req].kind = "create" =>
    \A s \in Requests : Committed(s) /\ s # proc[g].req =>
      mutation[s].task # mutation[proc[g].req].task

Succeeded(r) == Checked(mutation[r]) /\ answer[r] = "success" /\ Committed(r)

PassedInv ==
  \A r \in Requests : Succeeded(r) =>
    \/ mutation[r].expected < versions[mutation[r].task]
    \/ Deleted(mutation[r].task)

VersionInv == FencedInv /\ FirstInv /\ PassedInv /\ NoLostUpdate

\* Who bumps versions, and who succeeds.
LEMMA WhoBumps ==
  ASSUME EngineInv, FlowInv, [Next]_vars
  PROVE  \/ \E g \in Gens : Finish(g)
         \/ \E g \in Gens : Read(g)
         \/ /\ UNCHANGED versions
            /\ \A r \in Requests : answer'[r] = "success" => answer[r] = "success"
<1>a. CallsOK
  BY DEF EngineInv, TypeOK
<1>b. \A g \in Gens : proc[g].pc \in ProcBusy => proc[g].req \in Requests
  BY DEF EngineInv, HoldsRequest
<1>1. ASSUME NEW r \in Requests, NEW a, Settle(r, a), a # "success"
      PROVE  \A s \in Requests : answer'[s] = "success" => answer[s] = "success"
  BY <1>1, <1>a, Settles
<1>2. ASSUME NEW saved, FailRemaining(saved)
      PROVE  \A s \in Requests : answer'[s] = "success" => answer[s] = "success"
  BY <1>2 DEF FailRemaining
<1>3. ASSUME NEW g \in Gens, NothingDeleted(g) \/ Recheck(g) \/ ProcessingFails(g)
                             \/ ProcessingCritical(g)
      PROVE  \A s \in Requests : answer'[s] = "success" => answer[s] = "success"
  <2>1. proc[g].pc \in ProcBusy
    BY <1>3 DEF NothingDeleted, Recheck, ProcessingFails, ProcessingCritical, At, ProcBusy
  <2>2. \E a : a # "success" /\ Settle(proc[g].req, a)
    BY <1>3 DEF NothingDeleted, Recheck, ProcessingFails, ProcessingCritical
  <2> QED BY <1>1, <1>b, <2>1, <2>2
<1>4. ASSUME NEW r \in Requests, Submit(r) \/ Abandon(r)
      PROVE  \A s \in Requests : answer'[s] = "success" => answer[s] = "success"
  BY <1>4, <1>a DEF Submit, Abandon, CallsOK
<1>5. \/ \E g \in Gens : Finish(g) \/ Read(g)
      \/ UNCHANGED versions
  BY BesideFrame
     DEF vars, storeVars, Next, Submit, Abandon, set_max_queue_size, FilePlan, DropPlan,
         ProcessingStep, Dequeue, Commit, NothingDeleted,
         DeleteRestricted, Recheck, Publish, ProcessingCancelled, ProcessingExits,
         ProcessingFails, ProcessingCritical, ObserverStep, ObserverGets, ObserverNotified,
         ObserverCancelled, ObserverCritical, Start, Stop, StopStep, ProcessingDrained,
         ProcessingFoundDead, ProcessingUnwound, SendSentinel, ObserverDrained,
         ProcessingDrainTimeout, ObserverDrainTimeout, StopAborted
<1>6. \/ UNCHANGED answer
      \/ \E r \in Requests : Submit(r) \/ Abandon(r)
      \/ \E g \in Gens : \/ Read(g) \/ NothingDeleted(g) \/ Recheck(g) \/ Finish(g)
                         \/ ProcessingFails(g) \/ ProcessingCritical(g)
      \/ \E saved : FailRemaining(saved)
  BY WhoAnswers
<1> QED BY <1>2, <1>3, <1>4, <1>5, <1>6

\* The property in terms of fenced writes that succeeded.
LEMMA LostUpdate ==
  NoLostUpdate <=>
    \A r, s \in Requests :
      /\ r # s
      /\ mutation[r].task = mutation[s].task
      /\ mutation[r].expected = mutation[s].expected
      /\ Succeeded(r) /\ Succeeded(s)
      => Deleted(mutation[r].task)
  BY DEF NoLostUpdate, Succeeded, Deleted

\* What is committed stays committed.
LEMMA CommitsLast ==
  ASSUME EngineInv, FlowInv, RowInv, [Next]_vars
  PROVE  /\ \A s \in Requests : Committed(s) => Committed(s)'
         /\ \A s \in Requests : Committed(s)' =>
              Committed(s) \/ \E g \in Gens : Commit(g) /\ proc[g].req = s
         /\ \A t : Deleted(t) => Deleted(t)'
<1>1. ASSUME UNCHANGED commits
      PROVE  \A s \in Requests : Committed(s)' <=> Committed(s)
  BY <1>1, CommitsStay
<1>2. ASSUME NEW g \in Gens, Commit(g)
      PROVE  \A s \in Requests : Committed(s)' <=> Committed(s) \/ s = proc[g].req
  <2>1. PICK r : r = proc[g].req
    OBVIOUS
  <2>2. r \in Requests /\ commits' = Append(commits, r) /\ HistoryOK
    BY <1>2, <2>1, CommitFits DEF Commit, EngineInv, TypeOK
  <2> QED BY <2>1, <2>2, CommitGrows
<1>3. BesideQueue \/ NoWrite => UNCHANGED commits
  BY BesideFrame DEF NoWrite, histVars
<1>4. UNCHANGED mutation
  BY WhoWrites
<1>5. /\ \A s \in Requests : Committed(s) => Committed(s)'
      /\ \A s \in Requests : Committed(s)' =>
           Committed(s) \/ \E g \in Gens : Commit(g) /\ proc[g].req = s
  BY <1>1, <1>2, <1>3, WhoWrites
<1> QED BY <1>4, <1>5 DEF Deleted

\* A fenced write finds the version it was checked against.
LEMMA FencedKept ==
  ASSUME EngineInv, FlowInv, RowInv, VersionInv, [Next]_vars
  PROVE  FencedInv'
<1> SUFFICES ASSUME NEW h \in Gens, NEW r, r = proc'[h].req,
                    proc'[h].pc \in {"save", "saved"}, Checked(mutation'[r])
             PROVE  versions'[mutation'[r].task] = mutation'[r].expected
  BY DEF FencedInv, Checked
<1>a. UNCHANGED mutation
  BY WhoWrites
<1> DEFINE m == mutation[r]
<1>b. /\ proc[h].pc \in ProcBusy /\ proc[h].req = r
      /\ \/ proc[h].pc \in {"save", "saved"} /\ ~Finish(h)
         \/ Commit(h)
         \/ Read(h) /\ Verdict(m) = "write"
  BY LoopsMove DEF Moved, ProcBusy
<1>c. r \in Requests /\ m \in Mutation /\ m.task \in Tasks /\ versions \in [Tasks -> Nat]
  BY <1>b, EngineAssumption DEF EngineInv, TypeOK, CallsOK, StoreOK, HoldsRequest, Mutation
<1>d. \A g \in Gens : Read(g) \/ Finish(g) \/ Commit(g) => g = h
  BY <1>b DEF Read, Finish, Commit, At, ProcBusy, ProcAlive, ProcPC, EngineInv, WriterInv
<1>1. CASE Read(h) /\ Verdict(m) = "write"
  <2>1. rows[m.task] # NoTask /\ ~VersionConflict(m)
    BY <1>1, <1>a DEF Verdict, Checked
  <2>2. versions' = [versions EXCEPT ![m.task] = Seeded(versions[m.task])]
    BY <1>1, <1>a, <1>b, <2>1 DEF Read
  <2>3. Seeded(versions[m.task]) = m.expected
    BY <1>a, <2>1 DEF VersionConflict
  <2> QED BY <1>a, <1>c, <2>2, <2>3
<1>2. CASE Commit(h) \/ (proc[h].pc \in {"save", "saved"} /\ ~Finish(h))
  <2>1. proc[h].pc \in {"save", "saved"}
    BY <1>2 DEF Commit
  <2>2. versions[m.task] = m.expected
    BY <1>a, <1>b, <2>1 DEF VersionInv, FencedInv
  <2>3. ~Read(h) /\ ~Finish(h)
    BY <1>2, <2>1 DEF Read, Finish, Commit, At
  <2>4. UNCHANGED versions
    BY <1>d, <2>3, WhoBumps
  <2> QED BY <1>a, <2>2, <2>4
<1> QED BY <1>b, <1>1, <1>2

\* A create is the first write of its task.
LEMMA FirstKept ==
  ASSUME EngineInv, FlowInv, RowInv, VersionInv, [Next]_vars
  PROVE  FirstInv'
<1> SUFFICES ASSUME NEW h \in Gens, NEW r, r = proc'[h].req,
                    proc'[h].pc = "saved", mutation'[r].kind = "create",
                    NEW s \in Requests, Committed(s)', s # r
             PROVE  mutation'[s].task # mutation'[r].task
  BY DEF FirstInv
<1>a. UNCHANGED mutation
  BY WhoWrites
<1>b. /\ proc[h].pc \in ProcBusy /\ proc[h].req = r
      /\ \/ proc[h].pc = "saved" /\ ~Commit(h)
         \/ Commit(h)
  BY LoopsMove DEF Moved, ProcBusy
<1>c. \A g \in Gens : Commit(g) => g = h
  BY <1>b DEF Commit, ProcBusy, ProcAlive, ProcPC, EngineInv, WriterInv
<1>d. Committed(s)
  BY <1>b, <1>c, CommitsLast
<1>1. CASE Commit(h)
  <2>1. r \in Requests /\ ~Committed(r)
    BY <1>1, <1>b, CommitFits
  <2> QED BY <1>a, <1>d, <2>1 DEF RowInv, CreateInv
<1>2. CASE proc[h].pc = "saved"
  BY <1>2, <1>a, <1>b, <1>d DEF VersionInv, FirstInv
<1> QED BY <1>b, <1>1, <1>2

\* Of two fenced writes of one version, the second does not succeed.
LEMMA PassedKept ==
  ASSUME EngineInv, FlowInv, RowInv, VersionInv, [Next]_vars
  PROVE  PassedInv' /\ NoLostUpdate'
<1>a. /\ UNCHANGED mutation /\ versions \in [Tasks -> Nat] /\ CallsOK
      /\ \A r \in Requests : /\ mutation[r] \in Mutation /\ mutation[r].task \in Tasks
                             /\ mutation[r].expected \in Nat
  BY WhoWrites, EngineAssumption DEF EngineInv, TypeOK, CallsOK, StoreOK, Mutation
<1> DEFINE DeletedNow(t) ==
      \E d \in Requests : /\ mutation[d].kind = "delete" /\ Committed(d)'
                          /\ mutation[d].task = t
<1>b. \A t : Deleted(t) => DeletedNow(t)
  BY CommitsLast DEF Deleted
<1>c. \A r \in Requests : Succeeded(r)' => Checked(mutation[r])
  BY <1>a DEF Succeeded
<1>d. ASSUME \A r \in Requests : Succeeded(r)' =>
               mutation[r].expected < versions'[mutation[r].task] \/ DeletedNow(mutation[r].task),
             \A r, s \in Requests :
               /\ r # s
               /\ mutation[r].task = mutation[s].task
               /\ mutation[r].expected = mutation[s].expected
               /\ Succeeded(r)' /\ Succeeded(s)'
               => DeletedNow(mutation[r].task)
      PROVE  PassedInv' /\ NoLostUpdate'
  <2>1. PassedInv'
    BY <1>a, <1>d DEF PassedInv, Deleted
  <2>2. NoLostUpdate'
    BY <1>a, <1>d DEF NoLostUpdate, Succeeded
  <2> QED BY <2>1, <2>2
<1> HIDE DEF DeletedNow
<1>1. ASSUME \A r \in Requests : Succeeded(r)' => Succeeded(r),
             \A t \in Tasks : versions[t] <= versions'[t]
      PROVE  PassedInv' /\ NoLostUpdate'
  <2>1. \A t \in Tasks : versions'[t] \in Nat
    BY NextInv DEF EngineInv, TypeOK, StoreOK
  <2>2. \A r \in Requests : Succeeded(r)' =>
          mutation[r].expected < versions'[mutation[r].task] \/ DeletedNow(mutation[r].task)
    <3> SUFFICES ASSUME NEW r \in Requests, Succeeded(r)', NEW t, t = mutation[r].task
                 PROVE  mutation[r].expected < versions'[t] \/ DeletedNow(t)
      OBVIOUS
    <3>1. mutation[r].expected < versions[t] \/ Deleted(t)
      BY <1>1 DEF VersionInv, PassedInv
    <3>2. ASSUME Deleted(t) PROVE DeletedNow(t)
      BY <1>b, <3>2
    <3>3. ASSUME mutation[r].expected < versions[t] PROVE mutation[r].expected < versions'[t]
      BY <1>1, <1>a, <2>1, <3>3
    <3> QED BY <3>1, <3>2, <3>3
  <2>3. \A r, s \in Requests :
          /\ r # s
          /\ mutation[r].task = mutation[s].task
          /\ mutation[r].expected = mutation[s].expected
          /\ Succeeded(r)' /\ Succeeded(s)'
          => DeletedNow(mutation[r].task)
    BY <1>1, <1>b, LostUpdate DEF VersionInv
  <2> QED BY <1>d, <2>2, <2>3
<1>2. ASSUME NEW g \in Gens, Finish(g) PROVE PassedInv' /\ NoLostUpdate'
  <2>1. PICK r : r = proc[g].req
    OBVIOUS
  <2>2. PICK t : t = mutation[r].task
    OBVIOUS
  <2>3. /\ proc[g].pc = "saved" /\ r \in Requests /\ UNCHANGED commits /\ t \in Tasks
        /\ Committed(r) /\ answer[r] # "success"
        /\ versions' = [versions EXCEPT ![t] = NextVersion(mutation[r])]
        /\ Settle(r, "success")
    BY <1>2, <1>a, <2>1, <2>2
       DEF Finish, At, EngineInv, HoldsRequest, ProcBusy, histVars, FlowInv, HeldInv, Open, Unknown
  <2>4. \A s \in Requests : Committed(s)' <=> Committed(s)
    BY <2>3, CommitsStay
  <2>5. \A s \in Requests \ {r} : Succeeded(s)' => Succeeded(s)
    BY <1>a, <2>3, <2>4, Settles DEF Succeeded
  <2>6. mutation[r].kind = "delete" => DeletedNow(t)
    <3>1. mutation[r].kind = "delete" => Deleted(t)
      BY <2>2, <2>3 DEF Deleted
    <3> QED BY <1>b, <3>1
  <2>7. Checked(mutation[r]) => mutation[r].expected = versions[t] /\ versions[t] # 0
    BY <2>1, <2>2, <2>3 DEF VersionInv, FencedInv, Checked
  <2>8. mutation[r].kind \notin {"create", "delete"} =>
          versions'[t] = Seeded(versions[t]) + 1 /\ versions[t] < versions'[t]
    BY <1>a, <2>2, <2>3 DEF NextVersion, Seeded
  <2>9. mutation[r].kind = "create" =>
          \A s \in Requests \ {r} : Committed(s) => mutation[s].task # t
    BY <2>1, <2>2, <2>3 DEF VersionInv, FirstInv
  <2>10. ASSUME NEW q \in Requests, Succeeded(q)', NEW u, u = mutation[q].task
         PROVE  mutation[q].expected < versions'[u] \/ DeletedNow(u)
    <3>1. ASSUME q # r PROVE Succeeded(q) /\ Committed(q)
      BY <2>5, <2>10, <3>1 DEF Succeeded
    <3>2. ASSUME q # r PROVE mutation[q].expected < versions[u] \/ DeletedNow(u)
      BY <1>b, <2>10, <3>1, <3>2 DEF VersionInv, PassedInv
    <3>3. ASSUME u # t PROVE versions'[u] = versions[u] /\ q # r
      BY <1>a, <2>2, <2>3, <2>10, <3>3
    <3>4. ASSUME u = t, mutation[r].kind \notin {"create", "delete"}
          PROVE  mutation[q].expected < versions'[u] \/ DeletedNow(u)
      <4>1. CASE q = r
        <5>1. Checked(mutation[r])
          BY <1>c, <2>10, <4>1 DEF Succeeded
        <5> QED BY <2>7, <2>8, <3>4, <4>1, <5>1
      <4>2. CASE q # r
        <5>1. versions[u] \in Nat /\ versions'[u] \in Nat
          BY <1>a, <2>3, <2>8, <3>4 DEF Seeded
        <5>2. mutation[q].expected \in Nat
          BY <1>a
        <5>3. versions[u] < versions'[u]
          BY <2>8, <3>4
        <5> QED BY <3>2, <4>2, <5>1, <5>2, <5>3
      <4> QED BY <4>1, <4>2
    <3>5. ASSUME u = t, mutation[r].kind = "create" PROVE FALSE
      <4>1. q = r
        BY <2>9, <2>10, <3>1, <3>5
      <4>2. Checked(mutation[r])
        BY <1>c, <2>10, <4>1 DEF Succeeded
      <4> QED BY <3>5, <4>2 DEF Checked
    <3> QED BY <2>6, <3>2, <3>3, <3>4, <3>5
  <2>11. ASSUME NEW q \in Requests, NEW s \in Requests, q # s,
                NEW u, u = mutation[q].task, u = mutation[s].task,
                mutation[q].expected = mutation[s].expected, Succeeded(q)', Succeeded(s)'
         PROVE  DeletedNow(u)
    <3>1. ASSUME q # r, s # r PROVE DeletedNow(u)
      BY <1>b, <2>5, <2>11, <3>1, LostUpdate DEF VersionInv
    <3>2. ASSUME NEW x \in {q, s}, x # r, u = t, r \in {q, s} PROVE DeletedNow(u)
      <4>1. Succeeded(x) /\ mutation[x].task = u /\ mutation[x].expected = mutation[r].expected
        BY <2>5, <2>11, <3>2
      <4>2. mutation[x].expected < versions[u] \/ Deleted(u)
        BY <4>1 DEF VersionInv, PassedInv
      <4>3. Checked(mutation[r])
        BY <1>c, <2>11, <3>2 DEF Succeeded
      <4>4. mutation[x].expected = versions[u] /\ versions[u] \in Nat
        BY <1>a, <2>3, <2>7, <3>2, <4>1, <4>3
      <4> QED BY <1>b, <4>2, <4>4
    <3> QED BY <2>2, <2>11, <3>1, <3>2
  <2> QED BY <1>d, <2>10, <2>11
<1>3. ASSUME NEW g \in Gens, Read(g) PROVE PassedInv' /\ NoLostUpdate'
  <2>1. PICK r : r = proc[g].req
    OBVIOUS
  <2>2. proc[g].pc = "read" /\ r \in Requests /\ UNCHANGED commits
    BY <1>3, <2>1 DEF Read, At, EngineInv, HoldsRequest, ProcBusy, histVars
  <2>3. ~Committed(r) /\ \A s \in Requests : Committed(s)' <=> Committed(s)
    BY <2>1, <2>2, CommitsStay DEF FlowInv, HeldInv
  <2>4. \A s \in Requests \ {r} : answer'[s] = answer[s]
    BY <1>3, <1>a, <2>1, <2>2, Settles DEF Read
  <2>5. \A s \in Requests : Succeeded(s)' => Succeeded(s)
    BY <1>a, <2>2, <2>3, <2>4 DEF Succeeded
  <2>6. \A t \in Tasks : versions[t] <= versions'[t]
    <3>1. \A t \in Tasks : versions[t] <= Seeded(versions[t])
      BY <1>a DEF Seeded
    <3>2. \A t \in Tasks : versions'[t] \in {versions[t], Seeded(versions[t])}
      BY <1>3, <1>a DEF Read
    <3> QED BY <1>a, <3>1, <3>2
  <2> QED BY <1>1, <2>5, <2>6
<1>4. ASSUME UNCHANGED versions,
             \A r \in Requests : answer'[r] = "success" => answer[r] = "success"
      PROVE  PassedInv' /\ NoLostUpdate'
  <2>1. \A r \in Requests : Succeeded(r)' => Succeeded(r)
    <3> SUFFICES ASSUME NEW r \in Requests, Succeeded(r)' PROVE Succeeded(r)
      OBVIOUS
    <3>1. Committed(r)' /\ answer[r] = "success" /\ Checked(mutation[r])
      BY <1>4, <1>a DEF Succeeded
    <3>2. Committed(r)
      <4> SUFFICES ASSUME NEW g \in Gens, Commit(g), proc[g].req = r PROVE FALSE
        BY <3>1, CommitsLast
      <4>1. answer[r] \in Open
        BY CommitFits
      <4> QED BY <3>1, <4>1 DEF Open, Unknown
    <3> QED BY <3>1, <3>2 DEF Succeeded
  <2>2. \A t \in Tasks : versions[t] <= versions'[t]
    BY <1>4, <1>a
  <2> QED BY <1>1, <2>1, <2>2
<1> QED BY <1>2, <1>3, <1>4, WhoBumps

\* Every step keeps what is known of versions.
LEMMA VersionNext ==
  ASSUME EngineInv, FlowInv, RowInv, VersionInv, [Next]_vars
  PROVE  VersionInv'
  BY FencedKept, FirstKept, PassedKept DEF VersionInv

\* Of two writes that named the same expected_version of a task, at most one
\* succeeds, unless the task was deleted: VersionTracker checks and bumps in
\* the single writer, and no other step moves a version backwards.
THEOREM UpdatesNotLost == Spec => []NoLostUpdate
<1>1. Init => VersionInv
  BY DEF Init, VersionInv, FencedInv, FirstInv, PassedInv, NoLostUpdate, Succeeded, NewProc
<1>2. EngineInv /\ FlowInv /\ RowInv /\ VersionInv /\ [Next]_vars => VersionInv'
  BY VersionNext
<1>3. VersionInv => NoLostUpdate
  BY DEF VersionInv
<1> QED BY <1>1, <1>2, <1>3, InvAlways, FlowAlways, RowAlways, PTL DEF Spec

-----------------------------------------------------------------------------
(***************************************************************************)
(* The events: the way from the writer through the observer queue and the  *)
(* observer loop keeps the order in which the store committed the writes.  *)
(***************************************************************************)
Delivered(x) == \E i \in 1..Len(delivered) : delivered[i] = x

Dispatching(x) == \E g \in Gens : obs[g].pc = "notify" /\ obs[g].event = x

Waiting(x) == \E i \in 1..Len(observer_queue) : observer_queue[i] = x

Published(x) == Delivered(x) \/ Dispatching(x) \/ Waiting(x)

\* x is further along the way to the observers than y.
Ahead(x, y) ==
  \/ \E i, j \in 1..Len(delivered) : i < j /\ delivered[i] = x /\ delivered[j] = y
  \/ Delivered(x) /\ (Dispatching(y) \/ Waiting(y))
  \/ Dispatching(x) /\ Waiting(y)
  \/ \E i, j \in 1..Len(observer_queue) :
       i < j /\ observer_queue[i] = x /\ observer_queue[j] = y

Before(x, y) ==
  /\ x # y
  /\ \A a, b \in 1..Len(commits) : commits[a] = x /\ commits[b] = y => a < b

\* The engine is done with x: it is neither queued nor held any more, and its
\* caller cannot submit it again.
Through(x) ==
  /\ answer[x] # "none"
  /\ ~Queued(x)
  /\ \A g \in Gens : proc[g].pc \in ProcBusy => proc[g].req # x

(***************************************************************************)
(* Why the order is kept: an event is published while its commit is the    *)
(* last one, what was published before is through with the engine and can  *)
(* neither be committed nor published again, and nothing overtakes on the  *)
(* way, because one observer loop is alive.                                *)
(***************************************************************************)
LastInv ==
  \A g \in Gens : proc[g].pc \in {"saved", "publish"} =>
    \A a \in 1..Len(commits) : commits[a] = proc[g].req => a = Len(commits)

ThroughInv == \A x \in Requests : Published(x) => Through(x)

OrderInv == \A x, y \in Requests : Ahead(x, y) => Before(x, y)

EventInv == LastInv /\ ThroughInv /\ OrderInv

-----------------------------------------------------------------------------
\* An answer is not taken back.
LEMMA AnswersLast ==
  ASSUME EngineInv, [Next]_vars, NEW x \in Requests, answer[x] # "none"
  PROVE  answer'[x] # "none"
<1>a. CallsOK /\ answer \in [Requests -> Answer]
  BY DEF EngineInv, TypeOK, CallsOK
<1>b. ASSUME NEW g \in Gens, proc[g].pc \in ProcBusy, NEW r, r = proc[g].req,
             NEW a, a # "none", Settle(r, a)
      PROVE  answer'[x] # "none"
  <2>1. r \in Requests
    BY <1>b DEF EngineInv, HoldsRequest
  <2> QED BY <1>a, <1>b, <2>1, Settles
<1>1. ASSUME NEW r \in Requests, Submit(r) \/ Abandon(r) PROVE answer'[x] # "none"
  BY <1>1, <1>a DEF Submit, Abandon
<1>2. ASSUME NEW g \in Gens, \/ Read(g) \/ NothingDeleted(g) \/ Recheck(g) \/ Finish(g)
                             \/ ProcessingFails(g) \/ ProcessingCritical(g)
      PROVE  answer'[x] # "none"
  <2>1. PICK r : r = proc[g].req
    OBVIOUS
  <2>2. CASE Read(g)
    <3>1. \/ UNCHANGED answer
          \/ \E a : a # "none" /\ Settle(r, a)
      BY <2>1, <2>2 DEF Read, Verdict
    <3>2. proc[g].pc \in ProcBusy
      BY <2>2 DEF Read, At, ProcBusy
    <3> QED BY <1>b, <2>1, <3>1, <3>2
  <2>3. CASE \/ NothingDeleted(g) \/ Recheck(g) \/ Finish(g)
             \/ ProcessingFails(g) \/ ProcessingCritical(g)
    <3>1. \E a : a # "none" /\ Settle(r, a)
      BY <2>1, <2>3 DEF NothingDeleted, Recheck, Finish, ProcessingFails, ProcessingCritical
    <3>2. proc[g].pc \in ProcBusy
      BY <2>3 DEF NothingDeleted, Recheck, Finish, ProcessingFails, ProcessingCritical, At,
                  ProcBusy
    <3> QED BY <1>b, <2>1, <3>1, <3>2
  <2> QED BY <1>2, <2>2, <2>3
<1>3. ASSUME NEW saved, FailRemaining(saved) PROVE answer'[x] # "none"
  BY <1>3, <1>a DEF FailRemaining
<1> QED BY <1>1, <1>2, <1>3, WhoAnswers

\* Who touches the queue.
LEMMA WhoQueues ==
  ASSUME [Next]_vars
  PROVE  \/ UNCHANGED queue
         \/ \E r \in Requests : Submit(r)
         \/ \E g \in Gens : Dequeue(g)
         \/ queue' = <<>>
<1>1. BesideQueue \/ UNCHANGED vars => UNCHANGED queue
  BY BesideFrame DEF vars, queueVars
<1>2. /\ \A r \in Requests : Abandon(r) => UNCHANGED queue
      /\ \A n \in MaxQueueSizes : set_max_queue_size(n) => UNCHANGED queue
      /\ \A t \in PlanTasks : FilePlan(t) \/ DropPlan(t) => UNCHANGED queue
  BY DEF queueVars, Abandon, set_max_queue_size, FilePlan, DropPlan
<1>3. ASSUME NEW g \in Gens, ProcessingStep(g) PROVE Dequeue(g) \/ UNCHANGED queue
  BY <1>3 DEF queueVars, ProcessingStep, Read, Commit, NothingDeleted, DeleteRestricted,
              Recheck, Finish, Publish, ProcessingCancelled, ProcessingExits
<1>4. ASSUME NEW g \in Gens,
             \/ ProcessingFails(g) \/ ProcessingCritical(g) \/ ObserverStep(g) \/ ObserverCritical(g)
      PROVE  UNCHANGED queue \/ queue' = <<>>
  BY <1>4 DEF queueVars, ProcessingFails, ProcessingCritical, ObserverStep, ObserverGets,
              ObserverNotified, ObserverCancelled, ObserverCritical, FailRemaining
<1>5. ASSUME \/ Start \/ Stop \/ StopStep \/ ProcessingDrainTimeout
             \/ ObserverDrainTimeout \/ StopAborted
      PROVE  UNCHANGED queue \/ queue' = <<>>
  BY <1>5 DEF queueVars, Start, Stop, StopStep, ProcessingDrained, ProcessingFoundDead,
              ProcessingUnwound, SendSentinel, ObserverDrained, ProcessingDrainTimeout,
              ObserverDrainTimeout, StopAborted, FailRemaining
<1> QED BY <1>1, <1>2, <1>3, <1>4, <1>5 DEF Next

\* What the engine is done with stays done with.
LEMMA ThroughStays ==
  ASSUME EngineInv, [Next]_vars, NEW x \in Requests, Through(x)
  PROVE  Through(x)'
<1>a. queue \in Seq(Requests)
  BY DEF EngineInv, TypeOK, QueuesOK
<1>1. answer'[x] # "none"
  BY AnswersLast DEF Through
<1>2. ~Queued(x)'
  <2>1. CASE UNCHANGED queue
    BY <2>1 DEF Through, Queued
  <2>2. ASSUME NEW r \in Requests, Submit(r) PROVE ~Queued(x)'
    <3>1. r # x /\ (UNCHANGED queue \/ queue' = Append(queue, r))
      BY <2>2 DEF Submit, Through
    <3> QED BY <1>a, <3>1 DEF Through, Queued
  <2>3. ASSUME NEW g \in Gens, Dequeue(g) PROVE ~Queued(x)'
    <3>1. queue # <<>> /\ queue' = Tail(queue)
      BY <2>3 DEF Dequeue
    <3>2. Len(queue') = Len(queue) - 1 /\ \A i \in 1..Len(queue') : queue'[i] = queue[i + 1]
      BY <1>a, <3>1
    <3> QED BY <1>a, <3>2 DEF Through, Queued
  <2>4. CASE queue' = <<>>
    BY <2>4 DEF Queued
  <2> QED BY <2>1, <2>2, <2>3, <2>4, WhoQueues
<1>3. ASSUME NEW h \in Gens, proc'[h].pc \in ProcBusy PROVE proc'[h].req # x
  <2>1. CASE Dequeue(h)
    <3>1. queue # <<>> /\ proc'[h].req = Head(queue)
      BY <2>1 DEF Dequeue, EngineInv, TypeOK, LoopsOK, ProcRecord
    <3>2. Head(queue) = queue[1] /\ 1 \in 1..Len(queue)
      BY <1>a, <3>1
    <3> QED BY <3>1, <3>2 DEF Through, Queued
  <2>2. CASE proc[h].pc \in ProcBusy /\ proc'[h].req = proc[h].req
    BY <2>2 DEF Through
  <2> QED BY <1>3, <2>1, <2>2, LoopsMove DEF Moved
<1> QED BY <1>1, <1>2, <1>3 DEF Through
-----------------------------------------------------------------------------
\* A write is the last commit from the moment it commits until it is published.
LEMMA LastKept ==
  ASSUME EngineInv, FlowInv, RowInv, LastInv, [Next]_vars
  PROVE  LastInv'
<1> SUFFICES ASSUME NEW h \in Gens, proc'[h].pc \in {"saved", "publish"},
                    NEW r, r = proc'[h].req,
                    NEW a \in 1..Len(commits'), commits'[a] = r
             PROVE  a = Len(commits')
  BY DEF LastInv
<1>a. commits \in Seq(Requests)
  BY DEF EngineInv, TypeOK, HistoryOK
<1>b. /\ proc[h].pc \in ProcBusy /\ proc[h].req = r
      /\ \/ proc[h].pc \in {"saved", "publish"} /\ ~Commit(h)
         \/ Read(h)
         \/ Commit(h)
  BY LoopsMove DEF Moved, ProcBusy, Finish, Commit, At
<1>c. \A g \in Gens : Commit(g) => g = h
  BY <1>b DEF Commit, ProcBusy, ProcAlive, ProcPC, EngineInv, WriterInv
<1>d. BesideQueue \/ NoWrite => UNCHANGED commits
  BY BesideFrame DEF NoWrite, histVars
<1>1. CASE Commit(h)
  <2>1. r \in Requests /\ ~Committed(r) /\ commits' = Append(commits, r)
    BY <1>1, <1>b, CommitFits DEF Commit
  <2>2. \A i \in 1..Len(commits) : commits[i] # r
    BY <2>1 DEF Committed, Store!Committed
  <2> QED BY <1>a, <2>1, <2>2
<1>2. CASE Read(h) /\ ~Commit(h)
  <2>1. UNCHANGED commits
    BY <1>2, <1>c, <1>d, WhoWrites
  <2>2. proc[h].pc = "read" /\ ~Committed(r)
    BY <1>2, <1>b DEF Read, At, FlowInv, HeldInv
  <2> QED BY <2>1, <2>2 DEF Committed, Store!Committed
<1>3. CASE proc[h].pc \in {"saved", "publish"} /\ ~Commit(h)
  <2>1. UNCHANGED commits
    BY <1>3, <1>c, <1>d, WhoWrites
  <2> QED BY <1>3, <1>b, <2>1 DEF LastInv
<1> QED BY <1>b, <1>1, <1>2, <1>3

\* The events on their way move only by a publish, by stop()'s sentinel and by
\* the two steps of an observer loop; any other step may only drop one.
LEMMA WhoDelivers ==
  ASSUME EngineInv, [Next]_vars
  PROVE  \/ \E g \in Gens : Publish(g)
         \/ SendSentinel
         \/ \E g \in Gens : ObserverGets(g)
         \/ \E g \in Gens : ObserverNotified(g)
         \/ /\ UNCHANGED <<observer_queue, delivered>>
            /\ \A x : Dispatching(x)' => Dispatching(x)
<1>a. obs \in [Gens -> ObsRecord]
  BY DEF EngineInv, TypeOK, LoopsOK
<1>1. \/ \E g \in Gens : Publish(g)
      \/ SendSentinel
      \/ \E g \in Gens : ObserverGets(g)
      \/ \E g \in Gens : ObserverNotified(g)
      \/ \E g \in Gens : ObserverCancelled(g)
      \/ \E g \in Gens : ObserverCritical(g)
      \/ Start
      \/ ObserverDrainTimeout
      \/ UNCHANGED <<observer_queue, delivered, obs>>
  <2> DEFINE Idles == UNCHANGED <<observer_queue, delivered, obs>>
  <2>1. ASSUME \/ \E r \in Requests : Submit(r) \/ Abandon(r)
               \/ \E n \in MaxQueueSizes : set_max_queue_size(n)
               \/ \E t \in PlanTasks : FilePlan(t) \/ DropPlan(t)
               \/ BesideQueue \/ UNCHANGED vars
        PROVE  Idles
    BY <2>1, BesideFrame
       DEF vars, queueVars, histVars, loopVars, Submit, Abandon, set_max_queue_size, FilePlan,
           DropPlan
  <2>2. ASSUME NEW g \in Gens, ProcessingStep(g), ~Publish(g) PROVE Idles
    BY <2>2 DEF queueVars, histVars, loopVars, ProcessingStep, Dequeue, Read, Commit,
                NothingDeleted, DeleteRestricted, Recheck, Finish, ProcessingCancelled,
                ProcessingExits
  <2>3. ASSUME NEW g \in Gens, ProcessingFails(g) \/ ProcessingCritical(g) PROVE Idles
    BY <2>3 DEF queueVars, histVars, loopVars, ProcessingFails, ProcessingCritical
  <2>4. ASSUME Stop \/ (StopStep /\ ~SendSentinel) \/ ProcessingDrainTimeout \/ StopAborted
        PROVE  Idles
    BY <2>4 DEF queueVars, histVars, loopVars, Stop, StopStep, ProcessingDrained,
                ProcessingFoundDead, ProcessingUnwound, ObserverDrained,
                ProcessingDrainTimeout, StopAborted
  <2> QED BY <2>1, <2>2, <2>3, <2>4 DEF Next, ObserverStep
<1>2. ASSUME NEW g \in Gens, NEW o, o.pc # "notify", obs' = [obs EXCEPT ![g] = o],
             UNCHANGED <<observer_queue, delivered>>
      PROVE  \A x : Dispatching(x)' => Dispatching(x)
  BY <1>a, <1>2 DEF Dispatching
<1>3. ASSUME NEW g \in Gens, ObserverCancelled(g) \/ ObserverCritical(g)
      PROVE  /\ UNCHANGED <<observer_queue, delivered>>
             /\ \A x : Dispatching(x)' => Dispatching(x)
  <2>1. UNCHANGED <<observer_queue, delivered>>
    BY <1>3 DEF ObserverCancelled, ObserverCritical, queueVars, histVars
  <2>2. PICK pc \in {"done", "dead"} : obs' = [obs EXCEPT ![g] = [NewObs EXCEPT !.pc = pc]]
    BY <1>3 DEF ObserverCancelled, ObserverCritical
  <2>3. [NewObs EXCEPT !.pc = pc].pc # "notify"
    BY DEF NewObs
  <2> QED BY <1>2, <2>1, <2>2, <2>3
<1>4. ASSUME Start
      PROVE  /\ UNCHANGED <<observer_queue, delivered>>
             /\ \A x : Dispatching(x)' => Dispatching(x)
  <2>1. UNCHANGED <<observer_queue, delivered>>
    BY <1>4 DEF Start, queueVars, histVars
  <2>2. obs' = [obs EXCEPT ![gen + 1] = [NewObs EXCEPT !.pc = "idle"]]
    BY <1>4 DEF Start
  <2>3. gen + 1 \in Gens
    BY <1>4, EngineAssumption DEF Start, Gens, EngineInv, TypeOK, LifeOK
  <2>4. [NewObs EXCEPT !.pc = "idle"].pc # "notify"
    BY DEF NewObs
  <2> QED BY <1>2, <2>1, <2>2, <2>3, <2>4
<1>5. ASSUME ObserverDrainTimeout
      PROVE  /\ UNCHANGED <<observer_queue, delivered>>
             /\ \A x : Dispatching(x)' => Dispatching(x)
  <2>1. /\ UNCHANGED <<observer_queue, delivered>>
        /\ obs' = [obs EXCEPT ![observer_task].cancelled = TRUE]
    BY <1>5 DEF ObserverDrainTimeout, queueVars, histVars
  <2>2. \A g \in Gens : obs'[g].pc = obs[g].pc /\ obs'[g].event = obs[g].event
    BY <1>a, <2>1 DEF ObsRecord
  <2> QED BY <2>1, <2>2 DEF Dispatching
<1>6. UNCHANGED obs => \A x : Dispatching(x)' => Dispatching(x)
  BY DEF Dispatching
<1> QED BY <1>1, <1>3, <1>4, <1>5, <1>6
\* A step that publishes nothing new.
NothingNew ==
  /\ \A x \in Requests : Published(x)' => Published(x)
  /\ \A x, y \in Requests : Ahead(x, y)' => Ahead(x, y)

\* Observers take events in the order of their queue, and hand one on before
\* they take the next.
LEMMA ObserverKeepsOrder ==
  ASSUME EngineInv, DispatcherInv, NEW g \in Gens, ObserverGets(g) \/ ObserverNotified(g)
  PROVE  NothingNew
<1>a. /\ obs \in [Gens -> ObsRecord] /\ delivered \in Seq(Requests)
      /\ observer_queue \in Seq(Requests \cup {Sentinel}) /\ Sentinel \notin Requests
  BY EngineAssumption DEF EngineInv, TypeOK, LoopsOK, QueuesOK, HistoryOK
<1>1. ASSUME ObserverGets(g) PROVE NothingNew
  <2>1. /\ observer_queue # <<>> /\ observer_queue' = Tail(observer_queue)
        /\ UNCHANGED delivered
    BY <1>1 DEF ObserverGets, histVars
  <2>2. PICK e : e = Head(observer_queue)
    OBVIOUS
  <2>3. /\ Len(observer_queue') = Len(observer_queue) - 1 /\ Len(observer_queue) \in Nat
        /\ \A i \in 1..Len(observer_queue') : observer_queue'[i] = observer_queue[i + 1]
        /\ observer_queue[1] = e /\ 1 \in 1..Len(observer_queue)
    BY <1>a, <2>1, <2>2
  <2>4. \A h \in Gens : obs'[h].pc = "notify" =>
          \/ obs[h].pc = "notify" /\ obs'[h].event = obs[h].event
          \/ obs'[h].event = e
    BY <1>1, <1>a, <2>2 DEF ObserverGets, ObsRecord
  <2>5. \A x \in Requests : Dispatching(x)' => Dispatching(x) \/ x = e
    BY <2>4 DEF Dispatching
  <2>6. \A x : Waiting(x)' => \E i \in 2..Len(observer_queue) : observer_queue[i] = x
    <3> SUFFICES ASSUME NEW i \in 1..Len(observer_queue')
                 PROVE  /\ i + 1 \in 2..Len(observer_queue)
                        /\ observer_queue'[i] = observer_queue[i + 1]
      BY DEF Waiting
    <3> QED BY <2>3
  <2>7. \A x : Waiting(x)' => Waiting(x) /\ Ahead(e, x)
    <3> SUFFICES ASSUME NEW i \in 2..Len(observer_queue)
                 PROVE  Waiting(observer_queue[i]) /\ Ahead(e, observer_queue[i])
      BY <2>6
    <3>1. i \in 1..Len(observer_queue) /\ 1 < i
      BY <2>3
    <3> QED BY <2>3, <3>1 DEF Waiting, Ahead
  <2>8. Waiting(e) /\ \A x : Delivered(x)' <=> Delivered(x)
    BY <2>1, <2>3 DEF Waiting, Delivered
  <2>9. ASSUME NEW x, NEW y, NEW i \in 1..Len(observer_queue'), NEW j \in 1..Len(observer_queue'),
               i < j, observer_queue'[i] = x, observer_queue'[j] = y
        PROVE  Ahead(x, y)
    <3>1. /\ i + 1 \in 1..Len(observer_queue) /\ j + 1 \in 1..Len(observer_queue)
          /\ i + 1 < j + 1 /\ observer_queue[i + 1] = x /\ observer_queue[j + 1] = y
      BY <2>3, <2>9
    <3> QED BY <3>1 DEF Ahead
  <2>10. ASSUME NEW x \in Requests, NEW y \in Requests, Ahead(x, y)' PROVE Ahead(x, y)
    <3>1. CASE \E i, j \in 1..Len(delivered') : i < j /\ delivered'[i] = x /\ delivered'[j] = y
      BY <2>1, <3>1 DEF Ahead
    <3>2. CASE Delivered(x)' /\ (Dispatching(y)' \/ Waiting(y)')
      BY <2>5, <2>7, <2>8, <3>2 DEF Ahead
    <3>3. CASE Dispatching(x)' /\ Waiting(y)'
      BY <2>5, <2>7, <3>3 DEF Ahead
    <3>4. CASE \E i, j \in 1..Len(observer_queue') :
                 i < j /\ observer_queue'[i] = x /\ observer_queue'[j] = y
      BY <2>9, <3>4
    <3> QED BY <2>10, <3>1, <3>2, <3>3, <3>4 DEF Ahead
  <2> QED BY <2>5, <2>7, <2>8, <2>10 DEF NothingNew, Published
<1>2. ASSUME ObserverNotified(g) PROVE NothingNew
  <2>1. PICK e : e = obs[g].event
    OBVIOUS
  <2>2. /\ delivered' = Append(delivered, e) /\ UNCHANGED observer_queue
        /\ obs[g].pc = "notify" /\ Dispatching(e)
        /\ obs' = [obs EXCEPT ![g] = [NewObs EXCEPT !.pc = "idle"]]
    BY <1>2, <2>1 DEF ObserverNotified, queueVars, Dispatching
  <2>3. e \in Requests
    BY <2>1, <2>2 DEF EngineInv, HoldsRequest
  <2>4. /\ Len(delivered') = Len(delivered) + 1 /\ Len(delivered) \in Nat
        /\ delivered'[Len(delivered) + 1] = e
        /\ \A i \in 1..Len(delivered) : delivered'[i] = delivered[i]
        /\ \A i \in 1..Len(delivered') : i \in 1..Len(delivered) \/ i = Len(delivered) + 1
    BY <1>a, <2>2, <2>3
  <2>5. \A x : ~Dispatching(x)'
    <3>1. obs'[g].pc # "notify"
      BY <1>a, <2>2 DEF NewObs
    <3>2. \A h \in Gens \ {g} : obs'[h].pc # "notify"
      BY <1>a, <2>2 DEF DispatcherInv, ObsAlive
    <3> QED BY <3>1, <3>2 DEF Dispatching
  <2>6. \A x : Delivered(x)' => Delivered(x) \/ x = e
    BY <2>4 DEF Delivered
  <2>7. \A x : Waiting(x)' <=> Waiting(x)
    BY <2>2 DEF Waiting
  <2>8. ASSUME NEW x, NEW y, NEW i \in 1..Len(delivered'), NEW j \in 1..Len(delivered'),
               i < j, delivered'[i] = x, delivered'[j] = y
        PROVE  Ahead(x, y)
    <3>1. i \in 1..Len(delivered) /\ delivered[i] = x /\ Delivered(x)
      BY <2>4, <2>8 DEF Delivered
    <3>2. CASE j \in 1..Len(delivered)
      BY <2>4, <2>8, <3>1, <3>2 DEF Ahead
    <3>3. CASE j = Len(delivered) + 1
      BY <2>2, <2>4, <2>8, <3>1, <3>3 DEF Ahead
    <3> QED BY <2>4, <3>2, <3>3
  <2>9. ASSUME NEW x \in Requests, NEW y \in Requests, Ahead(x, y)' PROVE Ahead(x, y)
    <3>1. CASE \E i, j \in 1..Len(delivered') : i < j /\ delivered'[i] = x /\ delivered'[j] = y
      BY <2>8, <3>1
    <3>2. CASE Delivered(x)' /\ (Dispatching(y)' \/ Waiting(y)')
      BY <2>2, <2>5, <2>6, <2>7, <3>2 DEF Ahead
    <3>3. CASE Dispatching(x)' /\ Waiting(y)'
      BY <2>5, <3>3
    <3>4. CASE \E i, j \in 1..Len(observer_queue') :
                 i < j /\ observer_queue'[i] = x /\ observer_queue'[j] = y
      BY <2>2, <3>4 DEF Ahead
    <3> QED BY <2>9, <3>1, <3>2, <3>3, <3>4 DEF Ahead
  <2> QED BY <2>2, <2>5, <2>6, <2>7, <2>9 DEF NothingNew, Published
<1> QED BY <1>1, <1>2

\* An event, or the sentinel, joins at the end of the observers' queue.
LEMMA EventJoins ==
  ASSUME EngineInv, NEW e, e \in Requests \cup {Sentinel},
         observer_queue' = Append(observer_queue, e) \/ UNCHANGED observer_queue,
         UNCHANGED obs, UNCHANGED delivered
  PROVE  /\ \A x \in Requests : Published(x)' => Published(x) \/ x = e
         /\ \A x, y \in Requests : Ahead(x, y)' => Ahead(x, y) \/ (Published(x) /\ y = e)
<1>a. observer_queue \in Seq(Requests \cup {Sentinel})
  BY DEF EngineInv, TypeOK, QueuesOK
<1>1. /\ \A x : Delivered(x)' <=> Delivered(x)
      /\ \A x : Dispatching(x)' <=> Dispatching(x)
  BY DEF Delivered, Dispatching
<1>2. CASE UNCHANGED observer_queue
  BY <1>2, <1>1 DEF Published, Ahead, Waiting
<1>3. CASE observer_queue' = Append(observer_queue, e)
  <2>1. /\ Len(observer_queue') = Len(observer_queue) + 1 /\ Len(observer_queue) \in Nat
        /\ observer_queue'[Len(observer_queue) + 1] = e
        /\ \A i \in 1..Len(observer_queue) : observer_queue'[i] = observer_queue[i]
        /\ \A i \in 1..Len(observer_queue') :
             i \in 1..Len(observer_queue) \/ i = Len(observer_queue) + 1
    BY <1>a, <1>3
  <2>2. \A x : Waiting(x)' => Waiting(x) \/ x = e
    BY <2>1 DEF Waiting
  <2>3. ASSUME NEW x, NEW y, NEW i \in 1..Len(observer_queue'), NEW j \in 1..Len(observer_queue'),
               i < j, observer_queue'[i] = x, observer_queue'[j] = y
        PROVE  Ahead(x, y) \/ (Published(x) /\ y = e)
    <3>1. i \in 1..Len(observer_queue) /\ observer_queue[i] = x /\ Waiting(x)
      BY <2>1, <2>3 DEF Waiting
    <3>2. CASE j \in 1..Len(observer_queue)
      BY <2>1, <2>3, <3>1, <3>2 DEF Ahead
    <3>3. CASE j = Len(observer_queue) + 1
      BY <2>1, <2>3, <3>1, <3>3 DEF Published
    <3> QED BY <2>1, <3>2, <3>3
  <2>4. ASSUME NEW x \in Requests, NEW y \in Requests, Ahead(x, y)'
        PROVE  Ahead(x, y) \/ (Published(x) /\ y = e)
    <3>1. CASE \E i, j \in 1..Len(delivered') : i < j /\ delivered'[i] = x /\ delivered'[j] = y
      BY <3>1 DEF Ahead
    <3>2. CASE Delivered(x)' /\ (Dispatching(y)' \/ Waiting(y)')
      BY <1>1, <2>2, <3>2 DEF Ahead, Published
    <3>3. CASE Dispatching(x)' /\ Waiting(y)'
      BY <1>1, <2>2, <3>3 DEF Ahead, Published
    <3>4. CASE \E i, j \in 1..Len(observer_queue') :
                 i < j /\ observer_queue'[i] = x /\ observer_queue'[j] = y
      BY <2>3, <3>4
    <3> QED BY <2>4, <3>1, <3>2, <3>3, <3>4 DEF Ahead
  <2> QED BY <1>1, <2>2, <2>4 DEF Published
<1> QED BY <1>2, <1>3

\* A commit leaves the order of what is already published alone.
LEMMA BeforeKept ==
  ASSUME EngineInv, FlowInv, RowInv, [Next]_vars,
         NEW x \in Requests, NEW y \in Requests, Through(x), Before(x, y),
         \A g \in Gens : Commit(g) => proc[g].req # y
  PROVE  Before(x, y)'
<1>a. commits \in Seq(Requests)
  BY DEF EngineInv, TypeOK, HistoryOK
<1>1. CASE UNCHANGED commits
  BY <1>1 DEF Before
<1>2. ASSUME NEW g \in Gens, Commit(g) PROVE Before(x, y)'
  <2>1. PICK r : r = proc[g].req
    OBVIOUS
  <2>2. commits' = Append(commits, r) /\ r # x /\ r # y /\ r \in Requests
    BY <1>2, <2>1, CommitFits DEF Commit, At, Through, ProcBusy
  <2>3. /\ Len(commits') = Len(commits) + 1 /\ commits'[Len(commits) + 1] = r
        /\ \A i \in 1..Len(commits) : commits'[i] = commits[i]
        /\ \A i \in 1..Len(commits') : i \in 1..Len(commits) \/ i = Len(commits) + 1
    BY <1>a, <2>2
  <2> QED BY <2>2, <2>3 DEF Before
<1>3. BesideQueue \/ NoWrite => UNCHANGED commits
  BY BesideFrame DEF NoWrite, histVars
<1> QED BY <1>1, <1>2, <1>3, WhoWrites

\* Every step keeps the order of the events.
LEMMA EventNext ==
  ASSUME EngineInv, FlowInv, RowInv, DispatcherInv, EventInv, [Next]_vars
  PROVE  EventInv'
<1>1. LastInv'
  BY LastKept DEF EventInv
<1>2. ASSUME NothingNew PROVE ThroughInv' /\ OrderInv'
  <2>1. ThroughInv'
    BY <1>2, ThroughStays DEF NothingNew, EventInv, ThroughInv
  <2>2. ASSUME NEW x \in Requests, NEW y \in Requests, Ahead(x, y)' PROVE Before(x, y)'
    <3>1. Ahead(x, y) /\ Before(x, y)
      BY <1>2, <2>2 DEF NothingNew, EventInv, OrderInv
    <3>2. Published(x) /\ Published(y)
      BY <3>1 DEF Ahead, Published, Delivered, Waiting
    <3>3. Through(x) /\ Through(y)
      BY <3>2 DEF EventInv, ThroughInv
    <3>4. \A g \in Gens : Commit(g) => proc[g].req # y
      BY <3>3 DEF Through, Commit, ProcBusy
    <3> QED BY <3>1, <3>3, <3>4, BeforeKept
  <2> QED BY <2>1, <2>2 DEF OrderInv
<1>3. ASSUME NEW g \in Gens, Publish(g) PROVE ThroughInv' /\ OrderInv'
  <2>1. PICK r : r = proc[g].req
    OBVIOUS
  <2>2. /\ proc[g].pc = "publish" /\ r \in Requests
        /\ observer_queue' = Append(observer_queue, r) \/ UNCHANGED observer_queue
        /\ UNCHANGED obs /\ UNCHANGED delivered /\ UNCHANGED commits
        /\ UNCHANGED queue /\ UNCHANGED answer
        /\ Released(g)
    BY <1>3, <2>1 DEF Publish, At, EngineInv, HoldsRequest, ProcBusy, histVars, callVars
  <2>3. /\ \A x \in Requests : Published(x)' => Published(x) \/ x = r
        /\ \A x, y \in Requests : Ahead(x, y)' => Ahead(x, y) \/ (Published(x) /\ y = r)
    BY <2>2, EventJoins
  <2>4. Through(r)'
    <3>1. answer'[r] # "none" /\ ~Queued(r)'
      BY <2>1, <2>2 DEF FlowInv, HeldInv, ProcBusy, Unknown, Queued
    <3>2. \A h \in Gens : proc'[h].pc \notin ProcBusy
      BY <2>2 DEF Released, NewProc, ProcBusy, ProcAlive, ProcPC, EngineInv, WriterInv, TypeOK,
                  LoopsOK
    <3> QED BY <3>1, <3>2 DEF Through
  <2>5. ThroughInv'
    BY <2>3, <2>4, ThroughStays DEF EventInv, ThroughInv
  <2>6. ASSUME NEW x \in Requests, Published(x) PROVE Before(x, r)
    <3>1. x # r
      BY <2>1, <2>2, <2>6 DEF EventInv, ThroughInv, Through, ProcBusy
    <3>2. \A b \in 1..Len(commits) : commits[b] = r => b = Len(commits)
      BY <2>1, <2>2 DEF EventInv, LastInv
    <3>3. Len(commits) \in Nat
      BY DEF EngineInv, TypeOK, HistoryOK
    <3> QED BY <3>1, <3>2, <3>3 DEF Before
  <2>7. \A x, y : Before(x, y)' <=> Before(x, y)
    BY <2>2 DEF Before
  <2>8. OrderInv'
    BY <2>3, <2>6, <2>7 DEF EventInv, OrderInv
  <2> QED BY <2>5, <2>8
<1>4. ASSUME SendSentinel PROVE NothingNew
  <2>1. /\ observer_queue' = Append(observer_queue, Sentinel) \/ UNCHANGED observer_queue
        /\ UNCHANGED obs /\ UNCHANGED delivered /\ Sentinel \notin Requests
    BY <1>4, EngineAssumption DEF SendSentinel, loopVars, histVars
  <2> QED BY <2>1, EventJoins DEF NothingNew
<1>5. ASSUME UNCHANGED <<observer_queue, delivered>>, \A x : Dispatching(x)' => Dispatching(x)
      PROVE  NothingNew
  <2>1. /\ \A x : Delivered(x)' <=> Delivered(x)
        /\ \A x : Waiting(x)' <=> Waiting(x)
    BY <1>5 DEF Delivered, Waiting
  <2> QED BY <1>5, <2>1 DEF NothingNew, Published, Ahead
<1> QED BY <1>1, <1>2, <1>3, <1>4, <1>5, WhoDelivers, ObserverKeepsOrder DEF EventInv

\* Observers are called in the order of the commits and once for each, across
\* restarts, full queues and abandoned loops, as long as no loop dies of a
\* critical error (which may leave two observer loops on one queue).
THEOREM DeliveriesInOrder ==
  ASSUME "critical" \notin Faults
  PROVE  Spec => []DeliveredInCommitOrder
<1>1. Init => NoneDead /\ DispatcherInv /\ EventInv
  <2>1. Init => NoneDead /\ DispatcherInv
    BY DEF Init, NoneDead, DispatcherInv, NoDispatcher, NewProc, NewObs, ObsAlive
  <2>2. ASSUME Init PROVE \A x : ~Published(x)
    BY <2>2 DEF Init, NewObs, Published, Delivered, Dispatching, Waiting
  <2>3. ASSUME Init PROVE \A x, y : ~Ahead(x, y)
    BY <2>2, <2>3 DEF Ahead, Published, Delivered, Waiting
  <2>4. Init => LastInv
    BY DEF Init, NewProc, LastInv
  <2> QED BY <2>1, <2>2, <2>3, <2>4 DEF EventInv, ThroughInv, OrderInv
<1>2. EngineInv /\ NoneDead /\ DispatcherInv /\ [Next]_vars => (NoneDead /\ DispatcherInv)'
  BY NobodyDies, DispatcherStep
<1>3. EngineInv /\ FlowInv /\ RowInv /\ DispatcherInv /\ EventInv /\ [Next]_vars => EventInv'
  BY EventNext
<1>4. EngineInv /\ EventInv => DeliveredInCommitOrder
  <2> SUFFICES ASSUME EngineInv, OrderInv,
                      NEW i \in 1..Len(delivered), NEW j \in 1..Len(delivered), i < j
               PROVE  Before(delivered[i], delivered[j])
    BY DEF EventInv, DeliveredInCommitOrder, Before
  <2>1. delivered[i] \in Requests /\ delivered[j] \in Requests
    BY DEF EngineInv, TypeOK, HistoryOK
  <2>2. Ahead(delivered[i], delivered[j])
    BY DEF Ahead
  <2> QED BY <2>1, <2>2 DEF OrderInv
<1> QED BY <1>1, <1>2, <1>3, <1>4, InvAlways, FlowAlways, RowAlways, PTL DEF Spec

=============================================================================
