------------------------ MODULE ApprovalDecisionProofs ------------------------
(***************************************************************************)
(* Proofs about ApprovalDecision for any number of deciders, crashes and   *)
(* clears of the cache.                                                    *)
(***************************************************************************)
EXTENDS ApprovalDecision, FiniteSetTheorems, TLAPS

InFlight == {"restoring", "restored"}

\* The lock belongs to the decision that writes; a save() that is under way keeps
\* every decision from taking it and every other save() out; a drain is alone.
LockInv ==
  /\ \A d \in Deciders : decider[d].pc = "write" <=> lock = d
  /\ \A d \in Deciders : decider[d].pc \in InFlight => lock = NoOne
  /\ \A d, e \in Deciders : decider[d].pc \in InFlight /\ decider[e].pc \in InFlight => d = e
  /\ drain # "off" => \A d \in Deciders : decider[d].pc \in {"idle", "done"}

\* A row is as it was made, or carries the outcome of the decision it names.
RowTrue(row, decisions) ==
  /\ row.status = "pending" => row = Pending
  /\ row.status = "absent" => row = Absent
  /\ row.status \in Outcomes => row.by \in Deciders /\ row.status = decisions[row.by].outcome

RowsTrue == RowTrue(repo, decider) /\ RowTrue(cache, decider) /\ RowTrue(scan.row, decider)

\* Nothing expires where nothing falls due.
NeverExpires ==
  Without({"expiry"}) =>
    /\ ~due
    /\ "expired" \notin {repo.status, cache.status, scan.row.status}

\* Without a listing the winner's row stands, a decision is written over a pending
\* row only, and the cache is as CacheAgrees says.
Standing ==
  /\ scan = NoScan
  /\ \A d \in Deciders : decider[d].pc = "restored" => repo = Pending \/ due
  /\ \A d \in Deciders : decider[d].pc = "write" => repo = Pending
  /\ \A d \in Deciders : decider[d].pc \in {"signal", "restore", "restoring"} => decider[d].won
  /\ \A d \in Deciders : decider[d].won => repo.by = d /\ repo.status \in Outcomes
  /\ fired => repo.status = "expired"

Agreement ==
  \/ cache \in {Absent, repo}
  \/ \E d \in Deciders : decider[d].pc = "restored"
  \/ cache = Pending /\ due

StoreInv == Without({"scan"}) => Standing /\ Agreement

\* As long as no decision is taken back, the stamp of the one grant stays.
GrantInv ==
  Without({"scan", "dispatch_error"}) =>
    /\ \A d \in Deciders : decider[d].pc \notin {"restore"} \union InFlight
    /\ \/ grants = 0 /\ ~repo.used
       \/ grants = 1 /\ repo.used /\ repo.status = "approved"

ActedUpon == repo.status \in Outcomes /\ [by |-> repo.by, outcome |-> repo.status] \in resumed

\* The marker is there, and not younger than the decision, until the decision has
\* been acted upon: from before the decision on.
MarkerInv ==
  Without({"scan", "marker_error", "dispatch_error"}) =>
    /\ \A d \in Deciders : decider[d].pc \in {"save", "write"} =>
         repo.status # "pending" \/ (marker # 0 /\ marker <= decider[d].at)
    /\ repo.status \in Outcomes => ActedUpon \/ (marker # 0 /\ marker <= repo.at)
    /\ \A d \in Deciders : decider[d].pc = "clear" => ActedUpon
    /\ drain = "clear" => repo.status \notin Outcomes \/ ActedUpon


-----------------------------------------------------------------------------
(* What the steps of the store do                                          *)

\* Reading through the cache: the row is left alone or expires, and what is
\* returned is the row, or a cached copy that has not lapsed.
LEMMA ReadFacts ==
  ASSUME TypeOK, RowsTrue, ReadThrough
  PROVE  /\ Current \in Row /\ repo' \in Row /\ repo'.status # "absent"
         /\ Current.status # "absent"
         /\ \/ repo' = repo
            \/ due /\ repo = Pending /\ repo' = [Pending EXCEPT !.status = "expired"]
         /\ \/ Current = repo'
            \/ Current = cache /\ repo' = repo /\ ~(due /\ cache.status = "pending")
<1>0. /\ repo \in Row /\ cache \in Row /\ repo.status # "absent"
      /\ repo.status = "pending" => repo = Pending
      /\ cache.status = "absent" => cache = Absent
  BY DEF TypeOK, RowsTrue, RowTrue
<1>1. CASE Lapsed
  <2>1. repo' = Expire(repo) /\ Current = repo'
    BY <1>1 DEF ReadThrough, Current
  <2>2. CASE repo.status = "pending"
    <3>1. repo' = [Pending EXCEPT !.status = "expired"]
      BY <1>0, <2>1, <2>2 DEF Expire
    <3>2. [Pending EXCEPT !.status = "expired"] \in Row /\ [Pending EXCEPT !.status = "expired"].status = "expired"
      BY DEF Pending, Row
    <3> QED BY <1>0, <1>1, <2>1, <2>2, <3>1, <3>2 DEF Lapsed
  <2>3. CASE repo.status # "pending"
    BY <1>0, <2>1, <2>3 DEF Expire
  <2> QED BY <2>2, <2>3
<1>2. CASE ~Lapsed
  <2>1. repo' = repo /\ Current = Cached
    BY <1>2 DEF ReadThrough, Current
  <2>2. CASE cache = Absent
    BY <1>0, <2>1, <2>2 DEF Cached
  <2>3. CASE cache # Absent
    BY <1>0, <1>2, <2>1, <2>3 DEF Cached, Lapsed
  <2> QED BY <2>2, <2>3
<1> QED BY <1>1, <1>2

\* Only pc changes.
LEMMA GotoFacts ==
  ASSUME TypeOK, NEW d \in Deciders, NEW p, Goto(d, p)
  PROVE  /\ decider'[d].pc = p /\ decider'[d].outcome = decider[d].outcome
         /\ decider'[d].at = decider[d].at /\ decider'[d].won = decider[d].won
         /\ decider'[d].gen = decider[d].gen
         /\ \A e \in Deciders \ {d} : decider'[e] = decider[e]
         /\ p \in {"idle", "record", "save", "write", "signal", "clear", "restore", "restoring",
                   "restored", "done"}
            => decider' \in [Deciders -> DeciderRecord]
<1>1. decider[d] \in DeciderRecord
  BY DEF TypeOK
<1>2. decider' = [decider EXCEPT ![d] = [decider[d] EXCEPT !.pc = p]]
  BY DEF Goto
<1>3. p \in {"idle", "record", "save", "write", "signal", "clear", "restore", "restoring",
             "restored", "done"}
      => [decider[d] EXCEPT !.pc = p] \in DeciderRecord
  BY <1>1 DEF DeciderRecord
<1> QED BY <1>1, <1>2, <1>3 DEF TypeOK, DeciderRecord

\* The row of a decision.
LEMMA DecisionFacts ==
  ASSUME TypeOK, NEW d \in Deciders
  PROVE  /\ Decision(d) \in Row /\ Decision(d).status = decider[d].outcome
         /\ decider[d].outcome \in Outcomes /\ Decision(d).by = d
         /\ Decision(d).at = decider[d].at /\ Decision(d).used = FALSE
  BY DEF TypeOK, DeciderRecord, Decision, Row

\* The constant rows are rows.
LEMMA ConstantRows ==
  /\ Pending \in Row /\ Absent \in Row /\ Pending.status = "pending" /\ Absent.status = "absent"
  /\ NoScan.row = Absent /\ NoScan.pc = "idle" /\ NoScan.gen = 0
  BY DEF Pending, Absent, Row, NoScan

\* What a decision's steps make of its record.
LEMMA RecordIntentFacts ==
  ASSUME TypeOK, NEW d \in Deciders, RecordIntent(d)
  PROVE  /\ decider' \in [Deciders -> DeciderRecord]
         /\ decider'[d].pc = "save" /\ decider'[d].outcome = decider[d].outcome
         /\ decider'[d].at = now /\ decider'[d].won = decider[d].won
         /\ \A e \in Deciders \ {d} : decider'[e] = decider[e]
<1> DEFINE r == [decider[d] EXCEPT !.pc = "save", !.at = now]
<1>1. r \in DeciderRecord /\ r.pc = "save" /\ r.at = now /\ r.outcome = decider[d].outcome
      /\ r.won = decider[d].won
  BY DEF TypeOK, DeciderRecord
<1>2. decider' = [decider EXCEPT ![d] = r]
  BY DEF RecordIntent
<1> QED BY <1>1, <1>2 DEF TypeOK

\* The deciders after a write that landed.
LEMMA SaveDecisionFacts ==
  ASSUME TypeOK, NEW d \in Deciders, SaveDecision(d)
  PROVE  /\ decider' \in [Deciders -> DeciderRecord]
         /\ decider'[d].pc = "signal" /\ decider'[d].outcome = decider[d].outcome
         /\ decider'[d].at = decider[d].at /\ decider'[d].won
         /\ \A e \in Deciders \ {d} : decider'[e] = decider[e]
<1> DEFINE r == [decider[d] EXCEPT !.pc = "signal", !.won = TRUE]
<1>1. r \in DeciderRecord /\ r.pc = "signal" /\ r.won /\ r.outcome = decider[d].outcome
      /\ r.at = decider[d].at
  BY DEF TypeOK, DeciderRecord
<1>2. decider' = [decider EXCEPT ![d] = r]
  BY DEF SaveDecision
<1> QED BY <1>1, <1>2 DEF TypeOK

\* ... after the first step of a roll-back, which gives up while another save() is under way.
LEMMA RestoreFacts ==
  ASSUME TypeOK, NEW d \in Deciders, Restore(d)
  PROVE  /\ decider' \in [Deciders -> DeciderRecord]
         /\ decider'[d].pc = IF SaveInFlight THEN "clear" ELSE "restoring"
         /\ decider'[d].outcome = decider[d].outcome
         /\ decider'[d].at = decider[d].at /\ decider'[d].won = decider[d].won
         /\ \A e \in Deciders \ {d} : decider'[e] = decider[e]
<1> DEFINE p == IF SaveInFlight THEN "clear" ELSE "restoring"
           r == [decider[d] EXCEPT !.pc = p, !.gen = generation]
<1>1. r \in DeciderRecord /\ r.pc = p /\ r.outcome = decider[d].outcome
      /\ r.at = decider[d].at /\ r.won = decider[d].won
  BY DEF TypeOK, DeciderRecord
<1>2. decider' = [decider EXCEPT ![d] = r]
  BY DEF Restore
<1> QED BY <1>1, <1>2 DEF TypeOK

\* ... after its second: the decision no longer stands.
LEMMA RestoreRowFacts ==
  ASSUME TypeOK, NEW d \in Deciders, RestoreRow(d)
  PROVE  /\ decider' \in [Deciders -> DeciderRecord]
         /\ decider'[d].pc = "restored" /\ decider'[d].outcome = decider[d].outcome
         /\ decider'[d].at = decider[d].at /\ ~decider'[d].won
         /\ \A e \in Deciders \ {d} : decider'[e] = decider[e]
<1> DEFINE r == [decider[d] EXCEPT !.pc = "restored", !.won = FALSE]
<1>1. r \in DeciderRecord /\ r.pc = "restored" /\ ~r.won /\ r.outcome = decider[d].outcome
      /\ r.at = decider[d].at
  BY DEF TypeOK, DeciderRecord
<1>2. decider' = [decider EXCEPT ![d] = r]
  BY DEF RestoreRow
<1> QED BY <1>1, <1>2 DEF TypeOK

\* ... and after a crash: who had begun is gone, what was decided stays.
LEMMA CrashFacts ==
  ASSUME TypeOK, Crash
  PROVE  /\ decider' \in [Deciders -> DeciderRecord]
         /\ \A d \in Deciders :
              /\ decider'[d].pc \in {"idle", "done"}
              /\ decider'[d].outcome = decider[d].outcome /\ decider'[d].at = decider[d].at
              /\ decider'[d].won = decider[d].won
<1>1. ASSUME NEW d \in Deciders
      PROVE  /\ decider[d] \in DeciderRecord
             /\ [decider[d] EXCEPT !.pc = "done"] \in DeciderRecord
             /\ [decider[d] EXCEPT !.pc = "done"].pc = "done"
             /\ [decider[d] EXCEPT !.pc = "done"].outcome = decider[d].outcome
             /\ [decider[d] EXCEPT !.pc = "done"].at = decider[d].at
             /\ [decider[d] EXCEPT !.pc = "done"].won = decider[d].won
  BY DEF TypeOK, DeciderRecord
<1>2. decider' = [d \in Deciders |-> IF decider[d].pc = "idle" THEN decider[d]
                                     ELSE [decider[d] EXCEPT !.pc = "done"]]
  BY DEF Crash
<1> QED BY <1>1, <1>2

-----------------------------------------------------------------------------
(* Types and the lock                                                      *)

\* Nobody has begun.
LEMMA InitType == Init => TypeOK /\ LockInv
<1> SUFFICES ASSUME Init PROVE TypeOK /\ LockInv
  OBVIOUS
<1>1. ASSUME NEW d \in Deciders
      PROVE  decider[d] \in DeciderRecord /\ decider[d].pc = "idle" /\ decider[d].at = 0
  <2>1. PICK o \in Outcomes :
          decider[d] = [pc |-> "idle", outcome |-> o, at |-> 0, gen |-> 0, won |-> FALSE]
    BY DEF Init
  <2> QED BY <2>1, ApprovalAssumption DEF DeciderRecord
<1>2. decider \in [Deciders -> DeciderRecord]
  BY <1>1 DEF Init
<1>3. /\ env \in Environments /\ due \in BOOLEAN /\ fired \in BOOLEAN /\ repo = Pending
      /\ cache = Pending /\ scan = NoScan /\ lock = NoOne /\ drain = "off" /\ resumed = {}
      /\ now = 1 /\ marker = 0 /\ generation = 0 /\ crashes = 0 /\ grants = 0
  BY DEF Init
<1>4. scan \in [pc : {"idle", "read", "refresh"}, row : Row, gen : 0..MaxClears]
  BY <1>3, ConstantRows, ApprovalAssumption DEF NoScan
<1>5. TypeOK
  BY <1>1, <1>2, <1>3, <1>4, ConstantRows, ApprovalAssumption DEF TypeOK
<1>6. LockInv
  BY <1>1, <1>3, ApprovalAssumption DEF LockInv, InFlight
<1> QED BY <1>5, <1>6

\* No step breaks the types.
LEMMA NextType == TypeOK /\ RowsTrue /\ [Next]_vars => TypeOK'
<1> SUFFICES ASSUME TypeOK, RowsTrue, [Next]_vars PROVE TypeOK'
  OBVIOUS
<1> USE ConstantRows, ApprovalAssumption
<1>1. CASE UNCHANGED vars
  BY <1>1 DEF vars, store, TypeOK
<1>2. CASE Get
  <2>1. fired' \in BOOLEAN
    BY <1>2 DEF Get, ReadThrough
  <2> QED BY <1>2, <2>1, ReadFacts DEF Get, TypeOK
<1>3. CASE Consume
  <2>1. Current \in Row
    BY DEF Current, Cached, Expire, TypeOK, Row
  <2>2. [Current EXCEPT !.used = TRUE] \in Row /\ [repo EXCEPT !.used = TRUE] \in Row
        /\ [repo EXCEPT !.used = TRUE].status = repo.status
    BY <2>1 DEF TypeOK, Row
  <2>3. cache' \in Row /\ repo' \in Row /\ repo'.status # "absent" /\ grants' \in Nat
    <3>1. /\ cache' \in {[Current EXCEPT !.used = TRUE], Absent}
          /\ repo' \in {[repo EXCEPT !.used = TRUE], repo} /\ grants' \in {grants, grants + 1}
      BY <1>3 DEF Consume
    <3>2. repo' \in Row /\ repo'.status # "absent"
      BY <2>2, <3>1 DEF TypeOK
    <3>3. grants' \in Nat
      BY <3>1 DEF TypeOK
    <3> QED BY <2>2, <3>1, <3>2, <3>3
  <2> QED BY <1>3, <2>3 DEF Consume, TypeOK
<1>4. CASE ClearCache
  BY <1>4 DEF ClearCache, TypeOK
<1>5. ASSUME NEW d \in Deciders, Begin(d) PROVE TypeOK'
  <2>1. fired' \in BOOLEAN
    BY <1>5 DEF Begin, ReadThrough
  <2>2. decider' \in [Deciders -> DeciderRecord] /\ \A e \in Deciders : decider'[e].at = decider[e].at
    BY <1>5, GotoFacts DEF Begin
  <2> QED BY <1>5, <2>1, <2>2, ReadFacts DEF Begin, TypeOK
<1>6. ASSUME NEW d \in Deciders, RecordIntent(d) PROVE TypeOK'
  <2>1. now' \in Nat /\ marker' \in Nat /\ marker' < now'
    BY <1>6 DEF RecordIntent, TypeOK
  <2>2. decider' \in [Deciders -> DeciderRecord] /\ \A e \in Deciders : decider'[e].at < now'
    <3>1. now' = now + 1 /\ now \in Nat /\ \A e \in Deciders : decider[e].at < now /\ decider[e].at \in Nat
      BY <1>6 DEF RecordIntent, TypeOK, DeciderRecord
    <3> QED BY <1>6, <3>1, RecordIntentFacts
  <2> QED BY <1>6, <2>1, <2>2 DEF RecordIntent, store, TypeOK
<1>7. ASSUME NEW d \in Deciders, CheckPending(d) PROVE TypeOK'
  <2>1. decider' \in [Deciders -> DeciderRecord] /\ \A e \in Deciders : decider'[e].at = decider[e].at
    BY <1>7, GotoFacts DEF CheckPending
  <2>2. CASE SaveInFlight
    BY <1>7, <2>1, <2>2 DEF CheckPending, TypeOK
  <2>3. CASE ~SaveInFlight
    <3>1. ReadThrough /\ cache' = Current /\ lock' \in {lock, d}
      BY <1>7, <2>3 DEF CheckPending
    <3>2. fired' \in BOOLEAN
      BY <3>1 DEF ReadThrough
    <3>3. lock' \in Deciders \union {NoOne}
      BY <3>1 DEF TypeOK
    <3> QED BY <1>7, <2>1, <3>1, <3>2, <3>3, ReadFacts DEF CheckPending, TypeOK
  <2> QED BY <2>2, <2>3
<1>8. ASSUME NEW d \in Deciders, SaveDecision(d) PROVE TypeOK'
  <2>1. Decision(d) \in Row /\ Decision(d).status # "absent"
    BY DecisionFacts DEF Outcomes
  <2>2. decider' \in [Deciders -> DeciderRecord] /\ \A e \in Deciders : decider'[e].at = decider[e].at
    BY <1>8, SaveDecisionFacts
  <2> QED BY <1>8, <2>1, <2>2 DEF SaveDecision, TypeOK
<1>9. ASSUME NEW d \in Deciders, SaveCancelled(d) PROVE TypeOK'
  <2>1. repo' \in Row /\ repo'.status # "absent"
    <3>1. Decision(d) \in Row /\ Decision(d).status # "absent"
      BY DecisionFacts DEF Outcomes
    <3> QED BY <1>9, <3>1 DEF SaveCancelled, TypeOK
  <2>2. decider' \in [Deciders -> DeciderRecord] /\ \A e \in Deciders : decider'[e].at = decider[e].at
    BY <1>9, GotoFacts DEF SaveCancelled
  <2> QED BY <1>9, <2>1, <2>2 DEF SaveCancelled, TypeOK
<1>10. ASSUME NEW d \in Deciders, SignalResume(d) PROVE TypeOK'
  <2>1. decider' \in [Deciders -> DeciderRecord] /\ \A e \in Deciders : decider'[e].at = decider[e].at
    BY <1>10, GotoFacts DEF SignalResume
  <2>2. [by |-> d, outcome |-> decider[d].outcome] \in [by : Deciders \union {NoOne}, outcome : Outcomes]
    BY DecisionFacts
  <2>3. resumed' \subseteq [by : Deciders \union {NoOne}, outcome : Outcomes]
    BY <1>10, <2>2 DEF SignalResume, TypeOK
  <2> QED BY <1>10, <2>1, <2>3 DEF SignalResume, store, TypeOK
<1>11. ASSUME NEW d \in Deciders, ClearIntent(d) PROVE TypeOK'
  <2>1. decider' \in [Deciders -> DeciderRecord] /\ \A e \in Deciders : decider'[e].at = decider[e].at
    BY <1>11, GotoFacts DEF ClearIntent
  <2>2. marker' \in Nat /\ marker' < now
    BY <1>11 DEF ClearIntent, TypeOK
  <2> QED BY <1>11, <2>1, <2>2 DEF ClearIntent, store, TypeOK
<1>12. ASSUME NEW d \in Deciders, Restore(d) PROVE TypeOK'
  <2>1. decider' \in [Deciders -> DeciderRecord] /\ \A e \in Deciders : decider'[e].at = decider[e].at
    BY <1>12, RestoreFacts
  <2>2. cache' \in Row
    BY <1>12 DEF Restore, Cached, TypeOK
  <2> QED BY <1>12, <2>1, <2>2 DEF Restore, TypeOK
<1>13. ASSUME NEW d \in Deciders, RestoreRow(d) PROVE TypeOK'
  <2>1. decider' \in [Deciders -> DeciderRecord] /\ \A e \in Deciders : decider'[e].at = decider[e].at
    BY <1>13, RestoreRowFacts
  <2> QED BY <1>13, <2>1 DEF RestoreRow, TypeOK
<1>14. ASSUME NEW d \in Deciders, RestoreCache(d) PROVE TypeOK'
  <2>1. decider' \in [Deciders -> DeciderRecord] /\ \A e \in Deciders : decider'[e].at = decider[e].at
    BY <1>14, GotoFacts DEF RestoreCache
  <2> QED BY <1>14, <2>1 DEF RestoreCache, TypeOK
<1>15. CASE ScanRead
  BY <1>15 DEF ScanRead, store, TypeOK
<1>16. CASE ScanExpire
  <2>1. Expire(repo) \in Row /\ Expire(repo).status # "absent"
    BY DEF Expire, TypeOK, Row
  <2>2. repo' \in Row /\ repo'.status # "absent" /\ fired' \in BOOLEAN
    BY <1>16, <2>1 DEF ScanExpire, TypeOK
  <2>3. PICK row \in Row : scan' = [scan EXCEPT !.pc = "refresh", !.row = row]
    BY <1>16, <2>1 DEF ScanExpire, TypeOK
  <2>4. scan' \in [pc : {"idle", "read", "refresh"}, row : Row, gen : 0..MaxClears]
    BY <2>3 DEF TypeOK
  <2> QED BY <1>16, <2>2, <2>4 DEF ScanExpire, TypeOK
<1>17. CASE ScanRefresh
  <2>1. scan' \in [pc : {"idle", "read", "refresh"}, row : Row, gen : 0..MaxClears] /\ cache' \in Row
    BY <1>17 DEF ScanRefresh, TypeOK, NoScan
  <2> QED BY <1>17, <2>1 DEF ScanRefresh, TypeOK
<1>18. CASE FallDue
  BY <1>18 DEF FallDue, store, TypeOK
<1>19. CASE Crash
  <2>1. scan' \in [pc : {"idle", "read", "refresh"}, row : Row, gen : 0..MaxClears]
    BY <1>19 DEF Crash, NoScan
  <2>2. decider' \in [Deciders -> DeciderRecord] /\ \A e \in Deciders : decider'[e].at = decider[e].at
    BY <1>19, CrashFacts
  <2> QED BY <1>19, <2>1, <2>2 DEF Crash, TypeOK
<1>20. CASE DrainRead
  <2>1. drain' \in {"off", "read", "clear"}
    BY <1>20 DEF DrainRead
  <2>2. CASE marker = 0
    BY <1>20, <2>1, <2>2 DEF DrainRead, TypeOK
  <2>3. CASE marker # 0
    <3>1. ReadThrough /\ cache' = Current
      BY <1>20, <2>3 DEF DrainRead
    <3>2. fired' \in BOOLEAN
      BY <3>1 DEF ReadThrough
    <3>3. Current \in Row /\ repo' \in Row /\ repo'.status # "absent"
      BY <3>1, ReadFacts
    <3> DEFINE rec == [by |-> Current.by,
                       outcome |-> IF Current.status = "approved" THEN "approved" ELSE "rejected"]
    <3>4. rec \in [by : Deciders \union {NoOne}, outcome : Outcomes]
      BY <3>3 DEF Row, Outcomes
    <3>5. resumed' \subseteq [by : Deciders \union {NoOne}, outcome : Outcomes]
      BY <1>20, <2>3, <3>4 DEF DrainRead, TypeOK
    <3> QED BY <1>20, <2>1, <3>1, <3>2, <3>3, <3>5 DEF DrainRead, TypeOK
  <2> QED BY <2>2, <2>3
<1>21. CASE DrainClear
  <2>1. marker' \in Nat /\ marker' < now
    BY <1>21 DEF DrainClear, TypeOK
  <2> QED BY <1>21, <2>1 DEF DrainClear, store, TypeOK
<1> QED BY <1>1, <1>2, <1>3, <1>4, <1>5, <1>6, <1>7, <1>8, <1>9, <1>10, <1>11, <1>12, <1>13,
           <1>14, <1>15, <1>16, <1>17, <1>18, <1>19, <1>20, <1>21 DEF Next, DecideStep

\* No step gives the lock to two, or lets a decision in beside a save().
LEMMA NextLock == TypeOK /\ LockInv /\ [Next]_vars => LockInv'
<1> SUFFICES ASSUME TypeOK, LockInv, [Next]_vars PROVE LockInv'
  OBVIOUS
<1> USE ApprovalAssumption
<1>a. ASSUME NEW d \in Deciders,
             \/ RecordIntent(d) \/ CheckPending(d) \/ SaveDecision(d) \/ SaveCancelled(d)
             \/ SignalResume(d) \/ ClearIntent(d) \/ Restore(d) \/ RestoreRow(d) \/ RestoreCache(d)
      PROVE  drain = "off" /\ drain' = drain
  BY <1>a DEF RecordIntent, CheckPending, SaveDecision, SaveCancelled, SignalResume, ClearIntent,
              Restore, RestoreRow, RestoreCache, LockInv
<1>b. ASSUME NEW d \in Deciders, NEW p, decider'[d].pc = p, drain = "off", drain' = drain,
             \A e \in Deciders \ {d} : decider'[e] = decider[e], lock' = lock,
             decider[d].pc # "write", p # "write",
             p \in InFlight => decider[d].pc \in InFlight
      PROVE  LockInv'
  BY <1>b DEF LockInv, InFlight
<1>1. CASE UNCHANGED <<decider, lock, drain>>
  BY <1>1 DEF LockInv, InFlight
<1>2. CASE \/ UNCHANGED vars \/ Get \/ Consume \/ ClearCache \/ ScanRead \/ ScanExpire
           \/ ScanRefresh \/ FallDue
  BY <1>1, <1>2 DEF vars, store, Get, Consume, ClearCache, ScanRead, ScanExpire, ScanRefresh, FallDue
<1>3. ASSUME NEW d \in Deciders, Begin(d) PROVE LockInv'
  <2>1. PICK p \in {"record", "done"} : Goto(d, p)
    BY <1>3 DEF Begin
  <2>2. decider[d].pc = "idle" /\ drain = "off" /\ UNCHANGED <<lock, drain>>
    BY <1>3 DEF Begin
  <2> QED BY <1>b, <2>1, <2>2, GotoFacts DEF InFlight
<1>4. ASSUME NEW d \in Deciders, RecordIntent(d) PROVE LockInv'
  <2>1. decider[d].pc = "record" /\ UNCHANGED lock
    BY <1>4 DEF RecordIntent, store
  <2> QED BY <1>4, <1>a, <1>b, <2>1, RecordIntentFacts DEF InFlight
<1>5. ASSUME NEW d \in Deciders, CheckPending(d) PROVE LockInv'
  <2>1. decider[d].pc = "save" /\ lock = NoOne
    BY <1>5 DEF CheckPending, Free
  <2>2. CASE lock' = d /\ Goto(d, "write") /\ ~SaveInFlight
    <3>1. \A e \in Deciders : decider[e].pc \notin InFlight
      BY <2>2 DEF SaveInFlight, InFlight
    <3>2. \A e \in Deciders : decider[e].pc # "write"
      BY <2>1 DEF LockInv
    <3>3. decider'[d].pc = "write" /\ \A e \in Deciders \ {d} : decider'[e] = decider[e]
      BY <2>2, GotoFacts
    <3>4. drain' = "off"
      BY <1>5, <1>a
    <3> QED BY <2>2, <3>1, <3>2, <3>3, <3>4 DEF LockInv, InFlight
  <2>3. CASE lock' = lock /\ Goto(d, "done")
    BY <1>5, <1>a, <1>b, <2>1, <2>3, GotoFacts DEF InFlight
  <2> QED BY <1>5, <2>2, <2>3 DEF CheckPending
<1>6. ASSUME NEW d \in Deciders, SaveDecision(d) \/ SaveCancelled(d) PROVE LockInv'
  <2>1. decider[d].pc = "write" /\ lock' = NoOne
    BY <1>6 DEF SaveDecision, SaveCancelled
  <2>2. decider'[d].pc \in {"signal", "done"} /\ \A e \in Deciders \ {d} : decider'[e] = decider[e]
    BY <1>6, SaveDecisionFacts, GotoFacts DEF SaveCancelled
  <2>3. lock = d /\ drain' = "off"
    BY <1>6, <1>a, <2>1 DEF LockInv
  <2> QED BY <2>1, <2>2, <2>3 DEF LockInv, InFlight
<1>7. ASSUME NEW d \in Deciders, SignalResume(d) \/ ClearIntent(d) PROVE LockInv'
  <2>1. PICK p \in {"clear", "restore", "done"} : Goto(d, p)
    BY <1>7 DEF SignalResume, ClearIntent
  <2>2. decider[d].pc \in {"signal", "clear"} /\ lock' = lock
    BY <1>7 DEF SignalResume, ClearIntent, store
  <2> QED BY <1>7, <1>a, <1>b, <2>1, <2>2, GotoFacts DEF InFlight
<1>8. ASSUME NEW d \in Deciders, Restore(d) PROVE LockInv'
  <2>1. decider[d].pc = "restore" /\ lock = NoOne /\ lock' = lock
    BY <1>8 DEF Restore, Free
  <2>2. CASE SaveInFlight
    BY <1>8, <1>a, <1>b, <2>1, <2>2, RestoreFacts DEF InFlight
  <2>3. CASE ~SaveInFlight
    <3>1. \A e \in Deciders : decider[e].pc \notin InFlight
      BY <2>3 DEF SaveInFlight, InFlight
    <3>2. decider'[d].pc = "restoring" /\ \A e \in Deciders \ {d} : decider'[e] = decider[e]
      BY <1>8, <2>3, RestoreFacts
    <3>3. drain' = "off"
      BY <1>8, <1>a
    <3> QED BY <2>1, <3>1, <3>2, <3>3 DEF LockInv, InFlight
  <2> QED BY <2>2, <2>3
<1>9. ASSUME NEW d \in Deciders, RestoreRow(d) \/ RestoreCache(d) PROVE LockInv'
  <2>1. decider[d].pc \in InFlight /\ lock' = lock
    BY <1>9 DEF RestoreRow, RestoreCache, InFlight
  <2>2. decider'[d].pc \in {"restored", "clear"} /\ \A e \in Deciders \ {d} : decider'[e] = decider[e]
    BY <1>9, RestoreRowFacts, GotoFacts DEF RestoreCache
  <2> QED BY <1>9, <1>a, <1>b, <2>1, <2>2 DEF InFlight
<1>10. CASE Crash
  <2>1. lock' = NoOne
    BY <1>10 DEF Crash
  <2> QED BY <1>10, <2>1, CrashFacts DEF LockInv, InFlight
<1>11. CASE DrainRead \/ DrainClear
  <2>1. UNCHANGED <<decider, lock>> /\ drain # "off"
    BY <1>11 DEF DrainRead, DrainClear, store
  <2> QED BY <2>1 DEF LockInv, InFlight
<1> QED BY <1>2, <1>3, <1>4, <1>5, <1>6, <1>7, <1>8, <1>9, <1>10, <1>11 DEF Next, DecideStep

-----------------------------------------------------------------------------
(* What the rows say                                                       *)

\* Decisions keep their outcome.
LEMMA OutcomesKept ==
  ASSUME TypeOK, [Next]_vars PROVE \A d \in Deciders : decider'[d].outcome = decider[d].outcome
<1>1. ASSUME NEW d \in Deciders, NEW p, Goto(d, p)
      PROVE  \A e \in Deciders : decider'[e].outcome = decider[e].outcome
  BY <1>1, GotoFacts
<1>2. ASSUME NEW d \in Deciders, Begin(d) \/ DecideStep(d) \/ SaveCancelled(d)
      PROVE  \A e \in Deciders : decider'[e].outcome = decider[e].outcome
  BY <1>1, <1>2, RecordIntentFacts, SaveDecisionFacts, RestoreFacts, RestoreRowFacts
     DEF DecideStep, Begin, CheckPending, SaveCancelled, SignalResume, ClearIntent, RestoreCache
<1> QED BY <1>2, CrashFacts
        DEF Next, vars, Get, Consume, ClearCache, ScanRead, ScanExpire, ScanRefresh, FallDue,
            DrainRead, DrainClear

\* So a row that was true stays true, and rows made from it are.
LEMMA TrueRows ==
  ASSUME TypeOK, \A d \in Deciders : decider'[d].outcome = decider[d].outcome
  PROVE  /\ \A row \in Row : RowTrue(row, decider) => RowTrue(row, decider')
         /\ RowTrue(Pending, decider') /\ RowTrue(Absent, decider')
         /\ RowTrue([Pending EXCEPT !.status = "expired"], decider')
         /\ \A d \in Deciders : RowTrue(Decision(d), decider')
         /\ \A row \in Row : row.status = "approved" /\ RowTrue(row, decider)
              => RowTrue([row EXCEPT !.used = TRUE], decider')
<1>1. \A row \in Row : RowTrue(row, decider) => RowTrue(row, decider')
  BY DEF RowTrue
<1>2. RowTrue(Pending, decider') /\ RowTrue(Absent, decider')
  BY DEF RowTrue, Pending, Absent, Outcomes
<1>3. RowTrue([Pending EXCEPT !.status = "expired"], decider')
  BY DEF RowTrue, Pending, Outcomes
<1>4. \A d \in Deciders : RowTrue(Decision(d), decider')
  <2> SUFFICES ASSUME NEW d \in Deciders PROVE RowTrue(Decision(d), decider')
    OBVIOUS
  <2>1. /\ Decision(d).by = d /\ Decision(d).status = decider[d].outcome
        /\ decider[d].outcome \in Outcomes
    BY DecisionFacts
  <2>2. decider[d].outcome # "pending" /\ decider[d].outcome # "absent"
    BY <2>1 DEF Outcomes
  <2> QED BY <2>1, <2>2 DEF RowTrue
<1>5. ASSUME NEW row \in Row, row.status = "approved", RowTrue(row, decider)
      PROVE  RowTrue([row EXCEPT !.used = TRUE], decider')
  <2>1. [row EXCEPT !.used = TRUE].status = "approved" /\ [row EXCEPT !.used = TRUE].by = row.by
    BY <1>5 DEF Row
  <2> QED BY <1>5, <2>1 DEF RowTrue, Outcomes
<1> QED BY <1>1, <1>2, <1>3, <1>4, <1>5

\* Where nothing falls due, reading through finds the cached copy or the row.
LEMMA ReadTrue ==
  ASSUME TypeOK, RowsTrue, ReadThrough,
         \A d \in Deciders : decider'[d].outcome = decider[d].outcome
  PROVE  RowTrue(repo', decider') /\ RowTrue(Current, decider')
<1>1. RowTrue(repo', decider')
  BY ReadFacts, TrueRows DEF RowsTrue, TypeOK
<1> QED BY <1>1, ReadFacts, TrueRows DEF RowsTrue, TypeOK

\* No step makes a row that is not true.
LEMMA NextRows ==
  TypeOK /\ RowsTrue /\ [Next]_vars => RowsTrue'
<1> SUFFICES ASSUME TypeOK, RowsTrue, [Next]_vars PROVE RowsTrue'
  OBVIOUS
<1>a. \A d \in Deciders : decider'[d].outcome = decider[d].outcome
  BY OutcomesKept
<1>b. repo \in Row /\ cache \in Row /\ scan.row \in Row
  BY DEF TypeOK
<1>c. RowTrue(repo, decider') /\ RowTrue(cache, decider') /\ RowTrue(scan.row, decider')
  BY <1>a, <1>b, TrueRows DEF RowsTrue
<1>1. CASE UNCHANGED <<repo, cache, scan>>
  BY <1>1, <1>c DEF RowsTrue
<1>2. CASE ReadThrough /\ cache' \in {Current, cache} /\ scan' = scan
  BY <1>2, <1>a, <1>c, ReadTrue DEF RowsTrue
<1>3. CASE UNCHANGED vars \/ Get \/ FallDue \/ DrainRead \/ DrainClear
  BY <1>1, <1>2, <1>3 DEF vars, store, Get, FallDue, DrainRead, DrainClear
<1>4. CASE Consume
  <2>1. CASE cache' = Absent /\ UNCHANGED <<repo, scan>>
    BY <1>a, <1>c, <2>1, TrueRows DEF RowsTrue
  <2>2. CASE /\ repo.status = "approved" /\ Current.status = "approved"
             /\ repo' = [repo EXCEPT !.used = TRUE] /\ cache' = [Current EXCEPT !.used = TRUE]
             /\ scan' = scan
    <3>1. Expire(repo) = repo
      BY <2>2 DEF Expire
    <3>2. Current \in {repo, cache}
      BY <3>1 DEF Current, Cached
    <3>3. RowTrue([repo EXCEPT !.used = TRUE], decider')
      BY <1>a, <1>b, <2>2, TrueRows DEF RowsTrue
    <3>4. RowTrue([Current EXCEPT !.used = TRUE], decider')
      BY <1>a, <1>b, <2>2, <3>2, TrueRows DEF RowsTrue
    <3> QED BY <1>c, <2>2, <3>3, <3>4 DEF RowsTrue
  <2> QED BY <1>4, <2>1, <2>2 DEF Consume
<1>5. CASE ClearCache
  BY <1>5, <1>a, <1>c, TrueRows DEF ClearCache, RowsTrue
<1>6. ASSUME NEW d \in Deciders, Begin(d) \/ RecordIntent(d) \/ CheckPending(d) \/ SignalResume(d)
                                 \/ ClearIntent(d)
      PROVE  RowsTrue'
  BY <1>1, <1>2, <1>6 DEF Begin, RecordIntent, CheckPending, SignalResume, ClearIntent, store
<1>7. ASSUME NEW d \in Deciders, SaveDecision(d) \/ SaveCancelled(d) PROVE RowsTrue'
  <2>1. repo' \in {repo, Decision(d)} /\ cache' \in {Decision(d), Absent} /\ scan' = scan
    BY <1>7 DEF SaveDecision, SaveCancelled
  <2> QED BY <1>a, <1>c, <2>1, TrueRows DEF RowsTrue
<1>8. ASSUME NEW d \in Deciders, Restore(d) \/ RestoreRow(d) \/ RestoreCache(d) PROVE RowsTrue'
  <2>1. repo' \in {repo, Pending} /\ cache' \in {repo, cache, Pending, Absent} /\ scan' = scan
    BY <1>8 DEF Restore, RestoreRow, RestoreCache, Cached
  <2> QED BY <1>a, <1>c, <2>1, TrueRows DEF RowsTrue
<1>9. CASE ScanRead
  <2>1. scan'.row = repo /\ UNCHANGED <<repo, cache>>
    BY <1>9 DEF ScanRead, store
  <2> QED BY <1>c, <2>1 DEF RowsTrue
<1>10. CASE ScanExpire
  <2>1. repo' \in {repo, Expire(repo)} /\ cache' = cache
    BY <1>10 DEF ScanExpire
  <2>2. PICK row \in {Expire(repo), repo, Absent, scan.row} :
          scan' = [scan EXCEPT !.pc = "refresh", !.row = row]
    BY <1>10 DEF ScanExpire
  <2>3. scan'.row \in {Expire(repo), repo, Absent, scan.row}
    BY <2>2 DEF TypeOK
  <2>4. RowTrue(Expire(repo), decider')
    <3>1. Expire(repo) = repo \/ Expire(repo) = [Pending EXCEPT !.status = "expired"]
      BY DEF Expire, RowsTrue, RowTrue
    <3> QED BY <1>a, <1>c, <3>1, TrueRows
  <2> QED BY <1>a, <1>c, <2>1, <2>3, <2>4, TrueRows DEF RowsTrue
<1>11. CASE ScanRefresh \/ Crash
  <2>1. repo' = repo /\ cache' \in {scan.row, cache, Absent} /\ scan'.row = Absent
    BY <1>11, ConstantRows DEF ScanRefresh, Crash
  <2> QED BY <1>a, <1>c, <2>1, TrueRows DEF RowsTrue
<1> QED BY <1>3, <1>4, <1>5, <1>6, <1>7, <1>8, <1>9, <1>10, <1>11 DEF Next, DecideStep

\* What may happen never changes.
LEMMA EnvKept ==
  ASSUME [Next]_vars PROVE env' = env /\ \A hazards : Without(hazards)' <=> Without(hazards)
<1>1. env' = env
  BY DEF Next, vars, DecideStep, Get, Consume, ClearCache, Begin, RecordIntent, CheckPending,
         SaveDecision, SaveCancelled, SignalResume, ClearIntent, Restore, RestoreRow, RestoreCache,
         ScanRead, ScanExpire, ScanRefresh, FallDue, Crash, DrainRead, DrainClear
<1> QED BY <1>1 DEF Without

\* Nothing expires that is not due.
LEMMA NextExpires ==
  TypeOK /\ RowsTrue /\ NeverExpires /\ [Next]_vars => NeverExpires'
<1> SUFFICES ASSUME TypeOK, RowsTrue, Without({"expiry"}), ~due,
                    "expired" \notin {repo.status, cache.status, scan.row.status}, [Next]_vars
             PROVE  ~due' /\ "expired" \notin {repo'.status, cache'.status, scan'.row.status}
  BY EnvKept DEF NeverExpires
<1> USE ConstantRows
<1>1. CASE UNCHANGED <<due, repo, cache, scan>>
  BY <1>1
<1>2. CASE ReadThrough /\ cache' \in {Current, cache} /\ UNCHANGED <<due, scan>>
  <2>1. repo' = repo /\ Current \in {repo, cache}
    BY <1>2, ReadFacts
  <2> QED BY <1>2, <2>1
<1>3. CASE UNCHANGED vars \/ Get \/ FallDue \/ DrainRead \/ DrainClear
  BY <1>1, <1>2, <1>3 DEF vars, store, Get, FallDue, DrainRead, DrainClear, Without
<1>4. CASE Consume
  <2>1. UNCHANGED <<due, scan>>
    BY <1>4 DEF Consume
  <2>2. repo' = repo \/ repo' = [repo EXCEPT !.used = TRUE]
    BY <1>4 DEF Consume
  <2>3. repo'.status # "expired"
    BY <2>2 DEF TypeOK, Row
  <2>4. Current \in {repo, cache}
    BY DEF Current, Cached, Lapsed
  <2>5. cache' = Absent \/ cache' = [Current EXCEPT !.used = TRUE]
    BY <1>4 DEF Consume
  <2>6. cache'.status # "expired"
    BY <2>4, <2>5 DEF TypeOK, Row
  <2> QED BY <2>1, <2>3, <2>6
<1>5. CASE ClearCache
  BY <1>5 DEF ClearCache
<1>6. ASSUME NEW d \in Deciders, Begin(d) \/ RecordIntent(d) \/ CheckPending(d) \/ SignalResume(d)
                                 \/ ClearIntent(d)
      PROVE  ~due' /\ "expired" \notin {repo'.status, cache'.status, scan'.row.status}
  BY <1>1, <1>2, <1>6 DEF Begin, RecordIntent, CheckPending, SignalResume, ClearIntent, store
<1>7. ASSUME NEW d \in Deciders, SaveDecision(d) \/ SaveCancelled(d)
      PROVE  ~due' /\ "expired" \notin {repo'.status, cache'.status, scan'.row.status}
  <2>1. repo' \in {repo, Decision(d)} /\ cache' \in {Decision(d), Absent} /\ UNCHANGED <<due, scan>>
    BY <1>7 DEF SaveDecision, SaveCancelled
  <2>2. Decision(d).status # "expired"
    BY DecisionFacts DEF Outcomes
  <2> QED BY <2>1, <2>2
<1>8. ASSUME NEW d \in Deciders, Restore(d) \/ RestoreRow(d) \/ RestoreCache(d)
      PROVE  ~due' /\ "expired" \notin {repo'.status, cache'.status, scan'.row.status}
  <2>1. /\ repo' \in {repo, Pending} /\ cache' \in {repo, cache, Pending, Absent}
        /\ UNCHANGED <<due, scan>>
    BY <1>8 DEF Restore, RestoreRow, RestoreCache, Cached
  <2> QED BY <2>1
<1>9. CASE ScanRead
  <2>1. scan'.row = repo /\ UNCHANGED <<due, repo, cache>>
    BY <1>9 DEF ScanRead, store
  <2> QED BY <2>1
<1>10. CASE ScanExpire
  <2>1. /\ UNCHANGED <<due, repo, cache>>
        /\ scan' = [scan EXCEPT !.pc = "refresh", !.row = scan.row]
    BY <1>10 DEF ScanExpire
  <2> QED BY <2>1 DEF TypeOK
<1>11. CASE ScanRefresh \/ Crash
  <2>1. UNCHANGED <<due, repo>> /\ cache' \in {scan.row, cache, Absent} /\ scan'.row = Absent
    BY <1>11 DEF ScanRefresh, Crash
  <2> QED BY <2>1
<1> QED BY <1>3, <1>4, <1>5, <1>6, <1>7, <1>8, <1>9, <1>10, <1>11 DEF Next, DecideStep

\* Nobody is woken with a decision that was not made.
LEMMA NextResumed ==
  TypeOK /\ RowsTrue /\ NeverExpires /\ ResumedAsDecided /\ [Next]_vars => ResumedAsDecided'
<1> SUFFICES ASSUME TypeOK, RowsTrue, NeverExpires, Without({"expiry"}), [Next]_vars,
                    \A r \in resumed : r.by # NoOne /\ r.outcome = decider[r.by].outcome
             PROVE  \A r \in resumed' : r.by # NoOne /\ r.outcome = decider'[r.by].outcome
  BY EnvKept DEF ResumedAsDecided
<1>a. \A d \in Deciders : decider'[d].outcome = decider[d].outcome
  BY OutcomesKept
<1>b. \A r \in resumed : r.by \in Deciders /\ r.outcome = decider'[r.by].outcome
  BY <1>a DEF TypeOK
<1>c. ASSUME NEW d \in Deciders, NEW o, o = decider[d].outcome,
             resumed' \subseteq resumed \union {[by |-> d, outcome |-> o]}
      PROVE  \A r \in resumed' : r.by # NoOne /\ r.outcome = decider'[r.by].outcome
  BY <1>a, <1>b, <1>c, ApprovalAssumption
<1>1. CASE resumed' = resumed
  BY <1>1, <1>b, ApprovalAssumption
<1>2. ASSUME NEW d \in Deciders, SignalResume(d)
      PROVE  \A r \in resumed' : r.by # NoOne /\ r.outcome = decider'[r.by].outcome
  BY <1>c, <1>2 DEF SignalResume
<1>3. CASE DrainRead
  <2>1. CASE /\ ReadThrough /\ ~StaleMarker(Current)
             /\ resumed' = resumed \union
                  {[by |-> Current.by,
                    outcome |-> IF Current.status = "approved" THEN "approved" ELSE "rejected"]}
    <3>1. ~due /\ Current \in {repo, cache} /\ Current.status # "absent" /\ Current \in Row
      BY <2>1, ReadFacts DEF NeverExpires
    <3>2. Current.status \in Outcomes
      BY <2>1, <3>1 DEF StaleMarker, NeverExpires, Row
    <3>3. Current.by \in Deciders /\ Current.status = decider[Current.by].outcome
      BY <3>1, <3>2 DEF RowsTrue, RowTrue
    <3>4. Current.status = IF Current.status = "approved" THEN "approved" ELSE "rejected"
      BY <3>2 DEF Outcomes
    <3> QED BY <1>c, <2>1, <3>3, <3>4
  <2> QED BY <1>1, <1>3, <2>1 DEF DrainRead
<1>4. ASSUME NEW d \in Deciders,
             \/ Begin(d) \/ RecordIntent(d) \/ CheckPending(d) \/ SaveDecision(d) \/ SaveCancelled(d)
             \/ ClearIntent(d) \/ Restore(d) \/ RestoreRow(d) \/ RestoreCache(d)
      PROVE  resumed' = resumed
  BY <1>4 DEF Begin, RecordIntent, CheckPending, SaveDecision, SaveCancelled, ClearIntent, Restore,
              RestoreRow, RestoreCache
<1>5. CASE \/ UNCHANGED vars \/ Get \/ Consume \/ ClearCache \/ ScanRead \/ ScanExpire
           \/ ScanRefresh \/ FallDue \/ Crash \/ DrainClear
  BY <1>1, <1>5 DEF vars, Get, Consume, ClearCache, ScanRead, ScanExpire, ScanRefresh, FallDue, Crash,
                    DrainClear
<1> QED BY <1>1, <1>2, <1>3, <1>4, <1>5 DEF Next, DecideStep

\* Types, the lock and the rows hold in every state.
LEMMA RowsAlways ==
  Spec => [](TypeOK /\ LockInv /\ RowsTrue /\ NeverExpires /\ ResumedAsDecided)
<1>1. Init => TypeOK /\ LockInv /\ RowsTrue /\ NeverExpires /\ ResumedAsDecided
  <2> SUFFICES ASSUME Init PROVE RowsTrue /\ NeverExpires /\ ResumedAsDecided
    BY InitType
  <2>1. repo = Pending /\ cache = Pending /\ scan.row = Absent /\ due = FALSE /\ resumed = {}
    BY ConstantRows DEF Init
  <2>2. RowsTrue
    BY <2>1, ConstantRows DEF RowsTrue, RowTrue, Outcomes
  <2>3. NeverExpires /\ ResumedAsDecided
    BY <2>1, ConstantRows DEF NeverExpires, ResumedAsDecided
  <2> QED BY <2>2, <2>3
<1>2. TypeOK /\ LockInv /\ RowsTrue /\ NeverExpires /\ ResumedAsDecided /\ [Next]_vars
      => (TypeOK /\ LockInv /\ RowsTrue /\ NeverExpires /\ ResumedAsDecided)'
  BY NextType, NextLock, NextRows, NextExpires, NextResumed
<1> QED BY <1>1, <1>2, PTL DEF Spec

\* Every variable keeps its type; in particular, the approval's row is never lost.
THEOREM TypeCorrect == Spec => []TypeOK
  BY RowsAlways, PTL

\* Whoever wakes the parked task, the decider or the drain after a crash, wakes it
\* with the outcome that the decider it names gave; where the approval can expire,
\* the drain wakes it with the expiry instead, which no decider gave.
THEOREM ResumedTrue == Spec => []ResumedAsDecided
  BY RowsAlways, PTL

-----------------------------------------------------------------------------
(* The first writer wins                                                   *)

\* A step that reads through the cache and takes nobody into a write, unless it
\* found the approval pending.
LEMMA ReadStanding ==
  ASSUME TypeOK, RowsTrue, Standing, Agreement, ReadThrough, UNCHANGED <<due, scan>>, cache' = Current,
         \A d \in Deciders :
           /\ decider'[d].pc = "restored" <=> decider[d].pc = "restored"
           /\ decider'[d].pc \in {"signal", "restore", "restoring"} => decider'[d].pc = decider[d].pc
           /\ decider'[d].won = decider[d].won
           /\ decider'[d].pc = "write" => Current.status = "pending" /\ ~SaveInFlight
  PROVE  Standing' /\ Agreement'
<1>1. /\ repo' = repo \/ (due /\ repo = Pending /\ repo' = [Pending EXCEPT !.status = "expired"])
      /\ Current = repo' \/ (Current = cache /\ repo' = repo /\ ~(due /\ cache.status = "pending"))
      /\ Current.status # "absent"
  BY ReadFacts
<1>2. Pending.status = "pending" /\ [Pending EXCEPT !.status = "expired"].status = "expired"
      /\ "pending" \notin Outcomes /\ Absent.status = "absent"
  BY DEF Pending, Outcomes, Absent
<1>3. Agreement'
  BY <1>1, <1>2 DEF Agreement
<1>4. ASSUME NEW d \in Deciders, decider'[d].pc = "write" PROVE repo' = Pending
  <2>1. Current.status = "pending" /\ \A e \in Deciders : decider[e].pc # "restored"
    BY <1>4 DEF SaveInFlight
  <2>2. Current = repo'
    BY <1>1, <1>2, <2>1 DEF Agreement
  <2>3. repo' = repo
    BY <1>1, <1>2, <2>1, <2>2
  <2> QED BY <2>1, <2>2, <2>3 DEF RowsTrue, RowTrue
<1>5. fired' => repo'.status = "expired"
  <2>1. CASE fired
    BY <1>1, <1>2, <2>1 DEF Standing
  <2>2. CASE ~fired
    <3>1. fired' => Lapsed /\ repo.status = "pending"
      BY <2>2 DEF ReadThrough
    <3>2. ASSUME Lapsed, repo.status = "pending" PROVE repo'.status = "expired"
      BY <3>2 DEF ReadThrough, Expire, TypeOK, Row
    <3> QED BY <3>1, <3>2
  <2> QED BY <2>1, <2>2
<1>6. ASSUME NEW d \in Deciders, decider'[d].pc = "restored" PROVE repo' = Pending \/ due
  BY <1>1, <1>6 DEF Standing
<1>7. ASSUME NEW d \in Deciders, decider'[d].won PROVE repo'.by = d /\ repo'.status \in Outcomes
  BY <1>1, <1>2, <1>7 DEF Standing
<1>8. ASSUME NEW d \in Deciders, decider'[d].pc \in {"signal", "restore", "restoring"} PROVE decider'[d].won
  BY <1>8 DEF Standing
<1>9. Standing'
  BY <1>4, <1>5, <1>6, <1>7, <1>8 DEF Standing
<1> QED BY <1>3, <1>9

\* Steps of a decision that leave the store alone.
LEMMA MoveStanding ==
  ASSUME TypeOK, Standing, Agreement, UNCHANGED <<due, scan, repo, cache, fired>>,
         \A d \in Deciders :
           /\ decider'[d].pc = "restored" <=> decider[d].pc = "restored"
           /\ decider'[d].pc \in {"signal", "restore", "restoring"}
              => decider[d].pc \in {"signal", "restore", "restoring"}
           /\ decider'[d].won = decider[d].won
           /\ decider'[d].pc = "write" => decider[d].pc = "write"
  PROVE  Standing' /\ Agreement'
<1>1. Standing'
  BY DEF Standing
<1>2. Agreement'
  BY DEF Agreement
<1> QED BY <1>1, <1>2

\* Without a listing, the winner's row stands.
LEMMA NextStore ==
  TypeOK /\ LockInv /\ RowsTrue /\ StoreInv /\ [Next]_vars => StoreInv'
<1> SUFFICES ASSUME TypeOK, LockInv, RowsTrue, Without({"scan"}), Standing, Agreement, [Next]_vars
             PROVE  Standing' /\ Agreement'
  BY EnvKept DEF StoreInv
<1>0. "pending" \notin Outcomes /\ "expired" \notin Outcomes /\ Pending.status = "pending"
  BY DEF Outcomes, Pending
<1>1. CASE UNCHANGED <<due, scan, repo, cache, fired, decider>>
  BY <1>1, MoveStanding
<1>2. CASE UNCHANGED vars \/ DrainClear \/ (DrainRead /\ marker = 0)
  BY <1>1, <1>2 DEF vars, store, DrainClear, DrainRead
<1>3. CASE Get
  <2>1. ASSUME NEW d \in Deciders PROVE decider[d].pc # "write"
    BY <1>3, ApprovalAssumption DEF Get, Free, LockInv
  <2> QED BY <1>3, <2>1, ReadStanding DEF Get
<1>4. CASE Consume
  <2>1. ASSUME NEW d \in Deciders PROVE decider[d].pc # "write"
    BY <1>4, ApprovalAssumption DEF Consume, Free, LockInv
  <2>2. UNCHANGED <<due, scan, fired, decider>>
    BY <1>4 DEF Consume
  <2>3. CASE cache' = Absent /\ repo' = repo
    BY <2>2, <2>3 DEF Standing, Agreement
  <2>4. CASE /\ repo.status = "approved" /\ Current.status = "approved"
             /\ repo' = [repo EXCEPT !.used = TRUE] /\ cache' = [Current EXCEPT !.used = TRUE]
    <3>1. repo'.by = repo.by /\ repo'.status = repo.status
      BY <2>4 DEF TypeOK, Row
    <3>2. Current \in {repo, cache}
      BY <2>4 DEF Current, Cached, Expire
    <3>3. Standing'
      BY <2>1, <2>2, <2>4, <3>1, <1>0 DEF Standing
    <3>4. Agreement'
      <4>1. CASE Current = repo
        BY <2>4, <4>1 DEF Agreement
      <4>2. CASE Current # repo
        <5>1. Current = cache /\ cache # repo /\ cache # Absent /\ cache # Pending
          BY <1>0, <2>4, <3>2, <4>2, ConstantRows
        <5> QED BY <2>2, <5>1 DEF Agreement
      <4> QED BY <4>1, <4>2
    <3> QED BY <3>3, <3>4
  <2> QED BY <1>4, <2>3, <2>4 DEF Consume
<1>5. CASE ClearCache
  BY <1>5 DEF ClearCache, Standing, Agreement
<1>6. ASSUME NEW d \in Deciders, Begin(d) PROVE Standing' /\ Agreement'
  <2>1. PICK p \in {"record", "done"} : Goto(d, p)
    BY <1>6 DEF Begin
  <2>2. decider[d].pc = "idle" /\ \A e \in Deciders : decider[e].pc # "write"
    BY <1>6, ApprovalAssumption DEF Begin, Free, LockInv
  <2>3. ReadThrough /\ UNCHANGED <<due, scan>> /\ cache' = Current
    BY <1>6 DEF Begin
  <2> QED BY <2>1, <2>2, <2>3, GotoFacts, ReadStanding
<1>7. ASSUME NEW d \in Deciders, RecordIntent(d) PROVE Standing' /\ Agreement'
  <2>1. decider[d].pc = "record" /\ UNCHANGED <<due, scan, repo, cache, fired>>
    BY <1>7 DEF RecordIntent, store
  <2> QED BY <1>7, <2>1, RecordIntentFacts, MoveStanding
<1>8. ASSUME NEW d \in Deciders, CheckPending(d) PROVE Standing' /\ Agreement'
  <2>1. decider[d].pc = "save" /\ UNCHANGED <<due, scan>> /\ \A e \in Deciders : decider[e].pc # "write"
    BY <1>8, ApprovalAssumption DEF CheckPending, Free, LockInv
  <2>2. CASE SaveInFlight
    <3>1. Goto(d, "done") /\ UNCHANGED <<repo, cache, fired>>
      BY <1>8, <2>2 DEF CheckPending
    <3> QED BY <2>1, <3>1, GotoFacts, MoveStanding
  <2>3. CASE ~SaveInFlight
    <3>1. PICK p \in {"write", "done"} : Goto(d, p) /\ (p = "write" => Current.status = "pending")
      BY <1>8, <2>3 DEF CheckPending
    <3>2. ReadThrough /\ cache' = Current
      BY <1>8, <2>3 DEF CheckPending
    <3> QED BY <2>1, <2>3, <3>1, <3>2, GotoFacts, ReadStanding
  <2> QED BY <2>2, <2>3
<1>9. ASSUME NEW d \in Deciders, SaveDecision(d) \/ SaveCancelled(d) PROVE Standing' /\ Agreement'
  <2>1. decider[d].pc = "write" /\ UNCHANGED <<due, scan, fired>>
    BY <1>9 DEF SaveDecision, SaveCancelled
  <2>2. /\ lock = d /\ repo = Pending
        /\ \A e \in Deciders : decider[e].pc \notin InFlight
        /\ \A e \in Deciders \ {d} : decider[e].pc # "write"
    BY <2>1, ApprovalAssumption DEF LockInv, Standing
  <2>3. ~fired /\ \A e \in Deciders : ~decider[e].won
    BY <1>0, <2>2 DEF Standing
  <2>4. CASE SaveDecision(d)
    <3>1. repo' = Decision(d) /\ cache' = Decision(d)
      BY <2>4 DEF SaveDecision
    <3>2. /\ decider'[d].pc = "signal" /\ decider'[d].won
          /\ \A e \in Deciders \ {d} : decider'[e] = decider[e]
      BY <2>4, SaveDecisionFacts
    <3>3. repo'.by = d /\ repo'.status \in Outcomes
      BY <3>1, DecisionFacts
    <3>4. Standing'
      BY <2>1, <2>2, <2>3, <3>2, <3>3 DEF Standing, InFlight
    <3> QED BY <3>1, <3>4 DEF Agreement
  <2>5. CASE SaveCancelled(d)
    <3>1. repo' \in {repo, Decision(d)} /\ cache' = Absent /\ Goto(d, "done")
      BY <2>5 DEF SaveCancelled
    <3>2. /\ decider'[d].pc = "done" /\ decider'[d].won = decider[d].won
          /\ \A e \in Deciders \ {d} : decider'[e] = decider[e]
      BY <3>1, GotoFacts
    <3>3. Standing'
      BY <2>1, <2>2, <2>3, <3>2 DEF Standing, InFlight
    <3> QED BY <3>1, <3>3 DEF Agreement
  <2> QED BY <1>9, <2>4, <2>5
<1>10. ASSUME NEW d \in Deciders, SignalResume(d) \/ ClearIntent(d) PROVE Standing' /\ Agreement'
  <2>1. /\ decider[d].pc \in {"signal", "clear"} /\ UNCHANGED <<due, scan, repo, cache, fired>>
        /\ decider[d].pc = "clear" => Goto(d, "done")
        /\ decider[d].pc = "signal" => Goto(d, "clear") \/ Goto(d, "restore")
    BY <1>10 DEF SignalResume, ClearIntent, store
  <2> QED BY <2>1, GotoFacts, MoveStanding
<1>11. ASSUME NEW d \in Deciders, Restore(d) PROVE Standing' /\ Agreement'
  <2>1. decider[d].pc = "restore" /\ cache' = Cached /\ UNCHANGED <<due, scan, repo, fired>>
    BY <1>11 DEF Restore
  <2>2. /\ decider'[d].pc \in {"clear", "restoring"} /\ decider'[d].won = decider[d].won
        /\ \A e \in Deciders \ {d} : decider'[e] = decider[e]
    BY <1>11, RestoreFacts
  <2>3. Standing'
    BY <2>1, <2>2 DEF Standing
  <2>4. \A e \in Deciders : decider[e].pc = "restored" => decider'[e].pc = "restored"
    BY <2>1, <2>2
  <2>5. Agreement'
    BY <2>1, <2>4 DEF Agreement, Cached
  <2> QED BY <2>3, <2>5
<1>12. ASSUME NEW d \in Deciders, RestoreRow(d) PROVE Standing' /\ Agreement'
  <2>1. decider[d].pc = "restoring" /\ repo' = Pending /\ UNCHANGED <<due, scan, fired>>
    BY <1>12 DEF RestoreRow
  <2>2. /\ decider'[d].pc = "restored" /\ ~decider'[d].won
        /\ \A e \in Deciders \ {d} : decider'[e] = decider[e]
    BY <1>12, RestoreRowFacts
  <2>3. decider[d].won /\ repo.by = d /\ repo.status \in Outcomes
    BY <2>1 DEF Standing
  <2>4. ~fired /\ \A e \in Deciders \ {d} : ~decider[e].won
    BY <1>0, <2>3 DEF Standing
  <2>5. Standing'
    BY <2>1, <2>2, <2>4 DEF Standing
  <2> QED BY <2>2, <2>5 DEF Agreement
<1>13. ASSUME NEW d \in Deciders, RestoreCache(d) PROVE Standing' /\ Agreement'
  <2>1. decider[d].pc = "restored" /\ cache' \in {Pending, Absent} /\ UNCHANGED <<due, scan, repo, fired>>
        /\ Goto(d, "clear")
    BY <1>13 DEF RestoreCache
  <2>2. /\ decider'[d].pc = "clear" /\ decider'[d].won = decider[d].won
        /\ \A e \in Deciders \ {d} : decider'[e] = decider[e]
    BY <2>1, GotoFacts
  <2>3. repo = Pending \/ due
    BY <2>1 DEF Standing
  <2>4. Standing'
    BY <2>1, <2>2 DEF Standing
  <2> QED BY <2>1, <2>3, <2>4 DEF Agreement
<1>14. ~ScanRead /\ ~ScanExpire /\ ~ScanRefresh
  BY ConstantRows DEF ScanRead, ScanExpire, ScanRefresh, Standing, Without
<1>15. CASE FallDue
  <2>1. due' /\ UNCHANGED <<scan, repo, cache, fired, decider>>
    BY <1>15 DEF FallDue, store
  <2> QED BY <2>1 DEF Standing, Agreement
<1>16. CASE Crash
  <2>1. cache' = Absent /\ scan' = NoScan /\ UNCHANGED <<due, repo, fired>>
    BY <1>16 DEF Crash
  <2>2. Standing'
    BY <1>16, <2>1, CrashFacts DEF Standing
  <2> QED BY <2>1, <2>2 DEF Agreement
<1>17. CASE DrainRead /\ marker # 0
  <2>1. ReadThrough /\ cache' = Current /\ UNCHANGED <<due, scan, decider>> /\ drain # "off"
    BY <1>17 DEF DrainRead
  <2>2. \A d \in Deciders : decider[d].pc \in {"idle", "done"}
    BY <2>1 DEF LockInv
  <2> QED BY <2>1, <2>2, ReadStanding
<1> QED BY <1>2, <1>3, <1>4, <1>5, <1>6, <1>7, <1>8, <1>9, <1>10, <1>11, <1>12, <1>13, <1>14, <1>15,
           <1>16, <1>17 DEF Next, DecideStep

\* What the store keeps holds in every state.
LEMMA StoreAlways == Spec => []StoreInv
<1>1. Init => StoreInv
  <2> SUFFICES ASSUME Init PROVE Standing /\ Agreement
    BY DEF StoreInv
  <2>1. /\ scan = NoScan /\ cache = Pending /\ repo = Pending /\ fired = FALSE
        /\ \A d \in Deciders : decider[d].pc = "idle" /\ decider[d].won = FALSE
    BY DEF Init
  <2> QED BY <2>1 DEF Standing, Agreement
<1>2. TypeOK /\ LockInv /\ RowsTrue /\ StoreInv /\ [Next]_vars => StoreInv'
  BY NextStore
<1> QED BY <1>1, <1>2, RowsAlways, PTL DEF Spec

\* The cache disagrees with the repository only while a save() is under way or on
\* a pending row whose time has come: through decisions, cancelled writes, failed
\* dispatches, clears and crashes.
THEOREM CacheCoherent == Spec => []CacheAgrees
<1>1. StoreInv => CacheAgrees
  BY DEF StoreInv, CacheAgrees, Agreement
<1> QED BY <1>1, StoreAlways, PTL

\* The first writer wins: without a listing, at most one of the decisions and the
\* expiry ever stands.
THEOREM OneDecisionStands == Spec => []OneDecision
<1>1. StoreInv => OneDecision
  <2> SUFFICES ASSUME Standing PROVE FirstWriterWins
    BY DEF StoreInv, OneDecision
  <2> DEFINE W == {d \in Deciders : decider[d].won}
  <2>1. Cardinality({}) = 0 /\ \A x : Cardinality({x}) = 1
    BY FS_EmptySet, FS_Singleton
  <2>2. CASE W = {}
    <3>1. Cardinality(W) = 0
      BY <2>1, <2>2
    <3> QED BY <3>1 DEF FirstWriterWins
  <2>3. CASE W # {}
    <3>1. PICK d \in Deciders : decider[d].won
      BY <2>3
    <3>2. W = {d}
      BY <3>1 DEF Standing
    <3>3. ~fired
      BY <3>1 DEF Standing, Outcomes
    <3>4. Cardinality(W) = 1
      BY <2>1, <3>2
    <3> QED BY <3>3, <3>4 DEF FirstWriterWins
  <2> QED BY <2>2, <2>3
<1> QED BY <1>1, StoreAlways, PTL

-----------------------------------------------------------------------------
(* One approval, one grant                                                 *)

\* Where dispatches do not fail no decision is taken back.
LEMMA NextForward ==
  ASSUME TypeOK, [Next]_vars, Without({"dispatch_error"}),
         \A d \in Deciders : decider[d].pc \notin {"restore"} \union InFlight
  PROVE  \A d \in Deciders : decider'[d].pc \notin {"restore"} \union InFlight
<1>1. CASE UNCHANGED decider
  BY <1>1
<1>2. ASSUME NEW d \in Deciders, Begin(d) \/ CheckPending(d) \/ SaveCancelled(d) \/ SignalResume(d) \/ ClearIntent(d)
      PROVE  \A e \in Deciders : decider'[e].pc \notin {"restore"} \union InFlight
  <2>1. PICK p \in {"record", "done", "write", "clear"} : Goto(d, p)
    BY <1>2 DEF Begin, CheckPending, SaveCancelled, SignalResume, ClearIntent, Without
  <2> QED BY <2>1, GotoFacts DEF InFlight
<1>3. ASSUME NEW d \in Deciders, RecordIntent(d)
      PROVE  \A e \in Deciders : decider'[e].pc \notin {"restore"} \union InFlight
  BY <1>3, RecordIntentFacts DEF InFlight
<1>4. ASSUME NEW d \in Deciders, SaveDecision(d)
      PROVE  \A e \in Deciders : decider'[e].pc \notin {"restore"} \union InFlight
  BY <1>4, SaveDecisionFacts DEF InFlight
<1>5. ASSUME NEW d \in Deciders PROVE ~Restore(d) /\ ~RestoreRow(d) /\ ~RestoreCache(d)
  BY DEF Restore, RestoreRow, RestoreCache, InFlight
<1>6. CASE Crash
  BY <1>6, CrashFacts DEF InFlight
<1>7. CASE \/ UNCHANGED vars \/ Get \/ Consume \/ ClearCache \/ ScanRead \/ ScanExpire
           \/ ScanRefresh \/ FallDue \/ DrainRead \/ DrainClear
  BY <1>1, <1>7 DEF vars, Get, Consume, ClearCache, ScanRead, ScanExpire, ScanRefresh, FallDue,
                    DrainRead, DrainClear
<1> QED BY <1>2, <1>3, <1>4, <1>5, <1>6, <1>7 DEF Next, DecideStep

\* A decision is written over a pending row, on which no grant was given, and only
\* the compare-and-set of the repository gives one.
LEMMA NextGrant ==
  TypeOK /\ LockInv /\ RowsTrue /\ StoreInv /\ GrantInv /\ [Next]_vars => GrantInv'
<1> SUFFICES ASSUME TypeOK, LockInv, RowsTrue, StoreInv, GrantInv, [Next]_vars,
                    Without({"scan", "dispatch_error"})
             PROVE  /\ \A d \in Deciders : decider'[d].pc \notin {"restore"} \union InFlight
                    /\ \/ grants' = 0 /\ ~repo'.used
                       \/ grants' = 1 /\ repo'.used /\ repo'.status = "approved"
  BY EnvKept DEF GrantInv
<1>2. /\ \A d \in Deciders : decider[d].pc \notin {"restore"} \union InFlight
      /\ \/ grants = 0 /\ ~repo.used
         \/ grants = 1 /\ repo.used /\ repo.status = "approved"
  BY DEF GrantInv
<1>1. \A d \in Deciders : decider'[d].pc \notin {"restore"} \union InFlight
  <2>1. Without({"dispatch_error"})
    BY DEF Without
  <2> QED BY <1>2, <2>1, NextForward
<1>3. Standing /\ scan = NoScan
  BY DEF StoreInv, Standing, Without
<1> DEFINE G == \/ grants' = 0 /\ ~repo'.used
                \/ grants' = 1 /\ repo'.used /\ repo'.status = "approved"
<1>4. ASSUME UNCHANGED <<repo, grants>> PROVE G
  <2>1. repo' = repo /\ grants' = grants
    BY <1>4
  <2> QED BY <1>2, <2>1
<1>5. ASSUME ReadThrough, UNCHANGED grants PROVE G
  <2>1. Pending.used = FALSE /\ [Pending EXCEPT !.status = "expired"].used = FALSE
    BY DEF Pending
  <2> QED BY <1>2, <1>5, <2>1, ReadFacts
<1>6. ASSUME Consume PROVE G
  <2>1. CASE UNCHANGED <<repo, grants>>
    BY <1>4, <2>1
  <2>2. CASE repo.status = "approved" /\ ~repo.used /\ repo' = [repo EXCEPT !.used = TRUE] /\ grants' = grants + 1
    <3>1. repo'.used /\ repo'.status = "approved"
      BY <2>2 DEF TypeOK, Row
    <3>2. grants = 0
      BY <1>2, <2>2
    <3> QED BY <2>2, <3>1, <3>2
  <2> QED BY <1>6, <2>1, <2>2 DEF Consume
<1>7. ASSUME NEW d \in Deciders, SaveDecision(d) \/ SaveCancelled(d) PROVE G
  <2>1. repo' \in {repo, Decision(d)} /\ grants' = grants /\ decider[d].pc = "write"
    BY <1>7 DEF SaveDecision, SaveCancelled
  <2>2. repo = Pending /\ Pending.used = FALSE
    BY <1>3, <2>1 DEF Standing, Pending
  <2> QED BY <1>2, <2>1, <2>2, DecisionFacts
<1>8. ASSUME NEW d \in Deciders PROVE ~Restore(d) /\ ~RestoreRow(d) /\ ~RestoreCache(d)
  BY <1>2 DEF Restore, RestoreRow, RestoreCache, InFlight
<1>9. ASSUME NEW d \in Deciders, Begin(d) \/ CheckPending(d) PROVE G
  BY <1>4, <1>5, <1>9 DEF Begin, CheckPending
<1>10. ASSUME NEW d \in Deciders, RecordIntent(d) \/ SignalResume(d) \/ ClearIntent(d) PROVE G
  BY <1>4, <1>10 DEF RecordIntent, SignalResume, ClearIntent, store
<1>11. ASSUME UNCHANGED vars \/ ClearCache \/ FallDue \/ Crash \/ DrainClear PROVE G
  BY <1>4, <1>11 DEF vars, store, ClearCache, FallDue, Crash, DrainClear
<1>12. ASSUME Get \/ DrainRead PROVE G
  BY <1>4, <1>5, <1>12 DEF Get, DrainRead
<1>13. ~ScanRead /\ ~ScanExpire /\ ~ScanRefresh
  BY <1>3, ConstantRows DEF ScanRead, ScanExpire, ScanRefresh, Without
<1>14. G
  BY <1>6, <1>7, <1>8, <1>9, <1>10, <1>11, <1>12, <1>13 DEF Next, DecideStep
<1> QED BY <1>1, <1>14

\* The grant and its stamp agree in every state.
LEMMA GrantAlways == Spec => []GrantInv
<1>1. Init => GrantInv
  <2> SUFFICES ASSUME Init PROVE GrantInv
    OBVIOUS
  <2>1. /\ repo = Pending /\ grants = 0 /\ \A d \in Deciders : decider[d].pc = "idle"
    BY DEF Init
  <2> QED BY <2>1 DEF GrantInv, Pending, InFlight
<1>2. TypeOK /\ LockInv /\ RowsTrue /\ StoreInv /\ GrantInv /\ [Next]_vars => GrantInv'
  BY NextGrant
<1> QED BY <1>1, <1>2, RowsAlways, StoreAlways, PTL DEF Spec

\* One approval authorises one action: as long as no listing runs and no decision
\* is taken back, consume_if_approved succeeds once at most, over any number of
\* callers, clears of the cache and crashes.
THEOREM GrantedOnce == Spec => []OneGrant
<1>1. GrantInv => OneGrant
  BY DEF GrantInv, OneGrant
<1> QED BY <1>1, GrantAlways, PTL

-----------------------------------------------------------------------------
(* The resume marker                                                       *)

\* Steps that leave the marker and the resumes alone, and the row, up to its stamp.
LEMMA MarkerKept ==
  ASSUME TypeOK,
         \A d \in Deciders : decider[d].pc \in {"save", "write"} =>
           repo.status # "pending" \/ (marker # 0 /\ marker <= decider[d].at),
         repo.status \in Outcomes => ActedUpon \/ (marker # 0 /\ marker <= repo.at),
         \A d \in Deciders : decider[d].pc = "clear" => ActedUpon,
         drain = "clear" => repo.status \notin Outcomes \/ ActedUpon,
         UNCHANGED <<marker, resumed>>, drain' = "clear" => drain = "clear",
         repo'.status = repo.status, repo'.by = repo.by, repo'.at = repo.at,
         \A d \in Deciders :
           /\ decider'[d].at = decider[d].at
           /\ decider'[d].pc \in {"save", "write"} => decider[d].pc \in {"save", "write"}
           /\ decider'[d].pc = "clear" => decider[d].pc = "clear"
  PROVE  MarkerInv'
<1>1. ActedUpon' <=> ActedUpon
  BY DEF ActedUpon
<1> QED BY <1>1 DEF MarkerInv

\* Reading through the cache, at most an expiry.
LEMMA MarkerRead ==
  ASSUME TypeOK, RowsTrue, ReadThrough,
         \A d \in Deciders : decider[d].pc \in {"save", "write"} =>
           repo.status # "pending" \/ (marker # 0 /\ marker <= decider[d].at),
         repo.status \in Outcomes => ActedUpon \/ (marker # 0 /\ marker <= repo.at),
         \A d \in Deciders : decider[d].pc = "clear" => ActedUpon,
         drain = "clear" => repo.status \notin Outcomes \/ ActedUpon,
         UNCHANGED <<marker, resumed, drain>>,
         \A d \in Deciders :
           /\ decider'[d].at = decider[d].at
           /\ decider'[d].pc \in {"save", "write"} => decider[d].pc \in {"save", "write"}
           /\ decider'[d].pc = "clear" => decider[d].pc = "clear"
  PROVE  MarkerInv'
<1>1. CASE repo' = repo
  BY <1>1, MarkerKept
<1>2. CASE repo = Pending /\ repo' = [Pending EXCEPT !.status = "expired"]
  <2>1. repo.status = "pending" /\ repo'.status = "expired" /\ "pending" \notin Outcomes /\ "expired" \notin Outcomes
    BY <1>2 DEF Pending, Outcomes
  <2>2. ~ActedUpon
    BY <2>1 DEF ActedUpon
  <2> QED BY <2>1, <2>2 DEF MarkerInv
<1> QED BY <1>1, <1>2, ReadFacts

\* The marker outlives what it stands for, step by step.
LEMMA NextMarker ==
  TypeOK /\ LockInv /\ RowsTrue /\ StoreInv /\ GrantInv /\ MarkerInv /\ [Next]_vars => MarkerInv'
<1> SUFFICES ASSUME TypeOK, LockInv, RowsTrue, StoreInv, GrantInv, MarkerInv, [Next]_vars,
                    Without({"scan", "marker_error", "dispatch_error"})
             PROVE  MarkerInv'
  BY EnvKept DEF MarkerInv
<1>1. /\ \A d \in Deciders : decider[d].pc \in {"save", "write"} =>
           repo.status # "pending" \/ (marker # 0 /\ marker <= decider[d].at)
      /\ repo.status \in Outcomes => ActedUpon \/ (marker # 0 /\ marker <= repo.at)
      /\ \A d \in Deciders : decider[d].pc = "clear" => ActedUpon
      /\ drain = "clear" => repo.status \notin Outcomes \/ ActedUpon
  BY DEF MarkerInv
<1>2. /\ "marker_error" \notin env /\ "dispatch_error" \notin env
      /\ \A d \in Deciders : decider[d].pc \notin {"restore"} \union InFlight
  BY DEF Without, GrantInv
<1>3. Standing /\ Agreement /\ scan = NoScan
  BY DEF StoreInv, Standing, Without
<1>4. /\ "pending" \notin Outcomes /\ "expired" \notin Outcomes /\ Pending.status = "pending"
      /\ marker \in Nat /\ now \in Nat /\ marker < now
      /\ \A d \in Deciders : decider[d].at \in Nat
  BY DEF Outcomes, Pending, TypeOK, DeciderRecord
<1>5. CASE \/ UNCHANGED vars \/ ClearCache \/ FallDue
  <2>1. UNCHANGED <<repo, marker, resumed, drain, decider>>
    BY <1>5 DEF vars, store, ClearCache, FallDue
  <2> QED BY <1>1, <2>1, MarkerKept
<1>6. CASE Get
  BY <1>1, <1>6, MarkerRead DEF Get
<1>7. CASE Consume
  <2>1. UNCHANGED <<marker, resumed, drain, decider>> /\ repo' \in {repo, [repo EXCEPT !.used = TRUE]}
    BY <1>7 DEF Consume
  <2>2. repo'.status = repo.status /\ repo'.by = repo.by /\ repo'.at = repo.at
    BY <2>1 DEF TypeOK, Row
  <2> QED BY <1>1, <2>1, <2>2, MarkerKept
<1>8. ASSUME NEW d \in Deciders, Begin(d) PROVE MarkerInv'
  <2>1. PICK p \in {"record", "done"} : Goto(d, p)
    BY <1>8 DEF Begin
  <2>2. ReadThrough /\ UNCHANGED <<marker, resumed, drain>>
    BY <1>8 DEF Begin
  <2> QED BY <1>1, <2>1, <2>2, GotoFacts, MarkerRead
<1>9. ASSUME NEW d \in Deciders, RecordIntent(d) PROVE MarkerInv'
  <2>1. /\ decider[d].pc = "record" /\ UNCHANGED <<repo, resumed, drain>>
        /\ marker' = IF marker = 0 THEN now ELSE marker
    BY <1>2, <1>9 DEF RecordIntent, store
  <2>2. /\ decider'[d].pc = "save" /\ decider'[d].at = now
        /\ \A e \in Deciders \ {d} : decider'[e] = decider[e]
    BY <1>9, RecordIntentFacts
  <2>3. ActedUpon' <=> ActedUpon
    BY <2>1 DEF ActedUpon
  <2>4. marker' # 0 /\ marker' <= now /\ (marker # 0 => marker' = marker)
    BY <1>4, <2>1
  <2>5. ASSUME NEW e \in Deciders, decider'[e].pc \in {"save", "write"}
        PROVE  repo'.status # "pending" \/ (marker' # 0 /\ marker' <= decider'[e].at)
    BY <1>1, <2>1, <2>2, <2>4, <2>5
  <2>6. repo'.status \in Outcomes => ActedUpon' \/ (marker' # 0 /\ marker' <= repo'.at)
    BY <1>1, <2>1, <2>3, <2>4
  <2>7. ASSUME NEW e \in Deciders, decider'[e].pc = "clear" PROVE ActedUpon'
    BY <1>1, <2>2, <2>3, <2>7
  <2>8. drain' = "clear" => repo'.status \notin Outcomes \/ ActedUpon'
    BY <1>1, <2>1, <2>3
  <2> QED BY <2>5, <2>6, <2>7, <2>8 DEF MarkerInv
<1>10. ASSUME NEW d \in Deciders, CheckPending(d) PROVE MarkerInv'
  <2>1. ~SaveInFlight
    BY <1>2 DEF SaveInFlight, InFlight
  <2>2. PICK p \in {"write", "done"} : Goto(d, p)
    BY <1>10 DEF CheckPending
  <2>3. decider[d].pc = "save" /\ ReadThrough /\ UNCHANGED <<marker, resumed, drain>>
    BY <1>10, <2>1 DEF CheckPending
  <2> QED BY <1>1, <2>2, <2>3, GotoFacts, MarkerRead
<1>11. ASSUME NEW d \in Deciders, SaveDecision(d) \/ SaveCancelled(d) PROVE MarkerInv'
  <2>1. /\ decider[d].pc = "write" /\ UNCHANGED <<marker, resumed, drain>>
        /\ repo' \in {repo, Decision(d)}
    BY <1>11 DEF SaveDecision, SaveCancelled
  <2>2. repo = Pending /\ ~ActedUpon /\ drain # "clear"
    <3>1. repo = Pending
      BY <1>3, <2>1 DEF Standing
    <3>2. drain = "off"
      BY <2>1 DEF LockInv
    <3> QED BY <1>4, <3>1, <3>2 DEF ActedUpon
  <2>3. /\ decider'[d].pc \in {"signal", "done"} /\ decider'[d].at = decider[d].at
        /\ \A e \in Deciders \ {d} : decider'[e] = decider[e]
    BY <1>11, SaveDecisionFacts, GotoFacts DEF SaveCancelled
  <2>4. CASE repo' = repo
    BY <1>1, <2>1, <2>3, <2>4, MarkerKept
  <2>5. CASE repo' = Decision(d)
    <3>1. repo'.status \in Outcomes /\ repo'.at = decider[d].at
      BY <2>5, DecisionFacts
    <3>2. marker # 0 /\ marker <= decider[d].at
      BY <1>1, <1>4, <2>1, <2>2
    <3>3. \A e \in Deciders : decider'[e].pc # "clear"
      BY <1>1, <2>2, <2>3
    <3> QED BY <1>4, <2>1, <2>2, <3>1, <3>2, <3>3 DEF MarkerInv
  <2> QED BY <2>1, <2>4, <2>5
<1>12. ASSUME NEW d \in Deciders, SignalResume(d) PROVE MarkerInv'
  <2>1. /\ decider[d].pc = "signal" /\ UNCHANGED <<repo, marker, drain>> /\ Goto(d, "clear")
        /\ resumed' = resumed \union {[by |-> d, outcome |-> decider[d].outcome]}
    BY <1>2, <1>12 DEF SignalResume, store
  <2>2. repo.by = d /\ repo.status \in Outcomes
    BY <1>3, <2>1 DEF Standing
  <2>3. repo.status = decider[d].outcome
    BY <2>2 DEF RowsTrue, RowTrue
  <2>4. ActedUpon'
    BY <2>1, <2>2, <2>3 DEF ActedUpon
  <2> QED BY <1>4, <2>1, <2>2, <2>4 DEF MarkerInv
<1>13. ASSUME NEW d \in Deciders, ClearIntent(d) PROVE MarkerInv'
  <2>1. decider[d].pc = "clear" /\ UNCHANGED <<repo, resumed, drain>>
    BY <1>13 DEF ClearIntent, store
  <2>2. ActedUpon /\ ActedUpon' /\ repo'.status \in Outcomes
    BY <1>1, <2>1 DEF ActedUpon
  <2> QED BY <1>4, <2>2 DEF MarkerInv
<1>14. ASSUME NEW d \in Deciders PROVE ~Restore(d) /\ ~RestoreRow(d) /\ ~RestoreCache(d)
  BY <1>2 DEF Restore, RestoreRow, RestoreCache, InFlight
<1>15. ~ScanRead /\ ~ScanExpire /\ ~ScanRefresh
  BY <1>3, ConstantRows DEF ScanRead, ScanExpire, ScanRefresh, Without
<1>16. CASE Crash
  <2>1. UNCHANGED <<repo, marker, resumed>> /\ drain' = "read"
    BY <1>16 DEF Crash
  <2> QED BY <1>1, <1>16, <2>1, CrashFacts, MarkerKept
<1>17. CASE DrainRead
  <2>1. UNCHANGED <<decider, marker>> /\ \A d \in Deciders : decider[d].pc \in {"idle", "done"}
    BY <1>17 DEF DrainRead, LockInv
  <2>2. CASE marker = 0
    <3>1. UNCHANGED <<repo, resumed>> /\ drain' = "off"
      BY <1>17, <2>2 DEF DrainRead
    <3> QED BY <1>1, <2>1, <3>1, MarkerKept
  <2>3. CASE marker # 0
    <3>1. ReadThrough /\ resumed \subseteq resumed'
      BY <1>17, <2>3 DEF DrainRead
    <3>2. Current = repo' /\ repo' \in Row
      <4>1. \A d \in Deciders : decider[d].pc # "restored"
        BY <2>1
      <4> QED BY <1>3, <1>4, <3>1, <4>1, ReadFacts, ConstantRows DEF Agreement
    <3>3. ASSUME repo'.status \in Outcomes PROVE repo' = repo
      <4>1. [Pending EXCEPT !.status = "expired"].status = "expired"
        BY DEF Pending
      <4> QED BY <1>4, <3>1, <3>3, <4>1, ReadFacts
    <3>4. ASSUME repo'.status \in Outcomes, StaleMarker(repo') PROVE ActedUpon'
      <4>1. repo' = repo /\ repo.at < marker /\ repo.at \in Nat
        BY <1>4, <3>2, <3>3, <3>4 DEF StaleMarker, Row
      <4>2. ActedUpon
        BY <1>1, <1>4, <3>4, <4>1
      <4> QED BY <3>1, <4>1, <4>2 DEF ActedUpon
    <3>5. ASSUME repo'.status \in Outcomes, ~StaleMarker(repo') PROVE ActedUpon'
      <4>1. resumed' = resumed \union
              {[by |-> repo'.by, outcome |-> IF repo'.status = "approved" THEN "approved" ELSE "rejected"]}
        BY <1>2, <1>17, <2>3, <3>2, <3>5 DEF DrainRead
      <4>2. (IF repo'.status = "approved" THEN "approved" ELSE "rejected") = repo'.status
        BY <3>5 DEF Outcomes
      <4> QED BY <3>5, <4>1, <4>2 DEF ActedUpon
    <3> QED BY <2>1, <3>4, <3>5 DEF MarkerInv
  <2> QED BY <2>2, <2>3
<1>18. CASE DrainClear
  <2>1. /\ UNCHANGED <<repo, resumed, decider>> /\ drain = "clear" /\ drain' = "off"
        /\ \A d \in Deciders : decider[d].pc \in {"idle", "done"}
    BY <1>18 DEF DrainClear, store, LockInv
  <2>2. ActedUpon' <=> ActedUpon
    BY <2>1 DEF ActedUpon
  <2> QED BY <1>1, <2>1, <2>2 DEF MarkerInv
<1> QED BY <1>5, <1>6, <1>7, <1>8, <1>9, <1>10, <1>11, <1>12, <1>13, <1>14, <1>15, <1>16, <1>17,
           <1>18 DEF Next, DecideStep

\* No decision is stranded: what was decided has been acted upon, is about to be
\* by its decider, or has a marker that no restart takes for stale, wherever the
\* process dies between the marker, the write, the dispatch and the clear.
THEOREM DecisionsNotStranded == Spec => []NoStrandedDecision
<1>1. Init => MarkerInv
  <2> SUFFICES ASSUME Init PROVE MarkerInv
    OBVIOUS
  <2>1. /\ repo = Pending /\ drain = "off" /\ \A d \in Deciders : decider[d].pc = "idle"
    BY DEF Init
  <2> QED BY <2>1 DEF MarkerInv, Pending, Outcomes
<1>2. TypeOK /\ LockInv /\ RowsTrue /\ StoreInv /\ GrantInv /\ MarkerInv /\ [Next]_vars => MarkerInv'
  BY NextMarker
<1>3. TypeOK /\ MarkerInv => NoStrandedDecision
  <2> SUFFICES ASSUME TypeOK, MarkerInv, Without({"scan", "marker_error", "dispatch_error"}),
                      repo.status \in Outcomes, ~ActedUpon
               PROVE  marker # 0 /\ ~StaleMarker(repo)
    BY DEF NoStrandedDecision, ActedUpon
  <2>1. marker # 0 /\ marker <= repo.at /\ marker \in Nat /\ repo.at \in Nat /\ repo.status # "pending"
    BY DEF MarkerInv, TypeOK, Row, Outcomes
  <2> QED BY <2>1 DEF StaleMarker
<1> QED BY <1>1, <1>2, <1>3, RowsAlways, StoreAlways, GrantAlways, PTL DEF Spec
=============================================================================
