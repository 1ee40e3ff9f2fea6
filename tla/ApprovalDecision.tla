--------------------------- MODULE ApprovalDecision ---------------------------
(***************************************************************************)
(* Deciding one approval: the store's cache in front of the repository     *)
(* (api/approval_store.py, api/_approval_expiration.py), the two decision  *)
(* paths that bracket the decision with a resume marker                    *)
(* (api/controllers/approvals/_notify.py, api/chat_inbound_resume.py) and  *)
(* the drain that finishes interrupted decisions after a restart           *)
(* (api/resume_intent_outbox.py).                                          *)
(*                                                                         *)
(* The store's lock is held across the repository calls of its scalar      *)
(* operations; save() lets go of it while it writes, and a listing reads   *)
(* its page and expires rows without it.                                   *)
(***************************************************************************)
EXTENDS Naturals, FiniteSets

CONSTANTS
  Deciders,      \* decisions, one attempt each
  NoOne,
  MaxCrashes,    \* bound
  MaxClears,     \* bound: calls of clear()
  Environments   \* sets of things that may happen

Hazards == {"scan",            \* list_items runs beside the decisions
            "expiry",          \* the approval's expires_at passes
            "crash",           \* the process dies and is restarted
            "cancelled",       \* a decision is cancelled in its write
            "dispatch_error",  \* waking the parked task fails
            "marker_error"}    \* the marker table cannot be written

ASSUME ApprovalAssumption ==
  /\ NoOne \notin Deciders
  /\ MaxCrashes \in Nat /\ MaxClears \in Nat
  /\ Environments \subseteq SUBSET Hazards

VARIABLES
  env,         \* what may happen in this behaviour
  due,         \* expires_at has passed
  now,         \* the next timestamp
  repo,        \* the row in the repository
  cache,       \* _items, for this approval
  lock,        \* who holds _lock across a repository write
  generation,  \* _generation
  decider,     \* each decision
  scan,        \* the listing that is under way
  marker,      \* recorded_at of the resume marker; 0 without one
  drain,       \* the startup drain
  resumed,     \* resumes dispatched: by whose decision, with which outcome
  fired,       \* whether the approval was reported as expired
  grants,      \* how many consume_if_approved calls have succeeded
  crashes

store == <<repo, cache, lock, generation>>
vars  == <<env, due, now, store, decider, scan, marker, drain, resumed, fired, grants, crashes>>

Outcomes == {"approved", "rejected"}
Row      == [status : {"absent", "pending", "expired"} \union Outcomes,
             by : Deciders \union {NoOne}, at : Nat, used : BOOLEAN]
Pending  == [status |-> "pending", by |-> NoOne, at |-> 0, used |-> FALSE]
Absent   == [Pending EXCEPT !.status = "absent"]
NoScan   == [pc |-> "idle", row |-> Absent, gen |-> 0]

DeciderRecord ==
  [pc : {"idle", "record", "save", "write", "signal", "clear", "restore", "restoring", "restored",
         "done"},
   outcome : Outcomes, at : Nat, gen : 0..MaxClears, won : BOOLEAN]

\* Every variable has its type: the approval's row is never gone.
TypeOK ==
  /\ env \in Environments
  /\ due \in BOOLEAN /\ fired \in BOOLEAN /\ now \in Nat /\ marker \in Nat /\ marker < now
  /\ repo \in Row /\ repo.status # "absent" /\ cache \in Row
  /\ lock \in Deciders \union {NoOne}
  /\ generation \in 0..MaxClears /\ crashes \in 0..MaxCrashes
  /\ decider \in [Deciders -> DeciderRecord] /\ \A d \in Deciders : decider[d].at < now
  /\ scan \in [pc : {"idle", "read", "refresh"}, row : Row, gen : 0..MaxClears]
  /\ drain \in {"off", "read", "clear"}
  /\ resumed \subseteq [by : Deciders \union {NoOne}, outcome : Outcomes]
  /\ grants \in Nat

Init ==
  /\ env \in Environments
  /\ due = FALSE /\ now = 1
  /\ repo = Pending /\ cache = Pending /\ lock = NoOne /\ generation = 0
  /\ decider \in [Deciders -> {[pc |-> "idle", outcome |-> o, at |-> 0, gen |-> 0, won |-> FALSE] :
                               o \in Outcomes}]
  /\ scan = NoScan /\ marker = 0 /\ drain = "off" /\ resumed = {}
  /\ fired = FALSE /\ grants = 0 /\ crashes = 0

-----------------------------------------------------------------------------
(* The store under its lock                                                *)

Free == lock = NoOne

\* The compare-and-set of expire_if_pending.
Expire(row) == IF row.status = "pending" THEN [row EXCEPT !.status = "expired"] ELSE row

\* Read through the cache, then _check_expiration_locked, which believes the
\* cache that the row is pending but leaves it to the repository to expire it.
Cached  == IF cache = Absent THEN repo ELSE cache
Lapsed  == due /\ Cached.status = "pending"
Current == IF Lapsed THEN Expire(repo) ELSE Cached

ReadThrough ==
  /\ repo' = IF Lapsed THEN Expire(repo) ELSE repo
  /\ fired' = (fired \/ (Lapsed /\ repo.status = "pending"))

Get ==
  /\ Free
  /\ ReadThrough
  /\ cache' = Current
  /\ UNCHANGED <<env, due, now, lock, generation, decider, scan, marker, drain, resumed, grants,
                 crashes>>

\* Mutant: only the cached copy is stamped.
Consume_mutant ==
  /\ Free
  /\ Current.status = "approved" /\ ~Current.used
  /\ cache' = [Current EXCEPT !.used = TRUE]
  /\ grants' = grants + 1
  /\ UNCHANGED <<env, due, now, repo, lock, generation, decider, scan, marker, drain, resumed,
                 fired, crashes>>

\* consume_if_approved: the repository's compare-and-set decides.
Consume ==
  /\ Free
  /\ Current.status = "approved" /\ ~Current.used
  /\ IF repo.status = "approved" /\ ~repo.used
     THEN /\ repo' = [repo EXCEPT !.used = TRUE]
          /\ cache' = [Current EXCEPT !.used = TRUE]
          /\ grants' = grants + 1
     ELSE cache' = Absent /\ UNCHANGED <<repo, grants>>
  /\ UNCHANGED <<env, due, now, lock, generation, decider, scan, marker, drain, resumed, fired,
                 crashes>>

ClearCache ==
  /\ Free
  /\ generation < MaxClears
  /\ cache' = Absent
  /\ generation' = generation + 1
  /\ UNCHANGED <<env, due, now, repo, lock, decider, scan, marker, drain, resumed, fired, grants,
                 crashes>>

-----------------------------------------------------------------------------
(* A decision                                                              *)

Goto(d, pc) == decider' = [decider EXCEPT ![d].pc = pc]

\* A save() of the approval is under way.
SaveInFlight == \E d \in Deciders : decider[d].pc \in {"restoring", "restored"}

Decision(d) == [status |-> decider[d].outcome, by |-> d, at |-> decider[d].at, used |-> FALSE]

\* The approval is read and must be pending.
Begin(d) ==
  /\ decider[d].pc = "idle" /\ drain = "off"
  /\ Free
  /\ ReadThrough
  /\ cache' = Current
  /\ Goto(d, IF Current.status = "pending" THEN "record" ELSE "done")
  /\ UNCHANGED <<env, due, now, lock, generation, scan, marker, drain, resumed, grants, crashes>>

\* Mutant: the marker is replaced, so that a loser's hides the winner's.
RecordIntent_mutant(d) ==
  /\ decider[d].pc = "record"
  /\ marker' = now
  /\ decider' = [decider EXCEPT ![d].pc = "save", ![d].at = now]
  /\ now' = now + 1
  /\ UNCHANGED <<env, due, store, scan, drain, resumed, fired, grants, crashes>>

\* record_resume_intent, INSERT OR IGNORE; then decided_at is stamped.
RecordIntent(d) ==
  /\ decider[d].pc = "record"
  /\ \/ marker' = IF marker = 0 THEN now ELSE marker
     \/ "marker_error" \in env /\ UNCHANGED marker
  /\ decider' = [decider EXCEPT ![d].pc = "save", ![d].at = now]
  /\ now' = now + 1
  /\ UNCHANGED <<env, due, store, scan, drain, resumed, fired, grants, crashes>>

\* Mutant: the save that is under way is not noticed.
CheckPending_unguarded(d) ==
  /\ decider[d].pc = "save"
  /\ Free
  /\ ReadThrough
  /\ cache' = Current
  /\ \/ Current.status = "pending" /\ lock' = d /\ Goto(d, "write")
     \/ Current.status # "pending" /\ UNCHANGED lock /\ Goto(d, "done")
  /\ UNCHANGED <<env, due, now, generation, scan, marker, drain, resumed, grants, crashes>>

\* Mutant: the status read at the beginning is believed.
CheckPending_believing(d) ==
  /\ decider[d].pc = "save"
  /\ Free
  /\ lock' = d
  /\ Goto(d, "write")
  /\ UNCHANGED <<env, due, now, repo, cache, generation, scan, marker, drain, resumed, fired,
                 grants, crashes>>

\* save_if_pending up to the write: the loser leaves the marker alone.
CheckPending(d) ==
  /\ decider[d].pc = "save"
  /\ Free
  /\ IF SaveInFlight
     THEN Goto(d, "done") /\ UNCHANGED <<repo, cache, lock, fired>>
     ELSE /\ ReadThrough
          /\ cache' = Current
          /\ \/ Current.status = "pending" /\ lock' = d /\ Goto(d, "write")
             \/ Current.status # "pending" /\ UNCHANGED lock /\ Goto(d, "done")
  /\ UNCHANGED <<env, due, now, generation, scan, marker, drain, resumed, grants, crashes>>

\* ... the write, an upsert, and the cache.
SaveDecision(d) ==
  /\ decider[d].pc = "write"
  /\ repo' = Decision(d)
  /\ cache' = Decision(d)
  /\ lock' = NoOne
  /\ decider' = [decider EXCEPT ![d].pc = "signal", ![d].won = TRUE]
  /\ UNCHANGED <<env, due, now, generation, scan, marker, drain, resumed, fired, grants, crashes>>

\* ... cancelled in the write, which may have landed: the cached row is evicted.
SaveCancelled(d) ==
  /\ "cancelled" \in env
  /\ decider[d].pc = "write"
  /\ repo' \in {repo, Decision(d)}
  /\ cache' = Absent
  /\ lock' = NoOne
  /\ Goto(d, "done")
  /\ UNCHANGED <<env, due, now, generation, scan, marker, drain, resumed, fired, grants, crashes>>

\* signal_resume_intent wakes the parked task.
SignalResume(d) ==
  /\ decider[d].pc = "signal"
  /\ \/ /\ resumed' = resumed \union {[by |-> d, outcome |-> decider[d].outcome]}
        /\ Goto(d, "clear")
     \/ /\ "dispatch_error" \in env
        /\ UNCHANGED resumed
        /\ Goto(d, "restore")
  /\ UNCHANGED <<env, due, now, store, scan, marker, drain, fired, grants, crashes>>

ClearIntent(d) ==
  /\ decider[d].pc = "clear"
  /\ \/ marker' = 0
     \/ "marker_error" \in env /\ UNCHANGED marker
  /\ Goto(d, "done")
  /\ UNCHANGED <<env, due, now, store, scan, drain, resumed, fired, grants, crashes>>

\* The dispatch failed: save(pending_snapshot), which claims the slot under the
\* lock, writes without it, and takes it again for the cache.
Restore(d) ==
  /\ decider[d].pc = "restore"
  /\ Free
  /\ cache' = Cached
  /\ decider' = [decider EXCEPT ![d].pc = IF SaveInFlight THEN "clear" ELSE "restoring",
                                ![d].gen = generation]
  /\ UNCHANGED <<env, due, now, repo, lock, generation, scan, marker, drain, resumed, fired, grants,
                 crashes>>

RestoreRow(d) ==
  /\ decider[d].pc = "restoring"
  /\ repo' = Pending
  /\ decider' = [decider EXCEPT ![d].pc = "restored", ![d].won = FALSE]
  /\ UNCHANGED <<env, due, now, cache, lock, generation, scan, marker, drain, resumed, fired,
                 grants, crashes>>

RestoreCache(d) ==
  /\ decider[d].pc = "restored"
  /\ Free
  /\ cache' = IF decider[d].gen = generation THEN Pending ELSE Absent
  /\ Goto(d, "clear")
  /\ UNCHANGED <<env, due, now, repo, lock, generation, scan, marker, drain, resumed, fired, grants,
                 crashes>>

-----------------------------------------------------------------------------
(* A listing                                                               *)

ScanRead ==
  /\ "scan" \in env
  /\ scan.pc = "idle" /\ drain = "off"
  /\ scan' = [pc |-> "read", row |-> repo, gen |-> generation]
  /\ UNCHANGED <<env, due, now, store, decider, marker, drain, resumed, fired, grants, crashes>>

\* Expire what the page says is pending and due; a row that has changed
\* meanwhile is fetched again, or dropped if the caller's filter excludes it.
ScanExpire ==
  /\ scan.pc = "read"
  /\ LET lapsed == due /\ scan.row.status = "pending"
         won    == lapsed /\ repo.status = "pending"
     IN  /\ repo' = IF won THEN Expire(repo) ELSE repo
         /\ fired' = (fired \/ won)
         /\ \E row \in IF won THEN {Expire(repo)} ELSE IF lapsed THEN {repo, Absent} ELSE {scan.row} :
              scan' = [scan EXCEPT !.pc = "refresh", !.row = row]
  /\ UNCHANGED <<env, due, now, cache, lock, generation, decider, marker, drain, resumed, grants,
                 crashes>>

\* The page goes into the cache unless clear() came in between.
ScanRefresh ==
  /\ scan.pc = "refresh"
  /\ Free
  /\ cache' = IF scan.gen = generation THEN scan.row ELSE cache
  /\ scan' = NoScan
  /\ UNCHANGED <<env, due, now, repo, lock, generation, decider, marker, drain, resumed, fired,
                 grants, crashes>>

-----------------------------------------------------------------------------
(* Time, crashes and the drain                                             *)

FallDue ==
  /\ "expiry" \in env
  /\ ~due
  /\ due' = TRUE
  /\ UNCHANGED <<env, now, store, decider, scan, marker, drain, resumed, fired, grants, crashes>>

\* Whoever has begun is gone; the rows stay.
Crash ==
  /\ "crash" \in env
  /\ crashes < MaxCrashes
  /\ crashes' = crashes + 1
  /\ decider' = [d \in Deciders |->
                   IF decider[d].pc = "idle" THEN decider[d] ELSE [decider[d] EXCEPT !.pc = "done"]]
  /\ cache' = Absent /\ lock' = NoOne /\ generation' = 0
  /\ scan' = NoScan
  /\ drain' = "read"
  /\ UNCHANGED <<env, due, now, repo, marker, resumed, fired, grants>>

\* Mutant: a decision that never landed is finished too.
StaleMarker_undecided(row) == row.at # 0 /\ row.at < marker

\* Mutant: a marker as old as the decision counts as recorded after it.
StaleMarker_strict(row) == row.status = "pending" \/ (row.at # 0 /\ row.at <= marker)

\* The drain of ResumeIntentDrain: a marker without a decision, or recorded after
\* it, is dropped; otherwise the resume is dispatched again.
StaleMarker(row) == row.status = "pending" \/ (row.at # 0 /\ row.at < marker)

DrainRead ==
  /\ drain = "read"
  /\ IF marker = 0
     THEN drain' = "off" /\ UNCHANGED <<repo, cache, resumed, fired>>
     ELSE /\ ReadThrough
          /\ cache' = Current
          /\ \/ /\ StaleMarker(Current)
                /\ drain' = "clear" /\ UNCHANGED resumed
             \/ /\ ~StaleMarker(Current)
                /\ resumed' = resumed \union
                     {[by |-> Current.by,
                       outcome |-> IF Current.status = "approved" THEN "approved" ELSE "rejected"]}
                /\ drain' = "clear"
             \/ /\ ~StaleMarker(Current)
                /\ "dispatch_error" \in env
                /\ drain' = "off" /\ UNCHANGED resumed
  /\ UNCHANGED <<env, due, now, lock, generation, decider, scan, marker, grants, crashes>>

DrainClear ==
  /\ drain = "clear"
  /\ \/ marker' = 0
     \/ "marker_error" \in env /\ UNCHANGED marker
  /\ drain' = "off"
  /\ UNCHANGED <<env, due, now, store, decider, scan, resumed, fired, grants, crashes>>

-----------------------------------------------------------------------------
DecideStep(d) ==
  \/ RecordIntent(d) \/ CheckPending(d) \/ SaveDecision(d) \/ SignalResume(d) \/ ClearIntent(d)
  \/ Restore(d) \/ RestoreRow(d) \/ RestoreCache(d)

Next ==
  \/ Get \/ Consume \/ ClearCache
  \/ \E d \in Deciders : Begin(d) \/ DecideStep(d) \/ SaveCancelled(d)
  \/ ScanRead \/ ScanExpire \/ ScanRefresh
  \/ FallDue \/ Crash \/ DrainRead \/ DrainClear

Spec == Init /\ [][Next]_vars

\* Requests run to their end, and so does the startup.
FairSpec == /\ Spec
            /\ \A d \in Deciders : WF_vars(DecideStep(d))
            /\ WF_vars(DrainRead \/ DrainClear)

-----------------------------------------------------------------------------
(* Properties                                                              *)

Without(hazards) == hazards \intersect env = {}

\* First writer wins: of all decisions and the expiry, at most one stands.
FirstWriterWins ==
  Cardinality({d \in Deciders : decider[d].won}) + (IF fired THEN 1 ELSE 0) <= 1

\* ... which the store keeps as long as no listing runs beside the decisions,
\* through cancelled writes, failed dispatches, clears of the cache and crashes.
OneDecision == Without({"scan"}) => FirstWriterWins

\* The cache disagrees with the repository only within a save(), or on a pending
\* row whose expiry has passed: readers ask the repository about that one.
CacheAgrees ==
  Without({"scan"}) => \/ cache \in {Absent, repo}
                       \/ \E d \in Deciders : decider[d].pc = "restored"
                       \/ cache = Pending /\ due

\* A decision that has been made and not been acted upon is in the hands of its
\* decider, or has a marker that a restart will not take for a stale one.
NoStrandedDecision ==
  \/ ~Without({"scan", "marker_error", "dispatch_error"})
  \/ repo.status \notin Outcomes
  \/ [by |-> repo.by, outcome |-> repo.status] \in resumed
  \/ decider[repo.by].pc = "signal"
  \/ marker # 0 /\ ~StaleMarker(repo)

\* Nobody is woken with a decision that nobody made.
ResumedAsDecided ==
  Without({"expiry"}) => \A r \in resumed : r.by # NoOne /\ r.outcome = decider[r.by].outcome

\* One approval authorises one action.
OneGrant == Without({"scan", "dispatch_error"}) => grants <= 1

\* The decision that stands reaches the parked task in the end, whatever crashes.
DecisionResumed ==
  \/ ~Without({"scan", "marker_error", "dispatch_error", "cancelled"})
  \/ \A d \in Deciders :
       repo.by = d ~> [by |-> d, outcome |-> decider[d].outcome] \in resumed
=============================================================================
