----------------------------- MODULE Idempotency -----------------------------
(***************************************************************************)
(* run_idempotent (idempotency/service.py) over the key table              *)
(* (persistence/sqlite/idempotency_repo.py): callers that share one        *)
(* (scope, key) claim a lease on its row, run their callback and record    *)
(* its result, or wait for the holder of the lease.  Every repository call *)
(* is one transaction under the write lock, hence one step.                *)
(*                                                                         *)
(* One key: rows of different keys never meet.  A result is named by the   *)
(* call whose callback returned it, and so is a claim token, as a call     *)
(* gets at most one fresh claim.                                           *)
(***************************************************************************)
EXTENDS Naturals

CONSTANTS
  MaxCalls,      \* bound: calls of run_idempotent for the key
  Ttl,           \* ttl_seconds, in ticks of the clock
  MaxTime,       \* bound: how far the clock runs
  Fingerprints,  \* request fingerprints
  NoFingerprint, \* None: the caller opted out of the comparison
  MaxRetries     \* _MAX_LEADER_FAILED_RETRIES

ASSUME IdempotencyAssumption ==
  /\ MaxCalls \in Nat /\ Ttl \in Nat \ {0} /\ MaxTime \in Nat /\ MaxRetries \in Nat
  /\ NoFingerprint \notin Fingerprints

\* Calls are numbered in the order they are made.
Calls  == 1..MaxCalls
NoCall == 0
Prints == Fingerprints \union {NoFingerprint}

VARIABLES
  clock,
  row,    \* the row of the key in idempotency_keys
  call,   \* where each call is, what it holds and what it returned
  saved   \* history: the calls whose result was ever committed to the row

vars == <<clock, row, call, saved>>

NoRow == [status |-> "absent", token |-> NoCall, expires |-> 0, print |-> NoFingerprint]
Idle  == [pc |-> "idle", print |-> NoFingerprint, now |-> 0, retries |-> 0,
          expires |-> 0, answer |-> "none", body |-> NoCall]

Answers == {"fresh",       \* the callback's own result
            "replay",      \* the cached result, from the claim
            "polled",      \* ... from the poll of an in-flight claim
            "timed_out", "conflict", "raised"}

CallRecord == [pc : {"idle", "claim", "poll", "run", "done"},
               print : Prints, now : 0..MaxTime, retries : 0..MaxRetries,
               expires : 0..(MaxTime + Ttl), answer : Answers \union {"none"},
               body : Calls \union {NoCall}]

\* Every variable has its type: no call retries more often than MaxRetries.
TypeOK ==
  /\ clock \in 0..MaxTime
  /\ row \in [status : {"absent", "in_flight", "completed", "failed"},
              token : Calls \union {NoCall}, expires : 0..(MaxTime + Ttl), print : Prints]
  /\ call \in [Calls -> CallRecord]
  /\ saved \subseteq Calls

Init ==
  /\ clock = 0
  /\ row = NoRow
  /\ call = [c \in Calls |-> Idle]
  /\ saved = {}

Goto(c, pc) == call' = [call EXCEPT ![c].pc = pc]

Return(c, answer, body) ==
  call' = [call EXCEPT ![c] = [Idle EXCEPT !.pc = "done", !.print = call[c].print,
                                           !.answer = answer, !.body = body]]

-----------------------------------------------------------------------------
(* The claim                                                               *)

\* run_idempotent is called; the time is read before the row is.
Begin(c) ==
  /\ call[c].pc = "idle" /\ \A b \in 1..(c - 1) : call[b].pc # "idle"
  /\ \E p \in Prints :
       call' = [call EXCEPT ![c].pc = "claim", ![c].print = p, ![c].now = clock]
  /\ UNCHANGED <<clock, row, saved>>

\* Mutant: nobody looks at the payload.
PayloadMismatch_mutant(c) == FALSE

\* The same key with another payload; compared only if both sides have one.
PayloadMismatch(c) ==
  /\ call[c].print # NoFingerprint
  /\ row.print # NoFingerprint
  /\ row.print # call[c].print

\* _claim_under_lock on a row that has not expired.
ClaimTaken(c) ==
  /\ call[c].pc = "claim"
  /\ row.status \in {"completed", "in_flight"} /\ row.expires > call[c].now
  /\ \/ PayloadMismatch(c) /\ Return(c, "conflict", NoCall)
     \/ ~PayloadMismatch(c) /\ row.status = "completed" /\ Return(c, "replay", row.token)
     \/ ~PayloadMismatch(c) /\ row.status = "in_flight" /\ Goto(c, "poll")
  /\ UNCHANGED <<clock, row, saved>>

\* No row, or one that failed or expired: the lease is rotated.
ClaimFresh(c) ==
  /\ call[c].pc = "claim"
  /\ ~(row.status \in {"completed", "in_flight"} /\ row.expires > call[c].now)
  /\ LET expires == call[c].now + Ttl
     IN  /\ row' = [status |-> "in_flight", token |-> c, expires |-> expires,
                    print |-> call[c].print]
         /\ call' = [call EXCEPT ![c].pc = "run", ![c].expires = expires]
  /\ UNCHANGED <<clock, saved>>

\* A QueryError of the claim or of the poll's read: nothing has changed.
QueryFails(c) ==
  /\ call[c].pc \in {"claim", "poll"}
  /\ Return(c, "raised", NoCall)
  /\ UNCHANGED <<clock, row, saved>>

-----------------------------------------------------------------------------
(* The holder of a fresh claim                                             *)

\* A critical error, the cancellation of the request, the death of the process:
\* the row stays in flight until it expires.
Killed(c) ==
  /\ call[c].pc = "run"
  /\ Return(c, "raised", NoCall)
  /\ UNCHANGED <<clock, row, saved>>

OwnsRow(c) == row.status = "in_flight" /\ row.token = c

\* Mutant: the write is not a compare-and-set.
Complete_mutant(c) ==
  /\ call[c].pc = "run"
  /\ row' = [row EXCEPT !.status = "completed", !.token = c]
  /\ saved' = saved \union {c}
  /\ Return(c, "fresh", c)
  /\ UNCHANGED clock

\* The callback returns, then complete(); nothing happens in between that others
\* could see.  A result that does not serialise, or a write that fails, is
\* Killed.  A worker whose lease was rotated returns its own result all the same.
Complete(c) ==
  /\ call[c].pc = "run"
  /\ row' = IF OwnsRow(c) THEN [row EXCEPT !.status = "completed"] ELSE row
  /\ saved' = IF OwnsRow(c) THEN saved \union {c} ELSE saved
  /\ Return(c, "fresh", c)
  /\ UNCHANGED clock

\* The callback raises, then _mark_failed_safely; a write that fails is Killed.
MarkFailed(c) ==
  /\ call[c].pc = "run"
  /\ row' = IF OwnsRow(c) THEN [row EXCEPT !.status = "failed"] ELSE row
  /\ Return(c, "raised", NoCall)
  /\ UNCHANGED <<clock, saved>>

-----------------------------------------------------------------------------
(* Waiting for the holder                                                  *)

PollCompleted(c) ==
  /\ call[c].pc = "poll"
  /\ row.status = "completed"
  /\ Return(c, "polled", row.token)
  /\ UNCHANGED <<clock, row, saved>>

\* The row failed or is gone: claim again, or give up after the retries.
LeaderFailed(c) ==
  /\ call[c].pc = "poll"
  /\ row.status \in {"failed", "absent"}
  /\ IF call[c].retries >= MaxRetries
     THEN Return(c, "timed_out", NoCall)
     ELSE call' = [call EXCEPT ![c].pc = "claim", ![c].now = clock, ![c].retries = @ + 1]
  /\ UNCHANGED <<clock, row, saved>>

\* Mutant: a follower waits as long as the row is there.
PollTimeout_mutant(c) ==
  /\ call[c].pc = "poll"
  /\ row.status # "in_flight"
  /\ Return(c, "timed_out", NoCall)
  /\ UNCHANGED <<clock, row, saved>>

PollTimeout(c) ==
  /\ call[c].pc = "poll"
  /\ Return(c, "timed_out", NoCall)
  /\ UNCHANGED <<clock, row, saved>>

-----------------------------------------------------------------------------
\* Mutant: a row is deleted in the tick before it expires.
Cleanup_mutant ==
  /\ row.status # "absent"
  /\ row.expires <= clock + 1
  /\ row' = NoRow
  /\ UNCHANGED <<clock, call, saved>>

\* The periodic clean-up deletes rows that have expired.
Cleanup ==
  /\ row.status # "absent"
  /\ row.expires <= clock
  /\ row' = NoRow
  /\ UNCHANGED <<clock, call, saved>>

Tick ==
  /\ clock < MaxTime
  /\ clock' = clock + 1
  /\ UNCHANGED <<row, call, saved>>

CallStep(c) ==
  \/ ClaimTaken(c) \/ ClaimFresh(c)
  \/ Complete(c) \/ MarkFailed(c)
  \/ PollCompleted(c) \/ LeaderFailed(c) \/ PollTimeout(c)

Next ==
  \/ Cleanup \/ Tick
  \/ \E c \in Calls : Begin(c) \/ CallStep(c) \/ QueryFails(c) \/ Killed(c)

Spec == Init /\ [][Next]_vars

\* A request's task keeps running, its callback ends, and the poll has a deadline
\* on the monotonic clock.  Failures need not happen.
FairSpec == Spec /\ \A c \in Calls : WF_vars(CallStep(c))

-----------------------------------------------------------------------------
(* Properties                                                              *)

\* A callback that still has its lease is alone: the row is in flight under its
\* token, whatever other claims, late completions and clean-ups do meanwhile, so
\* that two callbacks overlap only once a lease has expired under the older one.
LeaseProtects ==
  \A c \in Calls : call[c].pc = "run" /\ clock < call[c].expires => OwnsRow(c)

Matches(c, d) == call[c].print = call[d].print
                 \/ NoFingerprint \in {call[c].print, call[d].print}

\* A cached result is one that its holder committed, never that of a worker that
\* lost its lease; and a result handed out by the claim is that of a request
\* with the same payload.
ReplayTellsTruth ==
  \A c \in Calls :
    /\ call[c].answer \in {"replay", "polled"} => call[c].body \in saved
    /\ call[c].answer = "replay" => Matches(c, call[c].body)

\* ... and so is a result that comes out of the wait for an in-flight claim:
\* what the documentation of run_idempotent says of every replay.
ReplayMatchesPayload ==
  \A c \in Calls : call[c].answer \in {"replay", "polled"} => Matches(c, call[c].body)

\* Every call returns: a follower is never left behind by a leader that fails,
\* dies or loses its row.
EveryCallReturns ==
  \A c \in Calls : call[c].pc = "claim" ~> call[c].pc = "done"

\* The row implements the lease: it holds a valid lease unless it failed or
\* expired.  A late completion of an expired row changes nothing.
Valid == row.status \in {"in_flight", "completed"} /\ clock < row.expires

Lease == INSTANCE KeyLease WITH
           Holders   <- Calls,
           NoHolder  <- NoCall,
           holder    <- IF Valid THEN row.token ELSE NoCall,
           published <- Valid /\ row.status = "completed"

\* The table of keys keeps the promise of KeyLease: one valid lease at a time,
\* and a published result is final until it lapses.
LeaseSpec == Lease!Spec
=============================================================================
