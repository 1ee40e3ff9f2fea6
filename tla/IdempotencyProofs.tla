-------------------------- MODULE IdempotencyProofs --------------------------
(***************************************************************************)
(* Proofs about Idempotency for any number of calls, any time to live, any *)
(* fingerprints and any number of retries.                                 *)
(***************************************************************************)
EXTENDS Idempotency, TLAPS

\* Nobody reads the time in the future.
ReadsPast == \A c \in Calls : call[c].now <= clock

\* A callback that runs has the row, with the expiry it was given, or its lease
\* has expired.
HoldsLease ==
  \A c \in Calls : call[c].pc = "run" =>
    \/ OwnsRow(c) /\ row.expires = call[c].expires
    \/ call[c].expires <= clock

\* The row names the call that claimed it, with the payload of that call, and a
\* result in it is one that was committed.
RowTellsTruth ==
  row.status # "absent" =>
    /\ row.token \in Calls
    /\ call[row.token].pc \in {"run", "done"}
    /\ row.print = call[row.token].print
    /\ row.status = "completed" => row.token \in saved

\* Only a call that has returned has an answer or a committed result.
Returned ==
  /\ \A c \in saved : call[c].pc = "done"
  /\ \A c \in Calls : call[c].answer # "none" => call[c].pc = "done"

LeaseInv == TypeOK /\ ReadsPast /\ HoldsLease /\ RowTellsTruth /\ Returned /\ ReplayTellsTruth

-----------------------------------------------------------------------------
\* Before the first call there is no row and no answer.
LEMMA InitInv == Init => LeaseInv
<1> SUFFICES ASSUME Init PROVE LeaseInv
  OBVIOUS
<1>1. 0 \in 0..MaxTime /\ 0 \in 0..(MaxTime + Ttl) /\ 0 \in 0..MaxRetries
  BY IdempotencyAssumption
<1>2. TypeOK
  BY <1>1 DEF Init, TypeOK, NoRow, Idle, CallRecord, Prints, Answers, NoCall
<1> QED BY <1>1, <1>2 DEF Init, LeaseInv, ReadsPast, HoldsLease, RowTellsTruth, Returned,
                     ReplayTellsTruth, NoRow, Idle

\* A call returns: nothing but its own record changes, and that one keeps the
\* call's payload.
LEMMA ReturnMoves ==
  ASSUME LeaseInv, NEW c \in Calls, NEW a \in Answers, NEW b \in Calls \union {NoCall},
         call[c].pc # "idle", Return(c, a, b)
  PROVE  /\ call' \in [Calls -> CallRecord]
         /\ call'[c].pc = "done" /\ call'[c].print = call[c].print /\ call'[c].now = 0
         /\ call'[c].answer = a /\ call'[c].body = b
         /\ \A d \in Calls \ {c} : call'[d] = call[d]
<1> DEFINE r == [Idle EXCEPT !.pc = "done", !.print = call[c].print, !.answer = a, !.body = b]
<1>1. call[c] \in CallRecord
  BY DEF LeaseInv, TypeOK
<1>2. 0 \in 0..MaxTime /\ 0 \in 0..(MaxTime + Ttl) /\ 0 \in 0..MaxRetries
  BY IdempotencyAssumption
<1>3. r \in CallRecord
  BY <1>1, <1>2 DEF CallRecord, Idle
<1>4. call' = [call EXCEPT ![c] = r]
  BY DEF Return
<1> QED BY <1>3, <1>4 DEF LeaseInv, TypeOK, Idle

\* A call that returns without touching the row leaves everything in order, as
\* long as its answer is true.
LEMMA ReturnInv ==
  ASSUME LeaseInv, NEW c \in Calls, NEW a \in Answers, NEW b \in Calls \union {NoCall},
         call[c].pc # "idle", Return(c, a, b), UNCHANGED <<clock, row, saved>>,
         a \in {"replay", "polled"} => b \in saved,
         a = "replay" => Matches(c, b)
  PROVE  LeaseInv'
<1> USE ReturnMoves DEF LeaseInv
<1>1. TypeOK'
  BY DEF TypeOK
<1>2. ReadsPast'
  BY DEF ReadsPast, TypeOK
<1>3. HoldsLease'
  BY DEF HoldsLease, OwnsRow
<1>4. RowTellsTruth'
  BY DEF RowTellsTruth
<1>5. Returned'
  BY DEF Returned, TypeOK
<1>6. ReplayTellsTruth'
  BY DEF ReplayTellsTruth, Matches, Returned, TypeOK
<1> QED BY <1>1, <1>2, <1>3, <1>4, <1>5, <1>6

\* No step of a call, the clean-up or the clock breaks the invariant.
LEMMA NextInv == LeaseInv /\ [Next]_vars => LeaseInv'
<1> SUFFICES ASSUME LeaseInv, [Next]_vars PROVE LeaseInv'
  OBVIOUS
<1> USE DEF LeaseInv
<1>a. ASSUME NEW c \in Calls PROVE call[c] \in CallRecord
  BY DEF TypeOK
<1>b. Answers = {"fresh", "replay", "polled", "timed_out", "conflict", "raised"}
  BY DEF Answers
<1>1. CASE UNCHANGED vars
  BY <1>1 DEF vars, TypeOK, ReadsPast, HoldsLease, OwnsRow, RowTellsTruth, Returned,
              ReplayTellsTruth, Matches
<1>2. CASE Cleanup
  <2>1. TypeOK'
    BY <1>2, IdempotencyAssumption DEF Cleanup, TypeOK, NoRow, Prints
  <2>2. HoldsLease'
    BY <1>2 DEF Cleanup, HoldsLease, OwnsRow
  <2> QED BY <1>2, <2>1, <2>2 DEF Cleanup, NoRow, ReadsPast, RowTellsTruth, Returned,
                                  ReplayTellsTruth, Matches
<1>3. CASE Tick
  <2>1. TypeOK' /\ ReadsPast' /\ HoldsLease'
    BY <1>3, <1>a, IdempotencyAssumption
       DEF Tick, TypeOK, CallRecord, ReadsPast, HoldsLease, OwnsRow
  <2> QED BY <1>3, <2>1 DEF Tick, RowTellsTruth, Returned, ReplayTellsTruth, Matches
<1>4. ASSUME NEW c \in Calls, Begin(c) PROVE LeaseInv'
  <2>1. PICK p \in Prints :
          call' = [call EXCEPT ![c].pc = "claim", ![c].print = p, ![c].now = clock]
    BY <1>4 DEF Begin
  <2> DEFINE r == [call[c] EXCEPT !.pc = "claim", !.print = p, !.now = clock]
  <2>2. r \in CallRecord /\ call' = [call EXCEPT ![c] = r]
    <3>1. call[c] \in CallRecord /\ clock \in 0..MaxTime
      BY <1>a DEF TypeOK
    <3>2. r \in CallRecord
      BY <3>1 DEF CallRecord
    <3>3. call' = [call EXCEPT ![c] = r]
      BY <2>1
    <3> QED BY <3>2, <3>3
  <2>3. /\ call' \in [Calls -> CallRecord]
        /\ call'[c].pc = "claim" /\ call'[c].now = clock /\ call'[c].answer = call[c].answer
        /\ \A d \in Calls \ {c} : call'[d] = call[d]
    BY <1>a, <2>2 DEF TypeOK, CallRecord
  <2>4. c \notin saved /\ call[c].answer = "none" /\ (row.status # "absent" => row.token # c)
    BY <1>4 DEF Begin, Returned, RowTellsTruth
  <2>5. TypeOK' /\ ReadsPast' /\ HoldsLease'
    BY <1>4, <2>3, IdempotencyAssumption DEF Begin, TypeOK, ReadsPast, HoldsLease, OwnsRow
  <2>6. RowTellsTruth' /\ Returned'
    BY <1>4, <2>3, <2>4 DEF Begin, RowTellsTruth, Returned, TypeOK
  <2>7. ReplayTellsTruth'
    BY <1>4, <2>3, <2>4 DEF Begin, ReplayTellsTruth, Matches, TypeOK
  <2> QED BY <2>5, <2>6, <2>7
<1>5. ASSUME NEW c \in Calls, ClaimTaken(c) PROVE LeaseInv'
  <2>1. CASE PayloadMismatch(c) /\ Return(c, "conflict", NoCall)
    BY <1>5, <1>b, <2>1, ReturnInv DEF ClaimTaken
  <2>2. CASE ~PayloadMismatch(c) /\ row.status = "completed" /\ Return(c, "replay", row.token)
    <3>1. row.token \in saved /\ row.token \in Calls /\ Matches(c, row.token)
      BY <2>2 DEF RowTellsTruth, Matches, PayloadMismatch
    <3> QED BY <1>5, <1>b, <2>2, <3>1, ReturnInv DEF ClaimTaken
  <2>3. CASE row.status = "in_flight" /\ Goto(c, "poll")
    <3>1. /\ call' \in [Calls -> CallRecord]
          /\ call'[c] = [call[c] EXCEPT !.pc = "poll"]
          /\ \A d \in Calls \ {c} : call'[d] = call[d]
      BY <1>a, <2>3 DEF Goto, TypeOK, CallRecord
    <3>2. c \notin saved /\ call[c].answer = "none" /\ row.token # c
      BY <1>5, <2>3 DEF ClaimTaken, Returned, RowTellsTruth
    <3>3. TypeOK' /\ ReadsPast' /\ HoldsLease'
      BY <1>5, <1>a, <3>1 DEF ClaimTaken, TypeOK, CallRecord, ReadsPast, HoldsLease, OwnsRow
    <3>4. RowTellsTruth' /\ Returned' /\ ReplayTellsTruth'
      BY <1>5, <1>a, <3>1, <3>2
         DEF ClaimTaken, CallRecord, RowTellsTruth, Returned, ReplayTellsTruth, Matches, TypeOK
    <3> QED BY <3>3, <3>4
  <2> QED BY <1>5, <2>1, <2>2, <2>3 DEF ClaimTaken
<1>6. ASSUME NEW c \in Calls, ClaimFresh(c) PROVE LeaseInv'
  <2> DEFINE expires == call[c].now + Ttl
             r == [call[c] EXCEPT !.pc = "run", !.expires = expires]
  <2>1. expires \in 0..(MaxTime + Ttl)
    BY <1>a, IdempotencyAssumption DEF CallRecord
  <2>2. r \in CallRecord /\ call' = [call EXCEPT ![c] = r]
    BY <1>6, <1>a, <2>1 DEF ClaimFresh, CallRecord, TypeOK
  <2>3. /\ call' \in [Calls -> CallRecord]
        /\ call'[c] = r
        /\ \A d \in Calls \ {c} : call'[d] = call[d]
    BY <2>2 DEF TypeOK
  <2>4. row' = [status |-> "in_flight", token |-> c, expires |-> expires, print |-> call[c].print]
    BY <1>6 DEF ClaimFresh
  <2>5. r.pc = "run" /\ r.expires = expires /\ r.print = call[c].print /\ r.now = call[c].now
        /\ r.answer = call[c].answer
    BY <1>a DEF CallRecord
  <2>6. c \notin saved /\ call[c].answer = "none"
    BY <1>6 DEF ClaimFresh, Returned
  <2>7. TypeOK' /\ ReadsPast'
    BY <1>6, <1>a, <2>1, <2>3, <2>4, <2>5 DEF ClaimFresh, TypeOK, CallRecord, ReadsPast
  <2>8. HoldsLease'
    <3>1. ASSUME NEW d \in Calls \ {c}, call[d].pc = "run"
          PROVE  call[d].expires <= clock
      <4>1. row.expires <= call[c].now \/ row.status \notin {"completed", "in_flight"}
        BY <1>6, <1>a DEF ClaimFresh, TypeOK, CallRecord
      <4>2. CASE OwnsRow(d) /\ row.expires = call[d].expires
        BY <1>a, <4>1, <4>2 DEF OwnsRow, ReadsPast, TypeOK, CallRecord
      <4> QED BY <3>1, <4>2 DEF HoldsLease
    <3>2. OwnsRow(c)' /\ row'.expires = call'[c].expires
      BY <2>3, <2>4, <2>5 DEF OwnsRow
    <3> QED BY <1>6, <2>3, <3>1, <3>2 DEF ClaimFresh, HoldsLease
  <2>9. RowTellsTruth' /\ Returned' /\ ReplayTellsTruth'
    BY <1>6, <2>3, <2>4, <2>5, <2>6
       DEF ClaimFresh, RowTellsTruth, Returned, ReplayTellsTruth, Matches, TypeOK
  <2> QED BY <2>7, <2>8, <2>9
<1>7. ASSUME NEW c \in Calls, QueryFails(c) \/ Killed(c) PROVE LeaseInv'
  BY <1>7, <1>b, ReturnInv DEF QueryFails, Killed
<1>8. ASSUME NEW c \in Calls, Complete(c) PROVE LeaseInv'
  <2>1. CASE ~OwnsRow(c)
    BY <1>8, <1>b, <2>1, ReturnInv DEF Complete
  <2>2. CASE OwnsRow(c)
    <3>1. /\ call' \in [Calls -> CallRecord]
          /\ call'[c].pc = "done" /\ call'[c].print = call[c].print /\ call'[c].now = 0
          /\ call'[c].answer = "fresh"
          /\ \A d \in Calls \ {c} : call'[d] = call[d]
      BY <1>8, <1>b, ReturnMoves DEF Complete
    <3>2. /\ row' = [row EXCEPT !.status = "completed"]
          /\ saved' = saved \union {c} /\ clock' = clock /\ row.token = c
      BY <1>8, <2>2 DEF Complete, OwnsRow
    <3>3. TypeOK' /\ ReadsPast'
      BY <3>1, <3>2 DEF TypeOK, ReadsPast
    <3>4. HoldsLease'
      BY <2>2, <3>1, <3>2 DEF HoldsLease, OwnsRow
    <3>5. RowTellsTruth' /\ Returned'
      BY <2>2, <3>1, <3>2 DEF RowTellsTruth, Returned, TypeOK, OwnsRow
    <3>6. ReplayTellsTruth'
      BY <3>1, <3>2 DEF ReplayTellsTruth, Matches, Returned, TypeOK
    <3> QED BY <3>3, <3>4, <3>5, <3>6
  <2> QED BY <2>1, <2>2
<1>9. ASSUME NEW c \in Calls, MarkFailed(c) PROVE LeaseInv'
  <2>1. CASE ~OwnsRow(c)
    BY <1>9, <1>b, <2>1, ReturnInv DEF MarkFailed
  <2>2. CASE OwnsRow(c)
    <3>1. /\ call' \in [Calls -> CallRecord]
          /\ call'[c].pc = "done" /\ call'[c].print = call[c].print /\ call'[c].now = 0
          /\ call'[c].answer = "raised"
          /\ \A d \in Calls \ {c} : call'[d] = call[d]
      BY <1>9, <1>b, ReturnMoves DEF MarkFailed
    <3>2. /\ row' = [row EXCEPT !.status = "failed"]
          /\ saved' = saved /\ clock' = clock /\ row.token = c
      BY <1>9, <2>2 DEF MarkFailed, OwnsRow
    <3>3. TypeOK' /\ ReadsPast'
      BY <3>1, <3>2 DEF TypeOK, ReadsPast
    <3>4. HoldsLease'
      BY <2>2, <3>1, <3>2 DEF HoldsLease, OwnsRow
    <3>5. RowTellsTruth' /\ Returned'
      BY <2>2, <3>1, <3>2 DEF RowTellsTruth, Returned, TypeOK, OwnsRow
    <3>6. ReplayTellsTruth'
      BY <3>1, <3>2 DEF ReplayTellsTruth, Matches, Returned, TypeOK
    <3> QED BY <3>3, <3>4, <3>5, <3>6
  <2> QED BY <2>1, <2>2
<1>10. ASSUME NEW c \in Calls, PollCompleted(c) PROVE LeaseInv'
  <2>1. row.token \in saved /\ row.token \in Calls
    BY <1>10 DEF PollCompleted, RowTellsTruth
  <2> QED BY <1>10, <1>b, <2>1, ReturnInv DEF PollCompleted
<1>11. ASSUME NEW c \in Calls, LeaderFailed(c) PROVE LeaseInv'
  <2>1. CASE call[c].retries >= MaxRetries
    BY <1>11, <1>b, <2>1, ReturnInv DEF LeaderFailed
  <2>2. CASE ~(call[c].retries >= MaxRetries)
    <3> DEFINE r == [call[c] EXCEPT !.pc = "claim", !.now = clock, !.retries = @ + 1]
    <3>1. r \in CallRecord /\ call' = [call EXCEPT ![c] = r]
      BY <1>11, <1>a, <2>2, IdempotencyAssumption DEF LeaderFailed, CallRecord, TypeOK
    <3>2. r.pc = "claim" /\ r.now = clock /\ r.print = call[c].print /\ r.answer = call[c].answer
      BY <1>a DEF CallRecord
    <3>3. /\ call' \in [Calls -> CallRecord] /\ call'[c] = r
          /\ \A d \in Calls \ {c} : call'[d] = call[d]
      BY <3>1 DEF TypeOK
    <3>4. c \notin saved /\ call[c].answer = "none" /\ (row.status # "absent" => row.token # c)
      BY <1>11 DEF LeaderFailed, Returned, RowTellsTruth
    <3>5. UNCHANGED <<clock, row, saved>>
      BY <1>11 DEF LeaderFailed
    <3> HIDE DEF r
    <3>6. TypeOK' /\ ReadsPast' /\ HoldsLease'
      BY <3>2, <3>3, <3>5, IdempotencyAssumption
         DEF TypeOK, ReadsPast, HoldsLease, OwnsRow
    <3>7. RowTellsTruth' /\ Returned' /\ ReplayTellsTruth'
      BY <3>2, <3>3, <3>4, <3>5
         DEF RowTellsTruth, Returned, ReplayTellsTruth, Matches, TypeOK
    <3> QED BY <3>6, <3>7
  <2> QED BY <2>1, <2>2
<1>12. ASSUME NEW c \in Calls, PollTimeout(c) PROVE LeaseInv'
  BY <1>12, <1>b, ReturnInv DEF PollTimeout
<1> QED BY <1>1, <1>2, <1>3, <1>4, <1>5, <1>6, <1>7, <1>8, <1>9, <1>10, <1>11, <1>12
        DEF Next, CallStep

\* So it holds in every state.
LEMMA InvAlways == Spec => []LeaseInv
  BY InitInv, NextInv, PTL DEF Spec

-----------------------------------------------------------------------------
\* Every variable of the key table and of its callers keeps its type: in
\* particular, no call of run_idempotent retries more often than MaxRetries.
THEOREM TypeCorrect == Spec => []TypeOK
<1>1. LeaseInv => TypeOK
  BY DEF LeaseInv
<1> QED BY <1>1, InvAlways, PTL

\* A callback whose lease has not expired has the row, so that no two callbacks
\* that both still have their lease ever run at once.
THEOREM LeaseProtected == Spec => []LeaseProtects
<1>1. LeaseInv => LeaseProtects
  BY DEF LeaseInv, LeaseProtects, HoldsLease, TypeOK, CallRecord
<1> QED BY <1>1, InvAlways, PTL

\* A result served from the table is one that its holder committed under the
\* lease; one served by the claim is that of a request with the same payload.
THEOREM ReplaysTrue == Spec => []ReplayTellsTruth
<1>1. LeaseInv => ReplayTellsTruth
  BY DEF LeaseInv
<1> QED BY <1>1, InvAlways, PTL

-----------------------------------------------------------------------------
(* The table of keys implements KeyLease                                   *)

\* Who holds the valid lease and whether the result is out, as the mapping says.
holderBar    == IF Valid THEN row.token ELSE NoCall
publishedBar == Valid /\ row.status = "completed"

\* A step that leaves the row and the clock alone is no step of the lease.
LEMMA RowStutters ==
  ASSUME UNCHANGED <<clock, row>> PROVE UNCHANGED <<holderBar, publishedBar>>
  BY DEF holderBar, publishedBar, Valid

\* Every step of the table is a step of the lease or none.
LEMMA StepIsLeaseStep ==
  ASSUME LeaseInv, [Next]_vars
  PROVE  [Lease!Next]_<<holderBar, publishedBar>>
<1> USE DEF LeaseInv
<1>a. row.expires \in Nat /\ clock \in Nat /\ clock' \in Nat
  <2>1. TypeOK'
    BY NextInv
  <2> QED BY <2>1, IdempotencyAssumption DEF TypeOK
<1>b. ASSUME ~Valid' PROVE Lease!Lapse
  BY <1>b DEF Lease!Lapse, Valid
<1>1. CASE UNCHANGED vars
  BY <1>1, RowStutters DEF vars
<1>2. CASE Cleanup \/ Tick
  <2>1. CASE ~Valid'
    BY <1>b, <2>1 DEF Lease!Next
  <2>2. CASE Valid'
    <3>1. Tick
      BY <1>2, <2>2 DEF Cleanup, Valid, NoRow
    <3>2. Valid /\ row' = row
      BY <1>a, <2>2, <3>1 DEF Tick, Valid
    <3> QED BY <2>2, <3>2 DEF holderBar, publishedBar
  <2> QED BY <2>1, <2>2
<1>3. ASSUME NEW c \in Calls, ClaimFresh(c) PROVE [Lease!Next]_<<holderBar, publishedBar>>
  <2>1. ~Valid
    <3>1. call[c].now <= clock /\ call[c].now \in Nat
      BY IdempotencyAssumption DEF ReadsPast, TypeOK, CallRecord
    <3> QED BY <1>3, <1>a, <3>1 DEF ClaimFresh, Valid
  <2>2. row'.token = c /\ row'.status = "in_flight"
    BY <1>3 DEF ClaimFresh
  <2>3. CASE ~Valid'
    BY <1>b, <2>3 DEF Lease!Next
  <2>4. CASE Valid'
    <3>1. Lease!Acquire(c)
      BY <2>1, <2>2, <2>4 DEF Lease!Acquire
    <3> QED BY <3>1 DEF Lease!Next
  <2> QED BY <2>3, <2>4
<1>4. ASSUME NEW c \in Calls, Complete(c) PROVE [Lease!Next]_<<holderBar, publishedBar>>
  <2>1. CASE ~OwnsRow(c)
    BY <1>4, <2>1, RowStutters DEF Complete
  <2>2. CASE OwnsRow(c)
    <3>1. /\ row.status = "in_flight" /\ row'.status = "completed"
          /\ row'.token = row.token /\ row'.expires = row.expires /\ clock' = clock
          /\ row.token # NoCall
      BY <1>4, <2>2 DEF Complete, OwnsRow, TypeOK, Calls, NoCall
    <3>2. Valid' = Valid
      BY <3>1 DEF Valid
    <3>3. CASE ~Valid
      BY <3>2, <3>3 DEF holderBar, publishedBar
    <3>4. CASE Valid
      <4>1. Lease!Publish
        BY <3>1, <3>2, <3>4 DEF Lease!Publish
      <4> QED BY <4>1 DEF Lease!Next
    <3> QED BY <3>3, <3>4
  <2> QED BY <2>1, <2>2
<1>5. ASSUME NEW c \in Calls, MarkFailed(c) PROVE [Lease!Next]_<<holderBar, publishedBar>>
  <2>1. CASE ~OwnsRow(c)
    BY <1>5, <2>1, RowStutters DEF MarkFailed
  <2>2. CASE OwnsRow(c)
    <3>1. row'.status = "failed"
      BY <1>5, <2>2 DEF MarkFailed, TypeOK
    <3> QED BY <1>b, <3>1 DEF Lease!Next, Valid
  <2> QED BY <2>1, <2>2
<1>6. ASSUME NEW c \in Calls,
             \/ Begin(c) \/ ClaimTaken(c) \/ QueryFails(c) \/ Killed(c)
             \/ PollCompleted(c) \/ LeaderFailed(c) \/ PollTimeout(c)
      PROVE  [Lease!Next]_<<holderBar, publishedBar>>
  BY <1>6, RowStutters DEF Begin, ClaimTaken, QueryFails, Killed, PollCompleted,
                           LeaderFailed, PollTimeout
<1> QED BY <1>1, <1>2, <1>3, <1>4, <1>5, <1>6 DEF Next, CallStep

\* The key table implements KeyLease: at any time one valid lease, a result
\* published by its holder only, final until the lease lapses; whatever claims,
\* late completions, failures, clean-ups and the clock do.
THEOREM TableImplementsLease == Spec => LeaseSpec
<1>1. Init => Lease!Init
  BY DEF Init, Lease!Init, Valid, NoRow
<1>2. LeaseInv /\ [Next]_vars => [Lease!Next]_<<holderBar, publishedBar>>
  BY StepIsLeaseStep
<1> QED BY <1>1, <1>2, InvAlways, PTL DEF Spec, LeaseSpec, Lease!Spec, holderBar, publishedBar
=============================================================================
