------------------------------- MODULE KeyLease -------------------------------
(***************************************************************************)
(* What an idempotency key promises: at any time at most one lease on the  *)
(* key is valid; only its holder publishes a result; a published result    *)
(* stays what it is until the lease lapses, and only then is the key free  *)
(* for another holder.                                                     *)
(***************************************************************************)
CONSTANTS Holders, NoHolder

VARIABLES
  holder,     \* who holds the valid lease, or NoHolder
  published   \* whether the holder has published its result

Init == holder = NoHolder /\ published = FALSE

Acquire(h) ==
  /\ holder = NoHolder
  /\ holder' = h
  /\ published' = FALSE

Publish ==
  /\ holder # NoHolder /\ ~published
  /\ published' = TRUE
  /\ UNCHANGED holder

\* The lease expires, or its holder gives it back.
Lapse ==
  /\ holder' = NoHolder
  /\ published' = FALSE

Next == (\E h \in Holders : Acquire(h)) \/ Publish \/ Lapse

Spec == Init /\ [][Next]_<<holder, published>>
=============================================================================
