--------------------------- MODULE MCTaskDispatch ---------------------------
(***************************************************************************)
(* Instances of TaskDispatch for TLC: the environments a run goes through. *)
(***************************************************************************)
EXTENDS TaskDispatch

CONSTANTS w1, w2

\* Failing calls alone; publishes that fail or land unseen; answers that come
\* too late and requests that are refused; workers that die; deadlines and a
\* backend that do.
Environments ==
  {{"backend_error", "dedup_error"}, {"publish_lost", "publish_timeout"},
   {"http_timeout", "http_4xx", "engine_error"}, {"crash"}, {"ack_lapse"}, {"backend_crash"}}

\* blocked stands for every park, cancelled for every end.
PeopleDecide == {"assigned", "blocked", "cancelled"}

=============================================================================
