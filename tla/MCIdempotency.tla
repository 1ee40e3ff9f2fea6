---------------------------- MODULE MCIdempotency ----------------------------
(* run_idempotent for TLC: all values are given in the configuration.      *)
EXTENDS Idempotency
=============================================================================
