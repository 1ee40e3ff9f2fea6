----------------------------- MODULE MCPushQueue -----------------------------
(* The push queue for TLC.                                                 *)
EXTENDS PushQueue

Mild == {"git_error", "caller_cancelled"}
Environments == {Mild, Mild \union {"restart_in_drain"}, Mild \union {"critical"},
                 {"drain_timeout", "stop_cancelled"}}
=============================================================================
