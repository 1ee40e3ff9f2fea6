----------------------------- MODULE MCMessageBus -----------------------------
(* The message bus for TLC: the kinds of channel one by one, with a few of *)
(* the hazards each; and three agents, of whom two fit, on two channels.   *)
EXTENDS MessageBus

CONSTANTS a1, a2, a3, news, all

Pair    == {a1, a2}
OnePair == {Pair}

Env(may, channels, agents) == [may |-> may, channels |-> channels, agents |-> agents]

All == {Env({"unsubscribe", "timeout"}, {news}, {a1}),
        Env({"unsubscribe", "restart"}, {news}, {a1}),
        Env({"restart", "cancelled"}, {news}, {a1}),
        Env({"unsubscribe", "restart"}, {all}, {a1}),
        Env({"unsubscribe", "timeout"}, {Pair}, {a1}),
        Env({}, {news, Pair}, {a1, a2, a3})}
=============================================================================
