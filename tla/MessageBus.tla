------------------------------ MODULE MessageBus ------------------------------
(***************************************************************************)
(* The in-memory message bus (communication/bus/memory.py): channels, one  *)
(* bounded queue for each channel and agent, receivers that wait for a     *)
(* message, for the end of their subscription or for the bus to stop, and  *)
(* restarts with receivers of the previous run still about.                *)
(*                                                                         *)
(* No operation awaits anything while it holds the bus lock, so that each  *)
(* of them is one step.  A receive() is several: it registers, the task it *)
(* starts takes a message off the queue, and some time later it wakes up.  *)
(*                                                                         *)
(* A queue that has been dropped stays in the model: receivers that        *)
(* registered with it still hold it.  The objects made for a key           *)
(* are told apart by how many times queues had been dropped before.        *)
(***************************************************************************)
EXTENDS Integers, Sequences, FiniteSets, SequencesExt

CONSTANTS
  Agents,
  Topics,       \* the configured channels
  Broadcasts,   \* BROADCAST channels, made by create_channel
  Pairs,        \* pairs of agents, each the name of its DIRECT channel
  QueueSize,    \* retention.max_subscriber_queue_size
  HistorySize,  \* retention.max_messages_per_channel
  Ceiling,      \* max_agent_connections, under hard_block
  MaxMessages,  \* bound
  MaxCalls,     \* bound: calls of receive()
  MaxDrops,     \* bound: times queues are dropped
  Environments  \* which hazards, channels and agents a behaviour may have

Hazards  == {"timeout", "cancelled", "unsubscribe", "restart"}
Channels == Topics \union Broadcasts \union Pairs
Keys     == Channels \X Agents
Calls    == 1..MaxCalls
Messages == 1..MaxMessages
Objects  == Keys \X (1..(MaxDrops + 1))

ASSUME BusAssumption ==
  /\ Pairs \subseteq SUBSET Agents /\ Keys # {}
  /\ Topics \intersect Broadcasts = {} /\ (Topics \union Broadcasts) \intersect Pairs = {}
  /\ {QueueSize, HistorySize} \subseteq Nat \ {0}
  /\ {Ceiling, MaxMessages, MaxCalls, MaxDrops} \subseteq Nat
  /\ Environments \subseteq [may : SUBSET Hazards, channels : SUBSET Channels,
                             agents : SUBSET Agents]

VARIABLES
  env,          \* what may happen in this behaviour
  running,      \* _running
  generation,   \* which Event object _shutdown_event is
  stopped,      \* the Event objects that are set
  subscribers,  \* _channels: the subscribers of each channel that exists
  known,        \* _known_agents
  history,      \* _history
  queue,        \* _queues: which object a key has; 0 without one
  content,      \* what is in each of the objects
  drops,        \* how many times queues have been dropped
  sent,         \* how many messages have been published
  delivered,    \* ghost: <<message, key>> reported as delivered
  since,        \* ghost: messages sent before a key's subscription began
  call          \* the calls of receive()

bus  == <<running, generation, stopped, subscribers, known, history, queue, content, drops>>
vars == <<env, bus, sent, delivered, since, call>>

Idle == [pc |-> "idle", key |-> CHOOSE k \in Keys : TRUE, queue |-> 0, event |-> 0,
         unsub |-> FALSE, got |-> 0]

CallRecord == [pc : {"idle", "waiting", "returned", "cancelled"}, key : Keys,
               queue : 0..(MaxDrops + 1), event : Nat, unsub : BOOLEAN, got : 0..MaxMessages]

\* Every variable has its type: queues and histories keep their bounds.
TypeOK ==
  /\ env \in Environments /\ running \in BOOLEAN
  /\ generation \in Nat /\ stopped \subseteq 0..generation
  /\ DOMAIN subscribers \subseteq Channels
  /\ \A ch \in DOMAIN subscribers : subscribers[ch] \subseteq Agents
  /\ known \subseteq Agents
  /\ DOMAIN history = DOMAIN subscribers
  /\ \A ch \in DOMAIN history : history[ch] \in Seq(Messages) /\ Len(history[ch]) <= HistorySize
  /\ queue \in [Keys -> 0..(MaxDrops + 1)] /\ drops \in 0..MaxDrops
  /\ DOMAIN content = Objects
  /\ \A q \in DOMAIN content : content[q] \in Seq(Messages) /\ Len(content[q]) <= QueueSize
  /\ sent \in 0..MaxMessages
  /\ delivered \subseteq Messages \X Keys
  /\ since \in [Keys -> 0..MaxMessages]
  /\ call \in [Calls -> CallRecord]

Init ==
  /\ env \in Environments
  /\ running = FALSE /\ generation = 0 /\ stopped = {}
  /\ subscribers = <<>> /\ known = {} /\ history = <<>>
  /\ queue = [k \in Keys |-> 0]
  /\ content = [q \in Objects |-> <<>>]
  /\ drops = 0 /\ sent = 0 /\ delivered = {}
  /\ since = [k \in Keys |-> 0]
  /\ call = [c \in Calls |-> Idle]

-----------------------------------------------------------------------------
(* start and stop                                                          *)

\* Mutant: the event is cleared for the new run.
Start_clears ==
  /\ ~running /\ drops < MaxDrops
  /\ running' = TRUE
  /\ generation' = generation
  /\ stopped' = stopped \ {generation}
  /\ subscribers' = [ch \in Topics |-> {}] /\ history' = [ch \in Topics |-> <<>>]
  /\ known' = {}
  /\ queue' = [k \in Keys |-> 0] /\ drops' = drops + 1
  /\ UNCHANGED <<env, content, sent, delivered, since, call>>

\* Everything is new, the shutdown event too; receivers of the previous run
\* keep the one they have.
Start ==
  /\ ~running /\ drops < MaxDrops
  /\ running' = TRUE
  /\ generation' = generation + 1
  /\ subscribers' = [ch \in Topics |-> {}] /\ history' = [ch \in Topics |-> <<>>]
  /\ known' = {}
  /\ queue' = [k \in Keys |-> 0] /\ drops' = drops + 1
  /\ UNCHANGED <<env, stopped, content, sent, delivered, since, call>>

Stop ==
  /\ "restart" \in env.may
  /\ running
  /\ running' = FALSE
  /\ stopped' = stopped \union {generation}
  /\ UNCHANGED <<env, generation, subscribers, known, history, queue, content, drops, sent,
                 delivered, since, call>>

-----------------------------------------------------------------------------
(* Channels and subscriptions                                              *)

Exists(ch) == ch \in DOMAIN subscribers

\* f with a value for one more argument.
With(f, x, v) == [y \in DOMAIN f \union {x} |-> IF y = x THEN v ELSE f[y]]

\* A channel without subscribers: the code would keep those the Channel names,
\* unchecked and without a queue, but nobody creates one with any.
CreateChannel(ch) ==
  /\ running /\ ~Exists(ch)
  /\ subscribers' = With(subscribers, ch, {}) /\ history' = With(history, ch, <<>>)
  /\ UNCHANGED <<env, running, generation, stopped, known, queue, content, drops, sent, delivered,
                 since, call>>

\* Mutant: every newcomer is held against the same count.
Admitted_static(agents) == agents \subseteq known \/ Cardinality(known) < Ceiling

\* _reject_new_agents_if_blocked: newcomers are counted one after another.
Admitted(agents) == agents \subseteq known \/ Cardinality(known \union agents) <= Ceiling

\* _ensure_queue for some of the keys, and the object one of them then has.
Object(k)        == IF queue[k] = 0 THEN drops + 1 ELSE queue[k]
EnsureQueues(ks) == queue' = [k \in Keys |-> IF k \in ks THEN Object(k) ELSE queue[k]]

Subscribe(ch, a) ==
  /\ running /\ Exists(ch) /\ Admitted({a})
  /\ known' = known \union {a}
  /\ IF a \in subscribers[ch]
     THEN UNCHANGED <<subscribers, queue, since>>
     ELSE /\ subscribers' = [subscribers EXCEPT ![ch] = @ \union {a}]
          /\ EnsureQueues({<<ch, a>>})
          /\ since' = [since EXCEPT ![<<ch, a>>] = sent]
  /\ UNCHANGED <<env, running, generation, stopped, history, content, drops, sent, delivered, call>>

\* Mutant: the queue is kept for the agent's return.
Unsubscribe_keeps(ch, a) ==
  /\ "unsubscribe" \in env.may
  /\ running /\ Exists(ch) /\ a \in subscribers[ch] /\ drops < MaxDrops
  /\ subscribers' = [subscribers EXCEPT ![ch] = @ \ {a}]
  /\ UNCHANGED queue /\ drops' = drops + 1
  /\ call' = [c \in Calls |-> IF call[c].pc = "waiting" /\ call[c].key = <<ch, a>>
                              THEN [call[c] EXCEPT !.unsub = TRUE] ELSE call[c]]
  /\ UNCHANGED <<env, running, generation, stopped, known, history, content, sent, delivered, since>>

\* The queue is dropped, and whoever waits at it is told so.
Unsubscribe(ch, a) ==
  /\ "unsubscribe" \in env.may
  /\ running /\ Exists(ch) /\ a \in subscribers[ch] /\ drops < MaxDrops
  /\ subscribers' = [subscribers EXCEPT ![ch] = @ \ {a}]
  /\ queue' = [queue EXCEPT ![<<ch, a>>] = 0] /\ drops' = drops + 1
  /\ call' = [c \in Calls |-> IF call[c].pc = "waiting" /\ call[c].key = <<ch, a>>
                              THEN [call[c] EXCEPT !.unsub = TRUE] ELSE call[c]]
  /\ UNCHANGED <<env, running, generation, stopped, known, history, content, sent, delivered, since>>

-----------------------------------------------------------------------------
(* Publishing                                                              *)

\* deque(maxlen = HistorySize).
Remember(past, m) == IF Len(past) < HistorySize THEN Append(past, m) ELSE Append(Tail(past), m)

Full(k) == Len(content[<<k, Object(k)>>]) >= QueueSize

\* _enqueue_or_drop for each of the keys: a full queue loses the newest.
Deliver(ks, m) ==
  /\ EnsureQueues(ks)
  /\ content' = [q \in DOMAIN content |->
                   IF q[1] \in ks /\ q[2] = Object(q[1]) /\ ~Full(q[1])
                   THEN Append(content[q], m) ELSE content[q]]
  /\ delivered' = delivered \union {<<m, k>> : k \in {l \in ks : ~Full(l)}}

\* publish(), and each message of a publish_batch().
Publish(ch) ==
  /\ running /\ Exists(ch) /\ sent < MaxMessages
  /\ sent' = sent + 1
  /\ history' = [history EXCEPT ![ch] = Remember(@, sent + 1)]
  /\ Deliver({ch} \X (IF ch \in Broadcasts THEN known ELSE subscribers[ch]), sent + 1)
  /\ UNCHANGED <<env, running, generation, stopped, subscribers, known, drops, since, call>>

\* send_direct(): the channel is made and both agents are subscribed, again if
\* one of them has left.
SendDirect(pair) ==
  /\ running /\ Admitted(pair) /\ sent < MaxMessages
  /\ LET members == IF Exists(pair) THEN subscribers[pair] ELSE {}
         past    == IF Exists(pair) THEN history[pair] ELSE <<>>
     IN  /\ subscribers' = With(subscribers, pair, members \union pair)
         /\ history' = With(history, pair, Remember(past, sent + 1))
         /\ since' = [k \in Keys |-> IF k[1] = pair /\ k[2] \in pair \ members THEN sent ELSE since[k]]
  /\ known' = known \union pair
  /\ sent' = sent + 1
  /\ Deliver({pair} \X pair, sent + 1)
  /\ UNCHANGED <<env, running, generation, stopped, drops, call>>

-----------------------------------------------------------------------------
(* Receiving                                                               *)

\* Under the lock: the queue, the waiter and the event of this run.
Receive(c, ch, a) ==
  /\ call[c].pc = "idle" /\ \A d \in Calls : d < c => call[d].pc # "idle"
  /\ running /\ Exists(ch) /\ (ch \in Broadcasts \/ a \in subscribers[ch])
  /\ EnsureQueues({<<ch, a>>})
  /\ call' = [call EXCEPT ![c] = [Idle EXCEPT !.pc = "waiting", !.key = <<ch, a>>,
                                              !.queue = Object(<<ch, a>>), !.event = generation]]
  /\ UNCHANGED <<env, running, generation, stopped, subscribers, known, history, content, drops,
                 sent, delivered, since>>

Held(c) == <<call[c].key, call[c].queue>>

\* The task that does queue.get().
Take(c) ==
  /\ call[c].pc = "waiting" /\ call[c].got = 0
  /\ content[Held(c)] # <<>>
  /\ call' = [call EXCEPT ![c].got = Head(content[Held(c)])]
  /\ content' = [content EXCEPT ![Held(c)] = Tail(@)]
  /\ UNCHANGED <<env, running, generation, stopped, subscribers, known, history, queue, drops, sent,
                 delivered, since>>

\* A reason to stop waiting that is not a message.
Released(c) == call[c].unsub \/ call[c].event \in stopped

\* Mutant: the end of the subscription or of the bus is looked at first.
Wake_hasty(c) ==
  /\ call[c].pc = "waiting"
  /\ call[c].got # 0 \/ Released(c) \/ "timeout" \in env.may
  /\ call' = [call EXCEPT ![c].pc = "returned", ![c].got = IF Released(c) THEN 0 ELSE @]
  /\ UNCHANGED <<env, bus, sent, delivered, since>>

\* Mutant: a message that came too late is put back.
Wake_requeues(c) ==
  /\ call[c].pc = "waiting"
  /\ call[c].got # 0 \/ Released(c) \/ "timeout" \in env.may
  /\ \/ /\ "timeout" \notin env.may
        /\ call' = [call EXCEPT ![c].pc = "returned"]
        /\ UNCHANGED content
     \/ /\ "timeout" \in env.may
        /\ call' = [call EXCEPT ![c].pc = "returned", ![c].got = 0]
        /\ content' = [content EXCEPT ![Held(c)] = IF call[c].got = 0 THEN @ ELSE Append(@, call[c].got)]
  /\ UNCHANGED <<env, running, generation, stopped, subscribers, known, history, queue, drops, sent,
                 delivered, since>>

\* The wait is over: a message that has been taken is returned, whatever else
\* has happened; otherwise the task is cancelled before it takes one.
Wake(c) ==
  /\ call[c].pc = "waiting"
  /\ call[c].got # 0 \/ Released(c) \/ "timeout" \in env.may
  /\ call' = [call EXCEPT ![c].pc = "returned"]
  /\ UNCHANGED <<env, bus, sent, delivered, since>>

\* The caller is cancelled in the wait; a message that has been taken goes with it.
Cancelled(c) ==
  /\ "cancelled" \in env.may
  /\ call[c].pc = "waiting"
  /\ call' = [call EXCEPT ![c].pc = "cancelled"]
  /\ UNCHANGED <<env, bus, sent, delivered, since>>

-----------------------------------------------------------------------------
Next ==
  \/ Start \/ Stop
  \/ \E ch \in env.channels \ Pairs : CreateChannel(ch)
  \/ \E ch \in env.channels : Publish(ch)
  \/ \E ch \in env.channels, a \in env.agents : Subscribe(ch, a) \/ Unsubscribe(ch, a)
  \/ \E pair \in env.channels \intersect Pairs : SendDirect(pair)
  \/ \E c \in Calls : \/ \E ch \in env.channels, a \in env.agents : Receive(c, ch, a)
                      \/ Take(c) \/ Wake(c) \/ Cancelled(c)

Spec == Init /\ [][Next]_vars

-----------------------------------------------------------------------------
(* Properties                                                              *)

\* Nobody is left waiting at a queue that publishers no longer reach: its
\* receivers hold an event that is set or have been told.
NoStrandedReceiver ==
  \A c \in Calls :
    (call[c].pc = "waiting" /\ (~running \/ queue[call[c].key] # call[c].queue)) => Released(c)

Places(m, k) == {q \in DOMAIN content : q[1] = k /\ m \in Range(content[q])}
Holders(m, k) == {c \in Calls : call[c].key = k /\ call[c].got = m}

\* What was reported as delivered is in one queue or with one receiver, and the
\* receiver hands it over, unless its caller is cancelled.
DeliveredOnce ==
  \A mk \in delivered : Cardinality(Places(mk[1], mk[2])) + Cardinality(Holders(mk[1], mk[2])) = 1

\* Messages leave a queue in the order in which they were published.
InOrder ==
  \A q \in DOMAIN content :
    /\ \A i, j \in 1..Len(content[q]) : i < j => content[q][i] < content[q][j]
    /\ \A c \in Calls : (call[c].pc # "idle" /\ Held(c) = q) =>
         \A i \in 1..Len(content[q]) : call[c].got < content[q][i]

\* A subscriber's queue holds nothing from before its subscription: neither of
\* an earlier one nor of an earlier run.
NothingStale ==
  \A ch \in (Topics \union Pairs) \intersect DOMAIN subscribers : \A a \in subscribers[ch] :
    LET k == <<ch, a>> IN queue[k] # 0 /\ \A m \in Range(content[<<k, queue[k]>>]) : m > since[k]

\* hard_block: no sequence of joins takes the bus past its ceiling.
CeilingHolds == Cardinality(known) <= Ceiling
=============================================================================
