--------------------------- MODULE MessageBusProofs ---------------------------
(***************************************************************************)
(* Proofs about MessageBus for any agents, channels, queue sizes and       *)
(* numbers of messages, receivers and restarts.                            *)
(***************************************************************************)
EXTENDS MessageBus, FiniteSetTheorems, TLAPS

\* The constants are numbers, and what may happen names channels and agents that
\* there are.
LEMMA Constants ==
  /\ QueueSize \in Nat \ {0} /\ HistorySize \in Nat \ {0}
  /\ Ceiling \in Nat /\ MaxMessages \in Nat /\ MaxCalls \in Nat /\ MaxDrops \in Nat
  /\ \A e \in Environments : e.channels \subseteq Channels /\ e.agents \subseteq Agents
  /\ \A pair \in Pairs : pair \subseteq Agents /\ pair \in Channels
  BY BusAssumption DEF Channels

\* A key of a call that has not begun is some key.
LEMMA IdleRecord == Idle \in CallRecord
<1>1. (CHOOSE k \in Keys : TRUE) \in Keys
  BY BusAssumption
<1> QED BY <1>1, Constants DEF Idle, CallRecord

\* A call that has registered has a queue.
HasQueue == \A c \in Calls : call[c].pc # "idle" => call[c].queue # 0

\* The queue that a call that has registered holds is one of the objects.
LEMMA HeldType ==
  ASSUME TypeOK, HasQueue, NEW c \in Calls, call[c].pc # "idle"
  PROVE  Held(c) \in Objects
<1>1. call[c].key \in Keys /\ call[c].queue \in 0..(MaxDrops + 1)
  BY DEF TypeOK, CallRecord
<1>2. call[c].queue \in 1..(MaxDrops + 1)
  BY <1>1, Constants DEF HasQueue
<1> QED BY <1>1, <1>2 DEF Held, Objects

\* An empty queue or history is a sequence of messages.
LEMMA EmptySequence ==
  ASSUME NEW e, e = <<>> PROVE e \in Seq(Messages) /\ Len(e) = 0
  OBVIOUS

\* A step in which the object of a key is made leaves the objects in their range.
LEMMA EnsuredType ==
  ASSUME TypeOK, NEW ks, EnsureQueues(ks)
  PROVE  /\ queue' \in [Keys -> 0..(MaxDrops + 1)]
         /\ \A k \in Keys : Object(k) \in 1..(MaxDrops + 1)
  BY Constants DEF EnsureQueues, Object, TypeOK

\* The history keeps its bound: the deque forgets its oldest message.
LEMMA RememberType ==
  ASSUME NEW past \in Seq(Messages), Len(past) <= HistorySize, NEW m \in Messages
  PROVE  Remember(past, m) \in Seq(Messages) /\ Len(Remember(past, m)) <= HistorySize
  BY Constants DEF Remember

\* Queues keep their bound: a message for a full one is dropped.
LEMMA DeliverType ==
  ASSUME TypeOK, NEW ks \in SUBSET Keys, NEW m \in Messages, Deliver(ks, m)
  PROVE  /\ DOMAIN content' = Objects
         /\ \A q \in Objects : content'[q] \in Seq(Messages) /\ Len(content'[q]) <= QueueSize
         /\ delivered' \subseteq Messages \X Keys
<1>1. DOMAIN content' = Objects
  BY DEF Deliver, TypeOK
<1>2. ASSUME NEW q \in Objects
      PROVE  content'[q] \in Seq(Messages) /\ Len(content'[q]) <= QueueSize
  <2>1. content[q] \in Seq(Messages) /\ Len(content[q]) <= QueueSize
    BY DEF TypeOK
  <2>2. CASE q[1] \in ks /\ q[2] = Object(q[1]) /\ ~Full(q[1])
    <3>1. q = <<q[1], Object(q[1])>>
      BY <2>2 DEF Objects
    <3>2. Len(content[q]) < QueueSize
      BY <2>1, <2>2, <3>1, Constants DEF Full
    <3>3. content'[q] = Append(content[q], m)
      BY <2>2 DEF Deliver, TypeOK
    <3> QED BY <2>1, <3>2, <3>3, Constants
  <2>3. CASE ~(q[1] \in ks /\ q[2] = Object(q[1]) /\ ~Full(q[1]))
    <3>1. content'[q] = content[q]
      BY <2>3 DEF Deliver, TypeOK
    <3> QED BY <2>1, <3>1
  <2> QED BY <2>2, <2>3
<1>3. delivered' \subseteq Messages \X Keys
  BY DEF Deliver, TypeOK
<1> QED BY <1>1, <1>2, <1>3

-----------------------------------------------------------------------------
\* Nothing has been started, subscribed or published yet.
LEMMA InitType == Init => TypeOK /\ HasQueue
<1> SUFFICES ASSUME Init PROVE TypeOK /\ HasQueue
  OBVIOUS
<1>1. subscribers = <<>> /\ history = <<>>
  BY DEF Init
<1>2. call \in [Calls -> CallRecord]
  BY IdleRecord DEF Init
<1>3. DOMAIN content = Objects /\ \A q \in Objects : content[q] = <<>>
  BY DEF Init
<1>5. \A q \in DOMAIN content : content[q] \in Seq(Messages) /\ Len(content[q]) <= QueueSize
  BY <1>3, EmptySequence, Constants
<1>6. /\ DOMAIN subscribers = {} /\ DOMAIN history = {} /\ DOMAIN content = Objects
      /\ queue \in [Keys -> 0..(MaxDrops + 1)] /\ since \in [Keys -> 0..MaxMessages]
  BY <1>1, <1>3, Constants DEF Init
<1>7. /\ generation \in Nat /\ stopped \subseteq 0..generation /\ known \subseteq Agents
      /\ drops \in 0..MaxDrops /\ sent \in 0..MaxMessages /\ delivered \subseteq Messages \X Keys
      /\ env \in Environments /\ running \in BOOLEAN
  <2>1. generation = 0 /\ stopped = {} /\ known = {} /\ drops = 0 /\ sent = 0 /\ delivered = {}
    BY DEF Init
  <2>2. env \in Environments /\ running \in BOOLEAN
    BY DEF Init
  <2>3. generation \in Nat /\ drops \in 0..MaxDrops /\ sent \in 0..MaxMessages
    BY <2>1, Constants
  <2> QED BY <2>1, <2>2, <2>3
<1>8. TypeOK
  BY <1>2, <1>5, <1>6, <1>7 DEF TypeOK
<1>9. HasQueue
  BY DEF Init, HasQueue, Idle
<1> QED BY <1>8, <1>9

\* No step breaks the types.
LEMMA NextType == TypeOK /\ HasQueue /\ [Next]_vars => TypeOK'
<1> SUFFICES ASSUME TypeOK, HasQueue, [Next]_vars PROVE TypeOK'
  OBVIOUS
<1> USE Constants
<1>a. ASSUME NEW c \in Calls PROVE call[c] \in CallRecord
  BY DEF TypeOK
<1>b. env.channels \subseteq Channels /\ env.agents \subseteq Agents
  BY DEF TypeOK
<1>1. CASE UNCHANGED vars
  BY <1>1 DEF vars, bus, TypeOK
<1>2. CASE Start
  <2>1. /\ DOMAIN subscribers' = Topics /\ DOMAIN history' = Topics
        /\ \A ch \in Topics : subscribers'[ch] = {} /\ history'[ch] = <<>>
    BY <1>2 DEF Start
  <2>2. Topics \subseteq Channels
    BY DEF Channels
  <2>3. generation' \in Nat /\ stopped' \subseteq 0..generation' /\ queue' \in [Keys -> 0..(MaxDrops + 1)]
    BY <1>2 DEF Start, TypeOK
  <2> QED BY <1>2, <2>1, <2>2, <2>3 DEF Start, TypeOK
<1>3. CASE Stop
  <2>1. generation \in 0..generation
    BY DEF TypeOK
  <2>2. stopped' \subseteq 0..generation' /\ generation' \in Nat
    BY <1>3, <2>1 DEF Stop, TypeOK
  <2> QED BY <1>3, <2>2 DEF Stop, TypeOK
<1>4. ASSUME NEW ch \in Channels, CreateChannel(ch) PROVE TypeOK'
  <2>1. /\ DOMAIN subscribers' = DOMAIN subscribers \union {ch} /\ DOMAIN history' = DOMAIN subscribers'
        /\ \A x \in DOMAIN subscribers' :
             /\ subscribers'[x] = IF x = ch THEN {} ELSE subscribers[x]
             /\ history'[x] = IF x = ch THEN <<>> ELSE history[x]
    BY <1>4 DEF CreateChannel, With, TypeOK
  <2>2. DOMAIN subscribers' \subseteq Channels /\ \A x \in DOMAIN subscribers' : subscribers'[x] \subseteq Agents
    BY <2>1 DEF TypeOK
  <2>4. ASSUME NEW x \in DOMAIN history'
        PROVE  history'[x] \in Seq(Messages) /\ Len(history'[x]) <= HistorySize
    <3>1. CASE x = ch
      <4>1. history'[x] = <<>>
        BY <2>1, <3>1
      <4> QED BY <4>1, EmptySequence
    <3>2. CASE x # ch
      BY <2>1, <3>2 DEF TypeOK
    <3> QED BY <3>1, <3>2
  <2> QED BY <1>4, <2>1, <2>2, <2>4 DEF CreateChannel, TypeOK
<1>5. ASSUME NEW ch \in Channels, NEW a \in Agents, Subscribe(ch, a) PROVE TypeOK'
  <2>1. queue' \in [Keys -> 0..(MaxDrops + 1)]
    BY <1>5, EnsuredType DEF Subscribe, TypeOK
  <2>2. /\ DOMAIN subscribers' = DOMAIN subscribers
        /\ \A x \in DOMAIN subscribers' : subscribers'[x] \subseteq Agents
    <3>1. subscribers' = subscribers \/ subscribers' = [subscribers EXCEPT ![ch] = @ \union {a}]
      BY <1>5 DEF Subscribe
    <3>2. CASE subscribers' = [subscribers EXCEPT ![ch] = @ \union {a}]
      BY <3>2 DEF TypeOK
    <3> QED BY <3>1, <3>2 DEF TypeOK
  <2>3. since' \in [Keys -> 0..MaxMessages]
    BY <1>5 DEF Subscribe, TypeOK
  <2> QED BY <1>5, <2>1, <2>2, <2>3 DEF Subscribe, TypeOK
<1>6. ASSUME NEW ch \in Channels, NEW a \in Agents, Unsubscribe(ch, a) PROVE TypeOK'
  <2>1. call' \in [Calls -> CallRecord]
    <3>1. ASSUME NEW d \in Calls PROVE [call[d] EXCEPT !.unsub = TRUE] \in CallRecord
      BY <1>a DEF CallRecord
    <3> QED BY <1>6, <1>a, <3>1 DEF Unsubscribe
  <2>2. /\ DOMAIN subscribers' = DOMAIN subscribers
        /\ \A x \in DOMAIN subscribers' : subscribers'[x] \subseteq Agents
    BY <1>6 DEF Unsubscribe, TypeOK
  <2>3. queue' \in [Keys -> 0..(MaxDrops + 1)]
    <3>1. queue' = [queue EXCEPT ![<<ch, a>>] = 0] /\ queue \in [Keys -> 0..(MaxDrops + 1)]
      BY <1>6 DEF Unsubscribe, TypeOK
    <3>2. 0 \in 0..(MaxDrops + 1)
      OBVIOUS
    <3> QED BY <3>1, <3>2
  <2>4. drops' \in 0..MaxDrops
    BY <1>6 DEF Unsubscribe, TypeOK
  <2> QED BY <1>6, <2>1, <2>2, <2>3, <2>4 DEF Unsubscribe, TypeOK
<1>7. ASSUME NEW ch \in Channels, Publish(ch) PROVE TypeOK'
  <2>1. sent + 1 \in Messages
    BY <1>7 DEF Publish, TypeOK, Messages
  <2>2. PICK ks \in SUBSET Keys : Deliver(ks, sent + 1)
    BY <1>7 DEF Publish, Keys, TypeOK, Exists
  <2>3. queue' \in [Keys -> 0..(MaxDrops + 1)]
    BY <2>2, EnsuredType DEF Deliver
  <2>4. \A x \in DOMAIN history' : history'[x] \in Seq(Messages) /\ Len(history'[x]) <= HistorySize
    BY <1>7, <2>1, RememberType DEF Publish, TypeOK, Exists
  <2>5. DOMAIN history' = DOMAIN subscribers
    BY <1>7 DEF Publish, TypeOK
  <2>6. sent' \in 0..MaxMessages
    BY <1>7, <2>1 DEF Publish, Messages
  <2> QED BY <1>7, <2>1, <2>2, <2>3, <2>4, <2>5, <2>6, DeliverType DEF Publish, TypeOK
<1>8. ASSUME NEW pair \in Pairs, SendDirect(pair) PROVE TypeOK'
  <2>1. sent + 1 \in Messages /\ sent' \in 0..MaxMessages
    BY <1>8 DEF SendDirect, TypeOK, Messages
  <2>2. {pair} \X pair \in SUBSET Keys /\ Deliver({pair} \X pair, sent + 1)
    BY <1>8 DEF SendDirect, Keys
  <2>3. queue' \in [Keys -> 0..(MaxDrops + 1)]
    BY <2>2, EnsuredType DEF Deliver
  <2> DEFINE members == IF Exists(pair) THEN subscribers[pair] ELSE {}
             past    == IF Exists(pair) THEN history[pair] ELSE <<>>
  <2>4. /\ DOMAIN subscribers' = DOMAIN subscribers \union {pair}
        /\ DOMAIN history' = DOMAIN subscribers \union {pair}
        /\ \A x \in DOMAIN subscribers' :
             /\ subscribers'[x] = IF x = pair THEN members \union pair ELSE subscribers[x]
             /\ history'[x] = IF x = pair THEN Remember(past, sent + 1) ELSE history[x]
    BY <1>8 DEF SendDirect, With, TypeOK
  <2>5. past \in Seq(Messages) /\ Len(past) <= HistorySize /\ members \subseteq Agents
    BY DEF TypeOK, Exists
  <2>6. Remember(past, sent + 1) \in Seq(Messages) /\ Len(Remember(past, sent + 1)) <= HistorySize
    BY <2>1, <2>5, RememberType
  <2> HIDE DEF members, past
  <2>7. DOMAIN subscribers' \subseteq Channels /\ \A x \in DOMAIN subscribers' : subscribers'[x] \subseteq Agents
    BY <2>4, <2>5 DEF TypeOK
  <2>8. \A x \in DOMAIN history' : history'[x] \in Seq(Messages) /\ Len(history'[x]) <= HistorySize
    BY <2>4, <2>6 DEF TypeOK
  <2>9. since' \in [Keys -> 0..MaxMessages] /\ known' \subseteq Agents
    BY <1>8, <2>1 DEF SendDirect, TypeOK
  <2>10. /\ DOMAIN content' = Objects
         /\ \A q \in Objects : content'[q] \in Seq(Messages) /\ Len(content'[q]) <= QueueSize
         /\ delivered' \subseteq Messages \X Keys
    BY <2>1, <2>2, DeliverType
  <2> QED BY <1>8, <2>1, <2>3, <2>4, <2>7, <2>8, <2>9, <2>10 DEF SendDirect, TypeOK
<1>9. ASSUME NEW c \in Calls, NEW ch \in Channels, NEW a \in Agents, Receive(c, ch, a) PROVE TypeOK'
  <2>1. queue' \in [Keys -> 0..(MaxDrops + 1)] /\ Object(<<ch, a>>) \in 1..(MaxDrops + 1)
    BY <1>9, EnsuredType DEF Receive, Keys
  <2> DEFINE r == [Idle EXCEPT !.pc = "waiting", !.key = <<ch, a>>, !.queue = Object(<<ch, a>>),
                               !.event = generation]
  <2>2. r \in CallRecord
    <3>1. <<ch, a>> \in Keys /\ generation \in Nat
      BY DEF Keys, TypeOK
    <3>2. Object(<<ch, a>>) \in 0..(MaxDrops + 1)
      BY <2>1
    <3> QED BY <3>1, <3>2, IdleRecord DEF CallRecord
  <2>3. call' = [call EXCEPT ![c] = r]
    BY <1>9 DEF Receive
  <2> HIDE DEF r
  <2>4. call' \in [Calls -> CallRecord]
    BY <2>2, <2>3 DEF TypeOK
  <2> QED BY <1>9, <2>1, <2>4 DEF Receive, TypeOK
<1>10. ASSUME NEW c \in Calls, Take(c) PROVE TypeOK'
  <2>0. Held(c) \in Objects
    BY <1>10, HeldType DEF Take
  <2>1. content[Held(c)] \in Seq(Messages) /\ content[Held(c)] # <<>>
    BY <1>10, <2>0 DEF Take, TypeOK
  <2>2. Head(content[Held(c)]) \in Messages /\ Tail(content[Held(c)]) \in Seq(Messages)
        /\ Len(Tail(content[Held(c)])) <= Len(content[Held(c)])
    BY <2>1
  <2> DEFINE r == [call[c] EXCEPT !.got = Head(content[Held(c)])]
  <2>3. r \in CallRecord /\ call' = [call EXCEPT ![c] = r]
    <3>1. Head(content[Held(c)]) \in 0..MaxMessages
      BY <2>2 DEF Messages
    <3>2. r \in CallRecord
      BY <1>a, <3>1 DEF CallRecord
    <3> QED BY <1>10, <3>2 DEF Take
  <2>4. DOMAIN content' = Objects
        /\ \A q \in Objects : content'[q] \in Seq(Messages) /\ Len(content'[q]) <= QueueSize
    BY <1>10, <2>0, <2>1, <2>2 DEF Take, TypeOK
  <2> QED BY <1>10, <2>3, <2>4 DEF Take, TypeOK
<1>11. ASSUME NEW c \in Calls, Wake(c) \/ Cancelled(c) PROVE TypeOK'
  <2>1. PICK p \in {"returned", "cancelled"} : call' = [call EXCEPT ![c] = [call[c] EXCEPT !.pc = p]]
    BY <1>11 DEF Wake, Cancelled
  <2>2. [call[c] EXCEPT !.pc = p] \in CallRecord
    BY <1>a DEF CallRecord
  <2>3. call' \in [Calls -> CallRecord]
    BY <2>1, <2>2 DEF TypeOK
  <2> QED BY <1>11, <2>3 DEF Wake, Cancelled, bus, TypeOK
<1> QED BY <1>1, <1>2, <1>3, <1>4, <1>5, <1>6, <1>7, <1>8, <1>9, <1>10, <1>11, <1>b DEF Next


-----------------------------------------------------------------------------
(* Receivers                                                               *)

\* A receiver that waits has a reason to stop waiting, or holds the queue that
\* publishers use and the event that the next stop() will set.
Waits ==
  \A c \in Calls : call[c].pc = "waiting" =>
    \/ Released(c)
    \/ /\ running /\ call[c].event = generation
       /\ queue[call[c].key] = call[c].queue

\* _ensure_queue leaves a queue alone that is there, and makes those asked for.
LEMMA Ensured ==
  ASSUME TypeOK, NEW ks, EnsureQueues(ks)
  PROVE  /\ \A k \in Keys : queue[k] # 0 => queue'[k] = queue[k]
         /\ \A k \in Keys : k \in ks => queue'[k] = Object(k) /\ Object(k) # 0
         /\ \A k \in Keys : k \notin ks => queue'[k] = queue[k]
  BY Constants DEF EnsureQueues, Object, TypeOK

\* Steps that neither move the receivers nor take away what they wait for.
LEMMA WaitQuiet ==
  ASSUME TypeOK, TypeOK', HasQueue, Waits,
         \A c \in Calls : /\ call'[c].pc = "waiting" => call[c].pc = "waiting"
                          /\ call'[c].pc # "idle" => call[c].pc # "idle"
                          /\ call'[c].key = call[c].key /\ call'[c].queue = call[c].queue
                          /\ call'[c].event = call[c].event /\ call'[c].unsub = call[c].unsub,
         UNCHANGED <<running, generation, stopped>>,
         \A k \in Keys : queue[k] # 0 => queue'[k] = queue[k]
  PROVE  HasQueue' /\ Waits'
<1>1. HasQueue'
  BY DEF HasQueue
<1>2. ASSUME NEW c \in Calls, call'[c].pc = "waiting"
      PROVE  \/ Released(c)'
             \/ /\ running' /\ call'[c].event = generation'
                /\ queue'[call'[c].key] = call'[c].queue
  <2>1. call[c].key \in Keys /\ call[c].queue # 0 /\ call[c].pc = "waiting"
    BY <1>2 DEF TypeOK, CallRecord, HasQueue
  <2> QED BY <2>1 DEF Waits, Released
<1> QED BY <1>1, <1>2 DEF Waits

\* No step leaves a receiver behind.
LEMMA NextWaits ==
  TypeOK /\ TypeOK' /\ HasQueue /\ Waits /\ [Next]_vars => HasQueue' /\ Waits'
<1> SUFFICES ASSUME TypeOK, TypeOK', HasQueue, Waits, [Next]_vars PROVE HasQueue' /\ Waits'
  OBVIOUS
<1>a. ASSUME NEW c \in Calls PROVE call[c] \in CallRecord /\ call'[c] \in CallRecord
  BY DEF TypeOK
<1>b. env.channels \subseteq Channels /\ env.agents \subseteq Agents
  BY Constants DEF TypeOK
<1>1. CASE UNCHANGED vars
  BY <1>1, WaitQuiet DEF vars, bus
<1>2. CASE Start
  <2>1. HasQueue'
    BY <1>2 DEF Start, HasQueue
  <2>2. Waits'
    BY <1>2 DEF Start, Waits, Released
  <2> QED BY <2>1, <2>2
<1>3. CASE Stop
  <2>1. HasQueue'
    BY <1>3 DEF Stop, HasQueue
  <2>2. Waits'
    BY <1>3 DEF Stop, Waits, Released
  <2> QED BY <2>1, <2>2
<1>4. ASSUME NEW ch \in Channels, CreateChannel(ch) PROVE HasQueue' /\ Waits'
  BY <1>4, WaitQuiet DEF CreateChannel
<1>5. ASSUME NEW ch \in Channels, NEW a \in Agents, Subscribe(ch, a) PROVE HasQueue' /\ Waits'
  <2>1. \A k \in Keys : queue[k] # 0 => queue'[k] = queue[k]
    BY <1>5, Ensured DEF Subscribe
  <2> QED BY <1>5, <2>1, WaitQuiet DEF Subscribe
<1>6. ASSUME NEW ch \in Channels, NEW a \in Agents, Unsubscribe(ch, a) PROVE HasQueue' /\ Waits'
  <2>1. ASSUME NEW c \in Calls
        PROVE  /\ call'[c].pc = call[c].pc /\ call'[c].key = call[c].key
               /\ call'[c].queue = call[c].queue /\ call'[c].event = call[c].event
               /\ call[c].unsub => call'[c].unsub
               /\ call[c].pc = "waiting" /\ call[c].key = <<ch, a>> => call'[c].unsub
    BY <1>6, <1>a DEF Unsubscribe, CallRecord
  <2>2. HasQueue'
    BY <2>1 DEF HasQueue
  <2>3. \A k \in Keys : k # <<ch, a>> => queue'[k] = queue[k]
    BY <1>6 DEF Unsubscribe, TypeOK
  <2>4. UNCHANGED <<running, generation, stopped>>
    BY <1>6 DEF Unsubscribe
  <2>5. \A c \in Calls : call[c].key \in Keys
    BY <1>a DEF CallRecord
  <2>6. Waits'
    BY <2>1, <2>3, <2>4, <2>5 DEF Waits, Released
  <2> QED BY <2>2, <2>6
<1>7. ASSUME NEW ch \in Channels, Publish(ch) PROVE HasQueue' /\ Waits'
  <2>1. \A k \in Keys : queue[k] # 0 => queue'[k] = queue[k]
    BY <1>7, Ensured DEF Publish, Deliver
  <2> QED BY <1>7, <2>1, WaitQuiet DEF Publish
<1>8. ASSUME NEW pair \in Pairs, SendDirect(pair) PROVE HasQueue' /\ Waits'
  <2>1. \A k \in Keys : queue[k] # 0 => queue'[k] = queue[k]
    BY <1>8, Ensured DEF SendDirect, Deliver
  <2> QED BY <1>8, <2>1, WaitQuiet DEF SendDirect
<1>9. ASSUME NEW c \in Calls, NEW ch \in Channels, NEW a \in Agents, Receive(c, ch, a)
      PROVE  HasQueue' /\ Waits'
  <2> DEFINE k == <<ch, a>>
  <2>1. /\ call'[c].pc = "waiting" /\ call'[c].key = k /\ call'[c].queue = Object(k)
        /\ call'[c].event = generation /\ call'[c].unsub = FALSE
        /\ \A d \in Calls \ {c} : call'[d] = call[d]
    BY <1>9 DEF Receive, TypeOK, Idle
  <2>2. k \in Keys
    BY DEF Keys
  <2>3. queue'[k] = Object(k) /\ Object(k) # 0 /\ \A l \in Keys : queue[l] # 0 => queue'[l] = queue[l]
    BY <1>9, <2>2, Ensured DEF Receive
  <2>4. running /\ UNCHANGED <<running, generation, stopped>>
    BY <1>9 DEF Receive
  <2> HIDE DEF k
  <2>5. HasQueue'
    BY <2>1, <2>3 DEF HasQueue
  <2>6. ASSUME NEW d \in Calls, d # c, call'[d].pc = "waiting"
        PROVE  \/ Released(d)'
               \/ /\ running' /\ call'[d].event = generation'
                  /\ queue'[call'[d].key] = call'[d].queue
    <3>1. call[d].key \in Keys /\ call[d].queue # 0 /\ call'[d] = call[d]
      BY <1>a, <2>1, <2>6 DEF CallRecord, HasQueue
    <3> QED BY <2>3, <2>4, <2>6, <3>1 DEF Waits, Released
  <2>7. Waits'
    BY <2>1, <2>3, <2>4, <2>6 DEF Waits
  <2> QED BY <2>5, <2>7
<1>10. ASSUME NEW c \in Calls, Take(c) \/ Wake(c) \/ Cancelled(c) PROVE HasQueue' /\ Waits'
  <2>1. /\ call[c].pc = "waiting" /\ UNCHANGED <<running, generation, stopped, queue>>
        /\ \A d \in Calls \ {c} : call'[d] = call[d]
    BY <1>10 DEF Take, Wake, Cancelled, bus, TypeOK
  <2>2. /\ call'[c].key = call[c].key /\ call'[c].queue = call[c].queue
        /\ call'[c].event = call[c].event /\ call'[c].unsub = call[c].unsub
    <3>1. CASE Take(c)
      <4>1. PICK m : call' = [call EXCEPT ![c] = [call[c] EXCEPT !.got = m]]
        BY <3>1 DEF Take
      <4> QED BY <1>a, <4>1 DEF TypeOK, CallRecord
    <3>2. CASE Wake(c) \/ Cancelled(c)
      <4>1. PICK p : call' = [call EXCEPT ![c] = [call[c] EXCEPT !.pc = p]]
        BY <3>2 DEF Wake, Cancelled
      <4> QED BY <1>a, <4>1 DEF TypeOK, CallRecord
    <3> QED BY <1>10, <3>1, <3>2
  <2> QED BY <2>1, <2>2, WaitQuiet
<1> QED BY <1>1, <1>2, <1>3, <1>4, <1>5, <1>6, <1>7, <1>8, <1>9, <1>10, <1>b DEF Next

\* The types and the receivers together are inductive.
LEMMA Receivers == Spec => [](TypeOK /\ HasQueue /\ Waits)
<1>1. Init => TypeOK /\ HasQueue /\ Waits
  BY InitType DEF Init, Waits, Idle
<1>2. TypeOK /\ HasQueue /\ Waits /\ [Next]_vars => (TypeOK /\ HasQueue /\ Waits)'
  BY NextType, NextWaits
<1> QED BY <1>1, <1>2, PTL DEF Spec

\* Every variable of the bus keeps its type, queues and histories their bounds,
\* whatever is published, received, dropped and restarted.
THEOREM TypeCorrect == Spec => []TypeOK
  BY Receivers, PTL

\* A receiver at a queue that publishers no longer reach, or of a bus that has
\* stopped, has been released: through unsubscribes and restarts in any order.
THEOREM ReceiversReleased == Spec => []NoStrandedReceiver
<1>1. Waits => NoStrandedReceiver
  BY DEF Waits, NoStrandedReceiver
<1> QED BY <1>1, Receivers, PTL

-----------------------------------------------------------------------------
(* The order of the messages                                               *)

\* Nobody has a message that has not been sent, and a call that has not begun
\* has none.
Past ==
  /\ \A q \in Objects : \A i \in 1..Len(content[q]) : content[q][i] <= sent
  /\ \A c \in Calls : call[c].got <= sent /\ (call[c].pc = "idle" => call[c].got = 0)

\* Deliver() appends the message to the objects that it reaches.
LEMMA Appended ==
  ASSUME TypeOK, NEW ks \in SUBSET Keys, NEW m \in Messages, Deliver(ks, m), NEW q \in Objects
  PROVE  content'[q] = IF q[1] \in ks /\ q[2] = Object(q[1]) /\ ~Full(q[1])
                       THEN Append(content[q], m) ELSE content[q]
  BY DEF Deliver, TypeOK

\* Steps that leave the queues and what receivers have taken alone.
LEMMA OrderQuiet ==
  ASSUME TypeOK, TypeOK', InOrder, Past,
         \A c \in Calls : /\ call'[c].pc # "idle" <=> call[c].pc # "idle"
                          /\ call'[c].key = call[c].key /\ call'[c].queue = call[c].queue
                          /\ call'[c].got = call[c].got,
         UNCHANGED <<content, sent>>
  PROVE  InOrder' /\ Past'
<1>1. Past'
  BY DEF Past
<1>2. InOrder'
  BY DEF InOrder, Held
<1> QED BY <1>1, <1>2

\* A message that is published goes behind all others.
LEMMA OrderDeliver ==
  ASSUME TypeOK, TypeOK', InOrder, Past, NEW ks \in SUBSET Keys, sent < MaxMessages,
         Deliver(ks, sent + 1), sent' = sent + 1, call' = call
  PROVE  InOrder' /\ Past'
<1> DEFINE m == sent + 1
<1>0. m \in Messages /\ sent \in Nat
  BY Constants DEF TypeOK, Messages
<1>a. DOMAIN content = Objects /\ DOMAIN content' = Objects
  BY DEF TypeOK
<1>b. \A c \in Calls : call[c].got \in Nat /\ call[c].got <= sent
  BY DEF TypeOK, CallRecord, Past
<1>1. ASSUME NEW q \in Objects
      PROVE  /\ \A i \in 1..Len(content'[q]) : content'[q][i] <= m
             /\ \A i, j \in 1..Len(content'[q]) : i < j => content'[q][i] < content'[q][j]
             /\ \A c \in Calls : (call[c].pc # "idle" /\ Held(c) = q) =>
                  \A i \in 1..Len(content'[q]) : call[c].got < content'[q][i]
  <2> DEFINE s == content[q]
  <2>1. /\ s \in Seq(Messages)
        /\ \A i \in 1..Len(s) : s[i] <= sent
        /\ \A i, j \in 1..Len(s) : i < j => s[i] < s[j]
        /\ \A c \in Calls : (call[c].pc # "idle" /\ Held(c) = q) =>
             \A i \in 1..Len(s) : call[c].got < s[i]
    BY <1>a DEF TypeOK, Past, InOrder
  <2>2. content'[q] = Append(s, m) \/ content'[q] = s
    BY <1>0, Appended
  <2> HIDE DEF s, m
  <2>3. \A i \in 1..Len(s) : s[i] \in Nat /\ s[i] < m
    <3>1. \A i \in 1..Len(s) : s[i] \in Messages /\ s[i] <= sent
      BY <2>1
    <3> QED BY <1>0, <3>1, Constants DEF Messages, m
  <2>4. CASE content'[q] = Append(s, m)
    <3>1. /\ Len(content'[q]) = Len(s) + 1 /\ Len(s) \in Nat
          /\ \A i \in 1..Len(s) : content'[q][i] = s[i]
          /\ content'[q][Len(s) + 1] = m
      BY <1>0, <2>1, <2>4
    <3>2. \A i \in 1..Len(content'[q]) : i \in 1..Len(s) \/ i = Len(s) + 1
      BY <3>1
    <3>3. m \in Nat /\ m > sent
      BY <1>0 DEF m
    <3>4. \A i \in 1..Len(content'[q]) : content'[q][i] <= m
      BY <2>3, <3>1, <3>2, <3>3
    <3>5. ASSUME NEW i \in 1..Len(content'[q]), NEW j \in 1..Len(content'[q]), i < j
          PROVE  content'[q][i] < content'[q][j]
      <4>1. i \in 1..Len(s)
        BY <3>1, <3>5
      <4>2. CASE j \in 1..Len(s)
        BY <2>1, <3>1, <3>5, <4>1, <4>2
      <4>3. CASE j = Len(s) + 1
        BY <2>3, <3>1, <4>1, <4>3
      <4> QED BY <3>2, <4>2, <4>3
    <3>6. ASSUME NEW c \in Calls, call[c].pc # "idle", Held(c) = q,
                 NEW i \in 1..Len(content'[q])
          PROVE  call[c].got < content'[q][i]
      BY <1>0, <1>b, <2>1, <3>1, <3>2, <3>3, <3>6
    <3> QED BY <3>4, <3>5, <3>6
  <2>5. CASE content'[q] = s
    BY <2>1, <2>3, <2>5, <1>0 DEF m
  <2> QED BY <2>2, <2>4, <2>5
<1>2. Past'
  BY <1>0, <1>1, <1>b DEF Past
<1>3. InOrder'
  BY <1>1, <1>a DEF InOrder, Held
<1> QED BY <1>2, <1>3

\* A message that is taken is the first of its queue.
LEMMA Taken ==
  ASSUME TypeOK, HasQueue, InOrder, NEW c \in Calls, Take(c)
  PROVE  LET q == Held(c)
             s == content[Held(c)]
         IN  /\ q \in Objects /\ s \in Seq(Messages) /\ Len(s) \in Nat \ {0}
             /\ call'[c] = [call[c] EXCEPT !.got = s[1]]
             /\ \A d \in Calls \ {c} : call'[d] = call[d]
             /\ \A x \in Objects \ {q} : content'[x] = content[x]
             /\ Len(content'[q]) = Len(s) - 1
             /\ \A i \in 1..(Len(s) - 1) : content'[q][i] = s[i + 1]
             /\ \A i \in 2..Len(s) : s[1] < s[i]
<1>1. Held(c) \in Objects
  BY HeldType DEF Take
<1>2. content[Held(c)] \in Seq(Messages) /\ content[Held(c)] # <<>>
  BY <1>1 DEF Take, TypeOK
<1>3. call'[c] = [call[c] EXCEPT !.got = content[Held(c)][1]] /\ \A d \in Calls \ {c} : call'[d] = call[d]
  BY <1>2 DEF Take, TypeOK
<1>4. content'[Held(c)] = Tail(content[Held(c)]) /\ \A x \in Objects \ {Held(c)} : content'[x] = content[x]
  BY <1>1 DEF Take, TypeOK
<1>5. \A i \in 2..Len(content[Held(c)]) : content[Held(c)][1] < content[Held(c)][i]
  <2> DEFINE s == content[Held(c)]
  <2>1. Held(c) \in DOMAIN content
    BY <1>1 DEF TypeOK
  <2>2. \A i, j \in 1..Len(s) : i < j => s[i] < s[j]
    BY <2>1 DEF InOrder
  <2>3. Len(s) \in Nat
    BY <1>2
  <2> HIDE DEF s
  <2>4. \A i \in 2..Len(s) : s[1] < s[i]
    BY <2>2, <2>3
  <2> QED BY <2>4 DEF s
<1> QED BY <1>1, <1>2, <1>3, <1>4, <1>5

\* Taking the head leaves a queue in order.
LEMMA OrderTake ==
  ASSUME TypeOK, TypeOK', HasQueue, InOrder, Past, NEW c \in Calls, Take(c)
  PROVE  InOrder' /\ Past'
<1> DEFINE q == Held(c)
           s == content[q]
<1>1. /\ q \in Objects /\ s \in Seq(Messages) /\ Len(s) \in Nat \ {0}
      /\ call'[c] = [call[c] EXCEPT !.got = s[1]]
      /\ \A d \in Calls \ {c} : call'[d] = call[d]
      /\ \A x \in Objects \ {q} : content'[x] = content[x]
      /\ Len(content'[q]) = Len(s) - 1
      /\ \A i \in 1..(Len(s) - 1) : content'[q][i] = s[i + 1]
      /\ \A i \in 2..Len(s) : s[1] < s[i]
  BY Taken
<1>2. /\ call'[c].got = s[1] /\ call'[c].pc = call[c].pc /\ call'[c].pc = "waiting"
      /\ \A d \in Calls : Held(d)' = Held(d)
  <2>1. call[c] \in CallRecord /\ call[c].pc = "waiting"
    BY DEF TypeOK, Take
  <2>2. /\ call'[c].got = s[1] /\ call'[c].pc = call[c].pc
        /\ call'[c].key = call[c].key /\ call'[c].queue = call[c].queue
    BY <1>1, <2>1 DEF CallRecord
  <2>3. \A d \in Calls : Held(d)' = Held(d)
    BY <1>1, <2>2 DEF Held
  <2> QED BY <2>1, <2>2, <2>3
<1>3. DOMAIN content = Objects /\ DOMAIN content' = Objects /\ sent' = sent
  BY DEF TypeOK, Take
<1>4. /\ \A i \in 1..Len(s) : s[i] <= sent
      /\ \A i, j \in 1..Len(s) : i < j => s[i] < s[j]
      /\ \A d \in Calls : (call[d].pc # "idle" /\ Held(d) = q) =>
           \A i \in 1..Len(s) : call[d].got < s[i]
  BY <1>1, <1>3 DEF Past, InOrder
<1> HIDE DEF q, s
<1>5. \A i \in 1..Len(content'[q]) : i + 1 \in 2..Len(s) /\ i + 1 \in 1..Len(s) /\ content'[q][i] = s[i + 1]
  BY <1>1
<1>6. /\ \A i \in 1..Len(content'[q]) : content'[q][i] <= sent
      /\ \A i, j \in 1..Len(content'[q]) : i < j => content'[q][i] < content'[q][j]
  BY <1>4, <1>5
<1>7. ASSUME NEW d \in Calls, call'[d].pc # "idle", Held(d) = q
      PROVE  \A i \in 1..Len(content'[q]) : call'[d].got < content'[q][i]
  <2>1. CASE d = c
    BY <1>1, <1>2, <1>5, <2>1
  <2>2. CASE d # c
    BY <1>1, <1>4, <1>5, <1>7, <2>2
  <2> QED BY <2>1, <2>2
<1>8. Past'
  <2>1. \A x \in Objects : \A i \in 1..Len(content'[x]) : content'[x][i] <= sent
    BY <1>1, <1>6 DEF Past
  <2>2. s[1] <= sent
    BY <1>1, <1>4
  <2>3. \A d \in Calls : call'[d].got <= sent /\ (call'[d].pc = "idle" => call'[d].got = 0)
    BY <1>1, <1>2, <2>2 DEF Past
  <2> QED BY <1>3, <2>1, <2>3 DEF Past
<1>9. ASSUME NEW x \in Objects
      PROVE  /\ \A i, j \in 1..Len(content'[x]) : i < j => content'[x][i] < content'[x][j]
             /\ \A d \in Calls : (call'[d].pc # "idle" /\ Held(d) = x) =>
                  \A i \in 1..Len(content'[x]) : call'[d].got < content'[x][i]
  <2>1. CASE x = q
    BY <1>6, <1>7, <2>1
  <2>2. CASE x # q
    <3>1. content'[x] = content[x] /\ \A d \in Calls : Held(d) = x => d # c /\ call'[d] = call[d]
      BY <1>1, <2>2 DEF q
    <3> QED BY <1>3, <3>1 DEF InOrder
  <2> QED BY <2>1, <2>2
<1>10. InOrder'
  BY <1>2, <1>3, <1>9 DEF InOrder
<1> QED BY <1>8, <1>10

\* A receiver that registers has taken nothing yet.
LEMMA OrderReceive ==
  ASSUME TypeOK, TypeOK', InOrder, Past, NEW c \in Calls, NEW ch \in Channels, NEW a \in Agents,
         Receive(c, ch, a)
  PROVE  InOrder' /\ Past'
<1>1. /\ call'[c].pc = "waiting" /\ call'[c].got = 0
      /\ \A d \in Calls \ {c} : call'[d] = call[d]
      /\ UNCHANGED <<content, sent>>
  BY DEF Receive, TypeOK, Idle
<1>2. sent \in Nat /\ DOMAIN content = Objects
      /\ \A q \in Objects : \A i \in 1..Len(content[q]) : content[q][i] \in Nat \ {0}
  BY Constants DEF TypeOK, Messages
<1>3. Past'
  BY <1>1, <1>2 DEF Past
<1>4. ASSUME NEW q \in Objects, NEW d \in Calls, call'[d].pc # "idle", Held(d)' = q,
             NEW i \in 1..Len(content[q])
      PROVE  call'[d].got < content[q][i]
  <2>1. CASE d = c
    BY <1>1, <1>2, <2>1
  <2>2. CASE d # c
    BY <1>1, <1>2, <1>4, <2>2 DEF InOrder, Held
  <2> QED BY <2>1, <2>2
<1>5. InOrder'
  BY <1>1, <1>2, <1>4 DEF InOrder
<1> QED BY <1>3, <1>5

\* Every step keeps the order.
LEMMA NextOrder ==
  TypeOK /\ TypeOK' /\ HasQueue /\ InOrder /\ Past /\ [Next]_vars => InOrder' /\ Past'
<1> SUFFICES ASSUME TypeOK, TypeOK', HasQueue, InOrder, Past, [Next]_vars PROVE InOrder' /\ Past'
  OBVIOUS
<1>a. ASSUME NEW c \in Calls PROVE call[c] \in CallRecord
  BY DEF TypeOK
<1>b. env.channels \subseteq Channels /\ env.agents \subseteq Agents
  BY Constants DEF TypeOK
<1>1. CASE UNCHANGED <<content, sent, call>>
  BY <1>1, OrderQuiet
<1>2. CASE UNCHANGED vars \/ Start \/ Stop
  BY <1>1, <1>2 DEF vars, bus, Start, Stop
<1>3. ASSUME NEW ch \in Channels, CreateChannel(ch) PROVE InOrder' /\ Past'
  BY <1>1, <1>3 DEF CreateChannel
<1>4. ASSUME NEW ch \in Channels, NEW a \in Agents, Subscribe(ch, a) PROVE InOrder' /\ Past'
  BY <1>1, <1>4 DEF Subscribe
<1>5. ASSUME NEW ch \in Channels, NEW a \in Agents, Unsubscribe(ch, a) PROVE InOrder' /\ Past'
  <2>1. ASSUME NEW c \in Calls
        PROVE  /\ call'[c].pc = call[c].pc /\ call'[c].key = call[c].key
               /\ call'[c].queue = call[c].queue /\ call'[c].got = call[c].got
    BY <1>5, <1>a DEF Unsubscribe, CallRecord
  <2>2. UNCHANGED <<content, sent>>
    BY <1>5 DEF Unsubscribe
  <2> QED BY <2>1, <2>2, OrderQuiet
<1>6. ASSUME NEW ch \in Channels, Publish(ch) PROVE InOrder' /\ Past'
  <2>1. PICK ks \in SUBSET Keys : Deliver(ks, sent + 1)
    BY <1>6 DEF Publish, Keys, TypeOK, Exists
  <2> QED BY <1>6, <2>1, OrderDeliver DEF Publish
<1>7. ASSUME NEW pair \in Pairs, SendDirect(pair) PROVE InOrder' /\ Past'
  <2>1. {pair} \X pair \in SUBSET Keys
    BY Constants DEF Keys
  <2> QED BY <1>7, <2>1, OrderDeliver DEF SendDirect
<1>8. ASSUME NEW c \in Calls, NEW ch \in Channels, NEW a \in Agents, Receive(c, ch, a)
      PROVE  InOrder' /\ Past'
  BY <1>8, OrderReceive
<1>9. ASSUME NEW c \in Calls, Take(c) PROVE InOrder' /\ Past'
  BY <1>9, OrderTake
<1>10. ASSUME NEW c \in Calls, Wake(c) \/ Cancelled(c) PROVE InOrder' /\ Past'
  <2>1. PICK p \in {"returned", "cancelled"} : call' = [call EXCEPT ![c] = [call[c] EXCEPT !.pc = p]]
    BY <1>10 DEF Wake, Cancelled
  <2>2. call[c].pc = "waiting" /\ UNCHANGED <<content, sent>>
    BY <1>10 DEF Wake, Cancelled, bus
  <2>3. /\ call'[c].pc = p /\ call'[c].key = call[c].key /\ call'[c].queue = call[c].queue
        /\ call'[c].got = call[c].got
        /\ \A d \in Calls \ {c} : call'[d] = call[d]
    BY <1>a, <2>1 DEF TypeOK, CallRecord
  <2> QED BY <2>2, <2>3, OrderQuiet
<1> QED BY <1>2, <1>3, <1>4, <1>5, <1>6, <1>7, <1>8, <1>9, <1>10, <1>b DEF Next

\* The order and what it rests on hold in every state.
LEMMA OrderAlways == Spec => [](InOrder /\ Past)
<1>1. Init => InOrder /\ Past
  <2> SUFFICES ASSUME Init PROVE InOrder /\ Past
    OBVIOUS
  <2>1. /\ DOMAIN content = Objects /\ \A q \in Objects : content[q] = <<>>
        /\ \A c \in Calls : call[c].got = 0
        /\ sent = 0
    BY DEF Init, Idle
  <2>2. \A q \in Objects : 1..Len(content[q]) = {}
    BY <2>1, EmptySequence
  <2> QED BY <2>1, <2>2 DEF InOrder, Past
<1>2. TypeOK /\ HasQueue /\ InOrder /\ Past /\ TypeOK' /\ [Next]_vars => InOrder' /\ Past'
  BY NextOrder
<1> QED BY <1>1, <1>2, Receivers, PTL DEF Spec

\* Messages leave every queue in the order in which they were published: also the
\* one that a receiver of an earlier subscription or an earlier run still holds.
THEOREM QueuesInOrder == Spec => []InOrder
  BY OrderAlways, PTL

-----------------------------------------------------------------------------
(* What the queues hold                                                    *)

Slots == 1..(MaxDrops + 1)

\* An object that has not been made since queues were last dropped is empty.
FreshObjects ==
  \A k \in Keys :
    /\ queue[k] <= drops + 1
    /\ \A i \in Slots : i > drops /\ i # queue[k] => content[<<k, i>>] = <<>>

\* Topics and direct channels have queues for their subscribers and nobody else.
QueuesOfSubscribers ==
  \A ch \in Topics \union Pairs, a \in Agents :
    queue[<<ch, a>>] # 0 <=> ch \in DOMAIN subscribers /\ a \in subscribers[ch]

\* No subscription began after messages that have yet to be sent.
SincePast == \A k \in Keys : since[k] <= sent

StaleInv == FreshObjects /\ QueuesOfSubscribers /\ SincePast /\ NothingStale

\* What is in a queue after an append, in a tail and in an empty queue.
LEMMA RangeAppend ==
  ASSUME NEW s \in Seq(Messages), NEW m \in Messages
  PROVE  Range(Append(s, m)) = Range(s) \union {m}
<1>1. /\ DOMAIN s = 1..Len(s) /\ Len(s) \in Nat
      /\ DOMAIN Append(s, m) = 1..(Len(s) + 1)
      /\ \A i \in 1..Len(s) : Append(s, m)[i] = s[i]
      /\ Append(s, m)[Len(s) + 1] = m
  OBVIOUS
<1>2. \A i \in 1..(Len(s) + 1) : i \in 1..Len(s) \/ i = Len(s) + 1
  BY <1>1
<1>3. 1..Len(s) \subseteq 1..(Len(s) + 1) /\ Len(s) + 1 \in 1..(Len(s) + 1)
  BY <1>1
<1> QED BY <1>1, <1>2, <1>3 DEF Range

\* What a queue holds besides its head.
LEMMA RangeTail ==
  ASSUME NEW s \in Seq(Messages), NEW t \in Seq(Messages), Len(s) \in Nat \ {0},
         Len(t) = Len(s) - 1, \A i \in 1..(Len(s) - 1) : t[i] = s[i + 1],
         \A i \in 2..Len(s) : s[1] < s[i]
  PROVE  Range(s) = Range(t) \union {s[1]} /\ s[1] \notin Range(t) /\ s[1] \in Messages
<1>1. DOMAIN s = 1..Len(s) /\ DOMAIN t = 1..(Len(s) - 1)
  OBVIOUS
<1>2. ASSUME NEW i \in 1..Len(s), i # 1
      PROVE  i - 1 \in 1..(Len(s) - 1) /\ s[i] = t[i - 1]
  <2>1. i - 1 \in 1..(Len(s) - 1) /\ (i - 1) + 1 = i
    BY <1>2
  <2> QED BY <2>1
<1>3. ASSUME NEW i \in 1..(Len(s) - 1)
      PROVE  i + 1 \in 1..Len(s) /\ i + 1 \in 2..Len(s) /\ t[i] = s[i + 1]
  OBVIOUS
<1>4. Range(s) = Range(t) \union {s[1]}
  <2>1. 1 \in 1..Len(s)
    OBVIOUS
  <2>2. ASSUME NEW m \in Range(s) PROVE m \in Range(t) \union {s[1]}
    <3>1. PICK i \in 1..Len(s) : m = s[i]
      BY <1>1 DEF Range
    <3> QED BY <1>1, <1>2, <3>1 DEF Range
  <2>3. ASSUME NEW m \in Range(t) PROVE m \in Range(s)
    BY <1>1, <1>3 DEF Range
  <2>4. s[1] \in Range(s)
    BY <1>1, <2>1 DEF Range
  <2> QED BY <2>2, <2>3, <2>4
<1>5. s[1] \in Messages /\ s[1] \in Int
  <2>1. s[1] \in Messages
    OBVIOUS
  <2> QED BY <2>1 DEF Messages
<1>6. s[1] \notin Range(t)
  BY <1>1, <1>3, <1>5 DEF Range
<1> QED BY <1>4, <1>5, <1>6

\* An empty queue holds nothing.
LEMMA RangeEmpty ==
  ASSUME NEW s, s = <<>> PROVE Range(s) = {}
  BY DEF Range

\* Deliver(), object by object.
LEMMA DeliverSlots ==
  ASSUME TypeOK, NEW ks \in SUBSET Keys, NEW m \in Messages, Deliver(ks, m),
         NEW k \in Keys, NEW i \in Slots
  PROVE  /\ content[<<k, i>>] \in Seq(Messages)
         /\ content'[<<k, i>>] = IF k \in ks /\ i = Object(k) /\ ~Full(k)
                                 THEN Append(content[<<k, i>>], m) ELSE content[<<k, i>>]
         /\ Range(content'[<<k, i>>]) = IF k \in ks /\ i = Object(k) /\ ~Full(k)
                                        THEN Range(content[<<k, i>>]) \union {m}
                                        ELSE Range(content[<<k, i>>])
         /\ Range(content'[<<k, i>>]) \subseteq Range(content[<<k, i>>]) \union {m}
<1>1. <<k, i>> \in Objects /\ <<k, i>>[1] = k /\ <<k, i>>[2] = i
  BY DEF Objects, Slots
<1>2. content[<<k, i>>] \in Seq(Messages)
  BY <1>1 DEF TypeOK
<1>3. content'[<<k, i>>] = IF k \in ks /\ i = Object(k) /\ ~Full(k)
                           THEN Append(content[<<k, i>>], m) ELSE content[<<k, i>>]
  BY <1>1, Appended
<1> QED BY <1>2, <1>3, RangeAppend

\* A delivery makes no object that a later subscription could find used.
LEMMA DeliverFresh ==
  ASSUME TypeOK, FreshObjects, NEW ks \in SUBSET Keys, NEW m \in Messages, Deliver(ks, m),
         drops' = drops
  PROVE  FreshObjects'
<1> SUFFICES ASSUME NEW k \in Keys
             PROVE  /\ queue'[k] <= drops + 1
                    /\ \A i \in Slots : i > drops /\ i # queue'[k] => content'[<<k, i>>] = <<>>
  BY DEF FreshObjects
<1>1. queue'[k] = IF k \in ks THEN Object(k) ELSE queue[k]
  BY DEF Deliver, EnsureQueues
<1>2. queue'[k] <= drops + 1
  BY <1>1, Constants DEF FreshObjects, Object, TypeOK
<1>3. ASSUME NEW i \in Slots, i > drops, i # queue'[k]
      PROVE  content'[<<k, i>>] = <<>>
  <2>1. i # queue[k]
    BY <1>1, <1>3 DEF Object, Slots, TypeOK
  <2>2. content[<<k, i>>] = <<>>
    BY <1>3, <2>1 DEF FreshObjects
  <2>3. ~(k \in ks /\ i = Object(k))
    BY <1>1, <1>3
  <2>4. content'[<<k, i>>] = content[<<k, i>>]
    BY <2>3, DeliverSlots
  <2> QED BY <2>2, <2>4
<1> QED BY <1>2, <1>3

\* Steps that leave the queues and the subscriptions alone.
LEMMA StaleQuiet ==
  ASSUME StaleInv, UNCHANGED <<subscribers, queue, content, drops, sent, since>>
  PROVE  StaleInv'
  BY DEF StaleInv, FreshObjects, QueuesOfSubscribers, SincePast, NothingStale

\* The queue of a subscriber and what is in it.
LEMMA SubscriberQueue ==
  ASSUME TypeOK, StaleInv, NEW ch \in Topics \union Pairs, ch \in DOMAIN subscribers,
         NEW a \in subscribers[ch]
  PROVE  /\ <<ch, a>> \in Keys /\ a \in Agents
         /\ queue[<<ch, a>>] \in Slots
         /\ \A m \in Range(content[<<<<ch, a>>, queue[<<ch, a>>]>>]) : m > since[<<ch, a>>]
<1>1. ch \in Channels /\ a \in Agents
  BY DEF Channels, TypeOK
<1>2. <<ch, a>> \in Keys
  BY <1>1 DEF Keys
<1>3. queue[<<ch, a>>] # 0 /\ \A m \in Range(content[<<<<ch, a>>, queue[<<ch, a>>]>>]) : m > since[<<ch, a>>]
  BY DEF StaleInv, NothingStale
<1>4. queue[<<ch, a>>] \in Slots
  BY <1>2, <1>3, Constants DEF TypeOK, Slots
<1> QED BY <1>1, <1>2, <1>3, <1>4

\* Published messages are younger than the subscriptions they reach.
LEMMA StalePublish ==
  ASSUME TypeOK, TypeOK', StaleInv, NEW ch \in Channels, Publish(ch)
  PROVE  StaleInv'
<1> DEFINE to == IF ch \in Broadcasts THEN known ELSE subscribers[ch]
           ks == {ch} \X to
<1>1. /\ sent + 1 \in Messages /\ sent' = sent + 1 /\ sent \in Nat
      /\ UNCHANGED <<subscribers, drops, since>> /\ ch \in DOMAIN subscribers
  BY Constants DEF Publish, TypeOK, Messages, Exists
<1>2. ks \in SUBSET Keys /\ Deliver(ks, sent + 1)
  BY DEF Publish, Keys, TypeOK, Exists
<1> HIDE DEF ks, to
<1>3. FreshObjects'
  BY <1>1, <1>2, DeliverFresh DEF StaleInv
<1>4. /\ \A k \in Keys : queue[k] # 0 => queue'[k] = queue[k]
      /\ \A k \in Keys : k \notin ks => queue'[k] = queue[k]
  BY <1>2, Ensured DEF Deliver
<1>5. QueuesOfSubscribers'
  <2> SUFFICES ASSUME NEW x \in Topics \union Pairs, NEW a \in Agents
               PROVE  queue'[<<x, a>>] = queue[<<x, a>>]
    BY <1>1 DEF QueuesOfSubscribers, StaleInv
  <2>1. <<x, a>> \in Keys
    BY DEF Keys, Channels
  <2>2. CASE <<x, a>> \in ks
    <3>1. x = ch /\ a \in subscribers[x] /\ x \in DOMAIN subscribers
      BY <1>1, <2>2, BusAssumption DEF ks, to
    <3>2. queue[<<x, a>>] # 0
      BY <3>1 DEF StaleInv, QueuesOfSubscribers
    <3> QED BY <1>4, <2>1, <3>2
  <2> QED BY <1>4, <2>1, <2>2
<1>6. SincePast'
  BY <1>1 DEF SincePast, StaleInv, TypeOK
<1>7. NothingStale'
  <2> SUFFICES ASSUME NEW x \in (Topics \union Pairs) \intersect DOMAIN subscribers,
                      NEW a \in subscribers[x]
               PROVE  /\ queue'[<<x, a>>] # 0
                      /\ \A m \in Range(content'[<<<<x, a>>, queue'[<<x, a>>]>>]) : m > since[<<x, a>>]
    BY <1>1 DEF NothingStale
  <2> DEFINE k == <<x, a>>
             i == queue[k]
  <2>1. k \in Keys /\ i \in Slots /\ \A m \in Range(content[<<k, i>>]) : m > since[k]
    BY SubscriberQueue
  <2>2. queue'[k] = i /\ i # 0
    BY <1>4, <2>1 DEF Slots
  <2>3. Range(content'[<<k, i>>]) \subseteq Range(content[<<k, i>>]) \union {sent + 1}
    BY <1>1, <1>2, <2>1, DeliverSlots
  <2>4. sent + 1 > since[k]
    <3>1. since[k] \in Nat /\ since[k] <= sent
      BY <2>1 DEF SincePast, StaleInv, TypeOK
    <3> QED BY <1>1, <3>1
  <2> QED BY <2>1, <2>2, <2>3, <2>4
<1> QED BY <1>3, <1>5, <1>6, <1>7 DEF StaleInv

\* A direct message reaches two agents who were subscribed, or are now.
LEMMA StaleSendDirect ==
  ASSUME TypeOK, TypeOK', StaleInv, NEW pair \in Pairs, SendDirect(pair)
  PROVE  StaleInv'
<1> DEFINE members == IF Exists(pair) THEN subscribers[pair] ELSE {}
           ks == {pair} \X pair
<1>1. sent + 1 \in Messages /\ sent' = sent + 1 /\ sent \in Nat /\ drops' = drops
  BY Constants DEF SendDirect, TypeOK, Messages
<1>2. ks \in SUBSET Keys /\ Deliver(ks, sent + 1)
  BY Constants DEF SendDirect, Keys
<1>3. /\ DOMAIN subscribers' = DOMAIN subscribers \union {pair}
      /\ subscribers'[pair] = members \union pair
      /\ \A x \in DOMAIN subscribers : x # pair => subscribers'[x] = subscribers[x]
  BY DEF SendDirect, With
<1>4. \A k \in Keys : since'[k] = IF k[1] = pair /\ k[2] \in pair \ members THEN sent ELSE since[k]
  BY DEF SendDirect
<1>5. ASSUME NEW a \in Agents PROVE queue[<<pair, a>>] # 0 <=> a \in members
  BY DEF StaleInv, QueuesOfSubscribers, Exists
<1>6. \A a \in Agents : <<pair, a>> \in ks <=> a \in pair
  OBVIOUS
<1> HIDE DEF ks, members
<1>7. FreshObjects'
  BY <1>1, <1>2, DeliverFresh DEF StaleInv
<1>8. /\ \A k \in Keys : queue[k] # 0 => queue'[k] = queue[k]
      /\ \A k \in Keys : k \in ks => queue'[k] = Object(k) /\ Object(k) # 0
      /\ \A k \in Keys : k \notin ks => queue'[k] = queue[k]
  BY <1>2, Ensured DEF Deliver
<1>9. QueuesOfSubscribers'
  <2> SUFFICES ASSUME NEW x \in Topics \union Pairs, NEW a \in Agents
               PROVE  queue'[<<x, a>>] # 0 <=> x \in DOMAIN subscribers' /\ a \in subscribers'[x]
    BY DEF QueuesOfSubscribers
  <2>1. <<x, a>> \in Keys
    BY DEF Keys, Channels
  <2>2. CASE x = pair
    BY <1>3, <1>5, <1>6, <1>8, <2>1, <2>2
  <2>3. CASE x # pair
    <3>1. queue'[<<x, a>>] = queue[<<x, a>>]
      BY <1>8, <2>1, <2>3 DEF ks
    <3> QED BY <1>3, <2>3, <3>1 DEF StaleInv, QueuesOfSubscribers
  <2> QED BY <2>2, <2>3
<1>10. SincePast'
  <2> SUFFICES ASSUME NEW k \in Keys PROVE since'[k] <= sent + 1
    BY <1>1 DEF SincePast
  <2>1. since[k] \in Nat /\ since[k] <= sent
    BY DEF StaleInv, SincePast, TypeOK
  <2> QED BY <1>1, <1>4, <2>1
<1>11. NothingStale'
  <2> SUFFICES ASSUME NEW x \in (Topics \union Pairs) \intersect DOMAIN subscribers',
                      NEW a \in subscribers'[x]
               PROVE  /\ queue'[<<x, a>>] # 0
                      /\ \A m \in Range(content'[<<<<x, a>>, queue'[<<x, a>>]>>]) : m > since'[<<x, a>>]
    BY DEF NothingStale
  <2> DEFINE k == <<x, a>>
             i == queue'[k]
  <2>1. a \in Agents
    BY DEF TypeOK
  <2>2. k \in Keys /\ k[1] = x /\ k[2] = a
    BY <2>1 DEF Keys, Channels
  <2>3. i # 0
    BY <1>9, <2>1 DEF QueuesOfSubscribers
  <2>4. i \in Slots
    BY <2>2, <2>3, Constants DEF Slots, TypeOK
  <2>5. Range(content'[<<k, i>>]) \subseteq Range(content[<<k, i>>]) \union {sent + 1}
    BY <1>1, <1>2, <2>2, <2>4, DeliverSlots
  <2>6. since[k] \in Nat /\ since[k] <= sent
    BY <2>2 DEF StaleInv, SincePast, TypeOK
  <2> HIDE DEF k, i
  <2>7. CASE x = pair /\ a \in pair \ members
    <3>1. queue[k] = 0
      BY <1>5, <2>1, <2>7 DEF k
    <3>2. i = drops + 1
      BY <1>6, <1>8, <2>1, <2>2, <2>7, <3>1 DEF Object, i, k
    <3>3. content[<<k, i>>] = <<>>
      BY <2>2, <2>4, <3>1, <3>2 DEF StaleInv, FreshObjects, TypeOK
    <3>4. Range(content[<<k, i>>]) = {} /\ since'[k] = sent
      BY <1>4, <2>2, <2>7, <3>3, RangeEmpty
    <3> QED BY <1>1, <2>3, <2>5, <3>4 DEF k, i
  <2>8. CASE ~(x = pair /\ a \in pair \ members)
    <3>1. x \in DOMAIN subscribers /\ a \in subscribers[x]
      BY <1>3, <2>1, <2>8 DEF members, Exists
    <3>2. queue[k] \in Slots /\ \A m \in Range(content[<<k, queue[k]>>]) : m > since[k]
      BY <3>1, SubscriberQueue DEF k
    <3>3. i = queue[k]
      BY <1>8, <2>2, <3>2 DEF i, Slots
    <3>4. since'[k] = since[k]
      BY <1>4, <2>2, <2>8
    <3> QED BY <1>1, <2>3, <2>5, <2>6, <3>2, <3>3, <3>4 DEF k, i
  <2> QED BY <2>7, <2>8
<1> QED BY <1>7, <1>9, <1>10, <1>11 DEF StaleInv

\* A new subscription starts with an empty queue.
LEMMA StaleSubscribe ==
  ASSUME TypeOK, TypeOK', StaleInv, NEW ch \in Channels, NEW a \in Agents, Subscribe(ch, a)
  PROVE  StaleInv'
<1> DEFINE k == <<ch, a>>
<1>1. k \in Keys /\ ch \in DOMAIN subscribers /\ UNCHANGED <<content, drops, sent>>
  BY DEF Subscribe, Keys, Exists
<1>2. CASE a \in subscribers[ch]
  BY <1>1, <1>2, StaleQuiet DEF Subscribe
<1>3. CASE a \notin subscribers[ch]
  <2>1. /\ DOMAIN subscribers' = DOMAIN subscribers
        /\ subscribers'[ch] = subscribers[ch] \union {a}
        /\ \A x \in DOMAIN subscribers : x # ch => subscribers'[x] = subscribers[x]
    BY <1>1, <1>3 DEF Subscribe
  <2>2. /\ \A l \in Keys : l # k => queue'[l] = queue[l]
        /\ queue'[k] = Object(k) /\ Object(k) # 0
    BY <1>1, <1>3, Ensured DEF Subscribe
  <2>3. since'[k] = sent /\ \A l \in Keys : l # k => since'[l] = since[l]
    BY <1>1, <1>3 DEF Subscribe, TypeOK
  <2>4. /\ sent \in Nat /\ drops \in Nat
        /\ \A l \in Keys : queue[l] \in Nat /\ since[l] \in Nat /\ since[l] <= sent
    BY Constants DEF TypeOK, StaleInv, SincePast
  <2>5. FreshObjects'
    <3>1. Object(k) <= drops + 1
      BY <1>1, <2>4 DEF Object, StaleInv, FreshObjects
    <3>2. queue[k] = 0 \/ Object(k) = queue[k]
      BY DEF Object
    <3> HIDE DEF k
    <3> QED BY <1>1, <2>2, <2>4, <3>1, <3>2 DEF StaleInv, FreshObjects, Slots
  <2>6. QueuesOfSubscribers'
    <3> SUFFICES ASSUME NEW x \in Topics \union Pairs, NEW b \in Agents
                 PROVE  queue'[<<x, b>>] # 0 <=> x \in DOMAIN subscribers' /\ b \in subscribers'[x]
      BY DEF QueuesOfSubscribers
    <3>1. <<x, b>> \in Keys
      BY DEF Keys, Channels
    <3>2. queue[<<x, b>>] # 0 <=> x \in DOMAIN subscribers /\ b \in subscribers[x]
      BY DEF StaleInv, QueuesOfSubscribers
    <3>3. CASE x = ch /\ b = a
      BY <1>1, <2>1, <2>2, <3>3
    <3>4. CASE ~(x = ch /\ b = a)
      <4>1. queue'[<<x, b>>] = queue[<<x, b>>]
        BY <2>2, <3>1, <3>4
      <4> QED BY <2>1, <3>2, <3>4, <4>1
    <3> QED BY <3>3, <3>4
  <2>7. SincePast'
    BY <1>1, <2>3, <2>4 DEF SincePast
  <2>8. NothingStale'
    <3> SUFFICES ASSUME NEW x \in (Topics \union Pairs) \intersect DOMAIN subscribers,
                        NEW b \in subscribers'[x]
                 PROVE  /\ queue'[<<x, b>>] # 0
                        /\ \A m \in Range(content[<<<<x, b>>, queue'[<<x, b>>]>>]) : m > since'[<<x, b>>]
      BY <1>1, <2>1 DEF NothingStale
    <3>1. CASE x = ch /\ b = a
      <4>1. queue[k] = 0
        BY <1>3, <3>1 DEF StaleInv, QueuesOfSubscribers
      <4>2. queue'[k] = drops + 1
        BY <2>2, <4>1 DEF Object
      <4>3. drops + 1 \in Slots
        BY Constants DEF Slots, TypeOK
      <4>4. content[<<k, drops + 1>>] = <<>>
        BY <1>1, <2>4, <4>1, <4>3 DEF StaleInv, FreshObjects
      <4>5. Range(content[<<k, drops + 1>>]) = {}
        BY <4>4, RangeEmpty
      <4> QED BY <2>2, <3>1, <4>2, <4>5
    <3>2. CASE ~(x = ch /\ b = a)
      <4>1. b \in subscribers[x]
        BY <2>1, <3>2
      <4>2. /\ <<x, b>> \in Keys /\ queue[<<x, b>>] \in Slots
            /\ \A m \in Range(content[<<<<x, b>>, queue[<<x, b>>]>>]) : m > since[<<x, b>>]
        BY <4>1, SubscriberQueue
      <4>3. queue'[<<x, b>>] = queue[<<x, b>>] /\ since'[<<x, b>>] = since[<<x, b>>]
        BY <2>2, <2>3, <3>2, <4>2
      <4> QED BY <4>2, <4>3 DEF Slots
    <3> QED BY <3>1, <3>2
  <2> QED BY <2>5, <2>6, <2>7, <2>8 DEF StaleInv
<1> QED BY <1>2, <1>3

\* Who leaves a channel takes the queue along; objects made later are new ones.
LEMMA StaleUnsubscribe ==
  ASSUME TypeOK, TypeOK', StaleInv, NEW ch \in Channels, NEW a \in Agents, Unsubscribe(ch, a)
  PROVE  StaleInv'
<1> DEFINE k == <<ch, a>>
<1>1. k \in Keys /\ ch \in DOMAIN subscribers /\ UNCHANGED <<content, sent, since>> /\ drops' = drops + 1
  BY DEF Unsubscribe, Keys, Exists
<1>2. /\ DOMAIN subscribers' = DOMAIN subscribers
      /\ subscribers'[ch] = subscribers[ch] \ {a}
      /\ \A x \in DOMAIN subscribers : x # ch => subscribers'[x] = subscribers[x]
  BY <1>1 DEF Unsubscribe
<1>3. queue'[k] = 0 /\ \A l \in Keys : l # k => queue'[l] = queue[l]
  BY <1>1 DEF Unsubscribe, TypeOK
<1>4. drops \in Nat /\ \A l \in Keys : queue[l] \in Nat /\ queue[l] <= drops + 1
  BY Constants DEF TypeOK, StaleInv, FreshObjects
<1>5. FreshObjects'
  <2> SUFFICES ASSUME NEW l \in Keys
               PROVE  /\ queue'[l] <= drops + 2
                      /\ \A i \in Slots : i > drops + 1 /\ i # queue'[l] => content[<<l, i>>] = <<>>
    BY <1>1, <1>4 DEF FreshObjects
  <2>1. queue'[l] = 0 \/ queue'[l] = queue[l]
    BY <1>3
  <2>2. ASSUME NEW i \in Slots, i > drops + 1 PROVE content[<<l, i>>] = <<>>
    BY <1>4, <2>2 DEF StaleInv, FreshObjects, Slots
  <2> QED BY <1>4, <2>1, <2>2
<1>6. QueuesOfSubscribers'
  <2> SUFFICES ASSUME NEW x \in Topics \union Pairs, NEW b \in Agents
               PROVE  queue'[<<x, b>>] # 0 <=> x \in DOMAIN subscribers' /\ b \in subscribers'[x]
    BY DEF QueuesOfSubscribers
  <2>1. <<x, b>> \in Keys
    BY DEF Keys, Channels
  <2>2. queue[<<x, b>>] # 0 <=> x \in DOMAIN subscribers /\ b \in subscribers[x]
    BY DEF StaleInv, QueuesOfSubscribers
  <2>3. CASE x = ch /\ b = a
    BY <1>2, <1>3, <2>3
  <2>4. CASE ~(x = ch /\ b = a)
    <3>1. queue'[<<x, b>>] = queue[<<x, b>>]
      BY <1>3, <2>1, <2>4
    <3> QED BY <1>2, <2>2, <2>4, <3>1
  <2> QED BY <2>3, <2>4
<1>7. NothingStale'
  <2> SUFFICES ASSUME NEW x \in (Topics \union Pairs) \intersect DOMAIN subscribers,
                      NEW b \in subscribers'[x]
               PROVE  /\ queue'[<<x, b>>] # 0
                      /\ \A m \in Range(content[<<<<x, b>>, queue'[<<x, b>>]>>]) : m > since[<<x, b>>]
    BY <1>1, <1>2 DEF NothingStale
  <2>1. b \in subscribers[x] /\ ~(x = ch /\ b = a)
    BY <1>2
  <2>2. /\ <<x, b>> \in Keys /\ queue[<<x, b>>] \in Slots
        /\ \A m \in Range(content[<<<<x, b>>, queue[<<x, b>>]>>]) : m > since[<<x, b>>]
    BY <2>1, SubscriberQueue
  <2>3. queue'[<<x, b>>] = queue[<<x, b>>]
    BY <1>3, <2>1, <2>2
  <2> QED BY <2>2, <2>3 DEF Slots
<1>8. SincePast'
  BY <1>1 DEF SincePast, StaleInv
<1> QED BY <1>5, <1>6, <1>7, <1>8 DEF StaleInv

\* A restart leaves every queue to the receivers that hold it.
LEMMA StaleStart ==
  ASSUME TypeOK, TypeOK', StaleInv, Start PROVE StaleInv'
<1>1. UNCHANGED <<content, sent, since>> /\ drops' = drops + 1 /\ \A k \in Keys : queue'[k] = 0
  BY DEF Start
<1>2. drops \in Nat /\ \A l \in Keys : queue[l] \in Nat /\ queue[l] <= drops + 1
  BY Constants DEF TypeOK, StaleInv, FreshObjects
<1>3. FreshObjects'
  <2>1. ASSUME NEW l \in Keys, NEW i \in Slots, i > drops + 1 PROVE content[<<l, i>>] = <<>>
    BY <1>2, <2>1 DEF StaleInv, FreshObjects, Slots
  <2> QED BY <1>1, <1>2, <2>1 DEF FreshObjects
<1>4. DOMAIN subscribers' = Topics /\ \A ch \in Topics : subscribers'[ch] = {}
  BY DEF Start
<1>5. \A ch \in Topics \union Pairs, a \in Agents : <<ch, a>> \in Keys
  BY DEF Keys, Channels
<1>6. QueuesOfSubscribers'
  BY <1>1, <1>4, <1>5 DEF QueuesOfSubscribers
<1>7. SincePast' /\ NothingStale'
  BY <1>1, <1>4 DEF SincePast, NothingStale, StaleInv
<1> QED BY <1>3, <1>6, <1>7 DEF StaleInv

\* A channel that is made has no subscribers.
LEMMA StaleCreate ==
  ASSUME TypeOK, StaleInv, NEW ch \in Channels, CreateChannel(ch) PROVE StaleInv'
<1>1. /\ UNCHANGED <<queue, content, drops, sent, since>> /\ ch \notin DOMAIN subscribers
      /\ DOMAIN subscribers' = DOMAIN subscribers \union {ch} /\ subscribers'[ch] = {}
      /\ \A x \in DOMAIN subscribers : subscribers'[x] = subscribers[x]
  BY DEF CreateChannel, With, Exists
<1>2. FreshObjects' /\ SincePast'
  BY <1>1 DEF StaleInv, FreshObjects, SincePast
<1>3. QueuesOfSubscribers'
  BY <1>1 DEF StaleInv, QueuesOfSubscribers
<1>4. NothingStale'
  BY <1>1 DEF StaleInv, NothingStale
<1> QED BY <1>2, <1>3, <1>4 DEF StaleInv

\* A receiver makes a queue only at a broadcast channel, and a new one.
LEMMA StaleReceive ==
  ASSUME TypeOK, StaleInv, NEW c \in Calls, NEW ch \in Channels, NEW a \in Agents,
         Receive(c, ch, a)
  PROVE  StaleInv'
<1> DEFINE k == <<ch, a>>
<1>1. UNCHANGED <<subscribers, content, drops, sent, since>> /\ k \in Keys /\ ch \in DOMAIN subscribers
  BY DEF Receive, Keys, Exists
<1>2. /\ \A l \in Keys : queue[l] # 0 => queue'[l] = queue[l]
      /\ \A l \in Keys : l # k => queue'[l] = queue[l]
      /\ queue'[k] = Object(k) /\ Object(k) # 0
  BY <1>1, Ensured DEF Receive
<1>3. drops \in Nat /\ \A l \in Keys : queue[l] \in Nat /\ queue[l] <= drops + 1
  BY Constants DEF TypeOK, StaleInv, FreshObjects
<1>4. FreshObjects'
  <2>1. Object(k) <= drops + 1
    BY <1>1, <1>3 DEF Object
  <2>2. queue[k] = 0 \/ Object(k) = queue[k]
    BY DEF Object
  <2> HIDE DEF k
  <2> QED BY <1>1, <1>2, <1>3, <2>1, <2>2 DEF StaleInv, FreshObjects, Slots
<1>5. \A x \in Topics \union Pairs, b \in Agents : queue'[<<x, b>>] = queue[<<x, b>>]
  <2> SUFFICES ASSUME NEW x \in Topics \union Pairs, NEW b \in Agents
               PROVE  queue'[<<x, b>>] = queue[<<x, b>>]
    OBVIOUS
  <2>1. <<x, b>> \in Keys
    BY DEF Keys, Channels
  <2>2. CASE x = ch /\ b = a
    <3>1. ch \notin Broadcasts
      BY <2>2, BusAssumption
    <3>2. b \in subscribers[x]
      BY <2>2, <3>1 DEF Receive
    <3>3. queue[<<x, b>>] # 0
      BY <1>1, <2>2, <3>2 DEF StaleInv, QueuesOfSubscribers
    <3> QED BY <1>2, <2>1, <3>3
  <2> QED BY <1>2, <2>1, <2>2
<1>6. QueuesOfSubscribers' /\ SincePast'
  BY <1>1, <1>5 DEF StaleInv, QueuesOfSubscribers, SincePast
<1>7. NothingStale'
  <2> SUFFICES ASSUME NEW x \in (Topics \union Pairs) \intersect DOMAIN subscribers,
                      NEW b \in subscribers[x]
               PROVE  /\ queue'[<<x, b>>] # 0
                      /\ \A m \in Range(content[<<<<x, b>>, queue'[<<x, b>>]>>]) : m > since[<<x, b>>]
    BY <1>1 DEF NothingStale
  <2>1. /\ b \in Agents /\ queue[<<x, b>>] \in Slots
        /\ \A m \in Range(content[<<<<x, b>>, queue[<<x, b>>]>>]) : m > since[<<x, b>>]
    BY SubscriberQueue
  <2>2. queue'[<<x, b>>] = queue[<<x, b>>]
    BY <1>5, <2>1
  <2> QED BY <2>1, <2>2 DEF Slots
<1> QED BY <1>4, <1>6, <1>7 DEF StaleInv

\* A message that is taken is gone from its queue, and only from there.
LEMMA TakenSlots ==
  ASSUME TypeOK, TypeOK', HasQueue, InOrder, NEW c \in Calls, Take(c)
  PROVE  LET q == Held(c)
             m == call'[c].got
         IN  /\ q \in Objects /\ m \in Messages
             /\ Range(content[q]) = Range(content'[q]) \union {m} /\ m \notin Range(content'[q])
             /\ content[q] # <<>>
             /\ \A x \in Objects \ {q} : content'[x] = content[x]
             /\ call[c].got = 0 /\ call'[c].key = call[c].key
             /\ \A d \in Calls \ {c} : call'[d] = call[d]
<1> DEFINE q == Held(c)
           s == content[q]
           t == content'[q]
<1>1. /\ q \in Objects /\ s \in Seq(Messages) /\ Len(s) \in Nat \ {0}
      /\ call'[c] = [call[c] EXCEPT !.got = s[1]]
      /\ \A d \in Calls \ {c} : call'[d] = call[d]
      /\ \A x \in Objects \ {q} : content'[x] = content[x]
      /\ Len(t) = Len(s) - 1
      /\ \A i \in 1..(Len(s) - 1) : t[i] = s[i + 1]
      /\ \A i \in 2..Len(s) : s[1] < s[i]
  BY Taken
<1>2. t \in Seq(Messages)
  BY <1>1 DEF TypeOK
<1>3. call[c] \in CallRecord /\ call[c].got = 0 /\ s # <<>>
  BY DEF TypeOK, Take
<1>4. call'[c].got = s[1] /\ call'[c].key = call[c].key
  BY <1>1, <1>3 DEF CallRecord
<1> HIDE DEF q, s, t
<1>5. Range(s) = Range(t) \union {s[1]} /\ s[1] \notin Range(t) /\ s[1] \in Messages
  BY <1>1, <1>2, RangeTail
<1> QED BY <1>1, <1>3, <1>4, <1>5 DEF q, s, t

\* ... and free of what is older than its subscription.
LEMMA StaleTake ==
  ASSUME TypeOK, TypeOK', HasQueue, InOrder, StaleInv, NEW c \in Calls, Take(c) PROVE StaleInv'
<1>1. UNCHANGED <<subscribers, queue, drops, sent, since>>
  BY DEF Take
<1>2. /\ \A x \in Objects : Range(content'[x]) \subseteq Range(content[x])
      /\ \A x \in Objects : content[x] = <<>> => content'[x] = <<>>
  <2>1. /\ \A x \in Objects \ {Held(c)} : content'[x] = content[x]
        /\ Range(content'[Held(c)]) \subseteq Range(content[Held(c)]) /\ content[Held(c)] # <<>>
    BY TakenSlots
  <2> QED BY <2>1
<1>3. \A k \in Keys, i \in Slots : <<k, i>> \in Objects
  BY DEF Objects, Slots
<1>4. FreshObjects'
  BY <1>1, <1>2, <1>3 DEF StaleInv, FreshObjects
<1>5. QueuesOfSubscribers' /\ SincePast'
  BY <1>1 DEF StaleInv, QueuesOfSubscribers, SincePast
<1>6. NothingStale'
  <2> SUFFICES ASSUME NEW x \in (Topics \union Pairs) \intersect DOMAIN subscribers,
                      NEW b \in subscribers[x]
               PROVE  /\ queue[<<x, b>>] # 0
                      /\ \A m \in Range(content'[<<<<x, b>>, queue[<<x, b>>]>>]) : m > since[<<x, b>>]
    BY <1>1 DEF NothingStale
  <2>1. /\ <<x, b>> \in Keys /\ queue[<<x, b>>] \in Slots
        /\ \A m \in Range(content[<<<<x, b>>, queue[<<x, b>>]>>]) : m > since[<<x, b>>]
    BY SubscriberQueue
  <2>2. <<<<x, b>>, queue[<<x, b>>]>> \in Objects /\ queue[<<x, b>>] # 0
    BY <2>1 DEF Objects, Slots
  <2> QED BY <1>2, <2>1, <2>2
<1> QED BY <1>4, <1>5, <1>6 DEF StaleInv

\* No step puts an old message into a subscriber's queue.
LEMMA NextStale ==
  TypeOK /\ TypeOK' /\ HasQueue /\ InOrder /\ StaleInv /\ [Next]_vars => StaleInv'
<1> SUFFICES ASSUME TypeOK, TypeOK', HasQueue, InOrder, StaleInv, [Next]_vars PROVE StaleInv'
  OBVIOUS
<1>a. env.channels \subseteq Channels /\ env.agents \subseteq Agents
  BY Constants DEF TypeOK
<1>1. CASE UNCHANGED vars \/ Stop
  BY <1>1, StaleQuiet DEF vars, bus, Stop
<1>2. ASSUME NEW c \in Calls, Wake(c) \/ Cancelled(c) PROVE StaleInv'
  BY <1>2, StaleQuiet DEF Wake, Cancelled, bus
<1> QED BY <1>1, <1>2, <1>a, StaleStart, StaleCreate, StaleSubscribe, StaleUnsubscribe,
           StalePublish, StaleSendDirect, StaleReceive, StaleTake DEF Next

\* All of it so far is inductive.
LEMMA QueuesAlways == Spec => [](TypeOK /\ HasQueue /\ InOrder /\ Past /\ StaleInv)
<1>1. Init => StaleInv
  <2> SUFFICES ASSUME Init PROVE StaleInv
    OBVIOUS
  <2>1. /\ DOMAIN subscribers = {} /\ drops = 0 /\ sent = 0
        /\ \A k \in Keys : queue[k] = 0 /\ since[k] = 0
        /\ \A q \in Objects : content[q] = <<>>
    BY DEF Init
  <2>2. \A k \in Keys, i \in Slots : <<k, i>> \in Objects
    BY DEF Objects, Slots
  <2>3. \A ch \in Topics \union Pairs, a \in Agents : <<ch, a>> \in Keys
    BY DEF Keys, Channels
  <2>4. FreshObjects
    BY <2>1, <2>2 DEF FreshObjects
  <2>5. QueuesOfSubscribers
    BY <2>1, <2>3 DEF QueuesOfSubscribers
  <2>6. SincePast /\ NothingStale
    BY <2>1 DEF SincePast, NothingStale
  <2> QED BY <2>4, <2>5, <2>6 DEF StaleInv
<1>2. TypeOK /\ TypeOK' /\ HasQueue /\ InOrder /\ StaleInv /\ [Next]_vars => StaleInv'
  BY NextStale
<1> QED BY <1>1, <1>2, Receivers, OrderAlways, PTL DEF Spec

\* A subscriber never finds a message from before its subscription in its queue,
\* however often it left and came back and the bus was restarted.
THEOREM SubscribersStartClean == Spec => []NothingStale
<1>1. StaleInv => NothingStale
  BY DEF StaleInv
<1> QED BY <1>1, QueuesAlways, PTL

-----------------------------------------------------------------------------
(* Every delivered message is in one place                                 *)

InSlot(m, k, i)  == m \in Range(content[<<k, i>>])
Has(c, m, k)     == call[c].key = k /\ call[c].got = m

\* What was reported as delivered is in a queue or with a receiver, and nowhere else.
Somewhere(m, k) == (\E i \in Slots : InSlot(m, k, i)) \/ \E c \in Calls : Has(c, m, k)
NowhereElse(m, k) ==
  /\ \A i, j \in Slots : InSlot(m, k, i) /\ InSlot(m, k, j) => i = j
  /\ \A c, d \in Calls : Has(c, m, k) /\ Has(d, m, k) => c = d
  /\ \A i \in Slots, c \in Calls : ~(InSlot(m, k, i) /\ Has(c, m, k))
OnePlace ==
  \A m \in Messages, k \in Keys : <<m, k>> \in delivered => Somewhere(m, k) /\ NowhereElse(m, k)

\* Messages in queues and with receivers have been sent.
LEMMA NotYetSent ==
  ASSUME TypeOK, Past, NEW m \in Messages, m > sent, NEW k \in Keys
  PROVE  (\A i \in Slots : ~InSlot(m, k, i)) /\ \A c \in Calls : ~Has(c, m, k)
<1>1. ASSUME NEW i \in Slots, InSlot(m, k, i) PROVE FALSE
  <2>1. <<k, i>> \in Objects
    BY DEF Objects, Slots
  <2>2. content[<<k, i>>] \in Seq(Messages)
    BY <2>1 DEF TypeOK
  <2>3. PICK j \in 1..Len(content[<<k, i>>]) : m = content[<<k, i>>][j]
    BY <1>1, <2>2 DEF InSlot, Range
  <2>4. m <= sent
    BY <2>1, <2>3 DEF Past
  <2> QED BY <2>4 DEF TypeOK, Messages
<1>2. ASSUME NEW c \in Calls, Has(c, m, k) PROVE FALSE
  BY <1>2 DEF Has, Past, TypeOK, Messages
<1> QED BY <1>1, <1>2

\* Steps that move no message.
LEMMA PlaceQuiet ==
  ASSUME OnePlace, UNCHANGED <<content, delivered>>,
         \A c \in Calls : \/ call'[c].key = call[c].key /\ call'[c].got = call[c].got
                          \/ call[c].got = 0 /\ call'[c].got = 0
  PROVE  OnePlace'
<1> SUFFICES ASSUME NEW m \in Messages, NEW k \in Keys, <<m, k>> \in delivered
             PROVE  (Somewhere(m, k) /\ NowhereElse(m, k))'
  BY DEF OnePlace
<1>1. \A i \in Slots : InSlot(m, k, i)' <=> InSlot(m, k, i)
  BY DEF InSlot
<1>2. \A c \in Calls : Has(c, m, k)' <=> Has(c, m, k)
  BY DEF Has, Messages
<1>3. Somewhere(m, k) /\ NowhereElse(m, k)
  BY DEF OnePlace
<1> QED BY <1>1, <1>2, <1>3 DEF Somewhere, NowhereElse

\* A message that is published goes to one queue of each key that it reaches.
LEMMA PlaceDeliver ==
  ASSUME TypeOK, Past, OnePlace, NEW ks \in SUBSET Keys, sent < MaxMessages,
         Deliver(ks, sent + 1), call' = call
  PROVE  OnePlace'
<1>0. sent + 1 \in Messages /\ sent + 1 > sent /\ sent \in Nat
  BY Constants DEF TypeOK, Messages
<1> SUFFICES ASSUME NEW m \in Messages, NEW k \in Keys, <<m, k>> \in delivered'
             PROVE  (Somewhere(m, k) /\ NowhereElse(m, k))'
  BY DEF OnePlace
<1>1. \A c \in Calls : Has(c, m, k)' <=> Has(c, m, k)
  BY DEF Has
<1>2. ASSUME NEW i \in Slots
      PROVE  InSlot(m, k, i)' <=> InSlot(m, k, i) \/ (m = sent + 1 /\ k \in ks /\ i = Object(k) /\ ~Full(k))
  <2>1. Range(content'[<<k, i>>]) = IF k \in ks /\ i = Object(k) /\ ~Full(k)
                                    THEN Range(content[<<k, i>>]) \union {sent + 1}
                                    ELSE Range(content[<<k, i>>])
    BY <1>0, DeliverSlots, ZenonT(30)
  <2> QED BY <2>1 DEF InSlot
<1>3. CASE m = sent + 1
  <2>1. (\A i \in Slots : ~InSlot(m, k, i)) /\ \A c \in Calls : ~Has(c, m, k)
    BY <1>0, <1>3, NotYetSent
  <2>2. <<m, k>> \notin delivered
    BY <2>1 DEF OnePlace, Somewhere
  <2>3. k \in ks /\ ~Full(k)
    BY <2>2 DEF Deliver
  <2>4. Object(k) \in Slots
    BY EnsuredType DEF Deliver, Slots
  <2> QED BY <1>1, <1>2, <1>3, <2>1, <2>3, <2>4 DEF Somewhere, NowhereElse
<1>4. CASE m # sent + 1
  <2>1. <<m, k>> \in delivered
    BY <1>4 DEF Deliver
  <2>2. Somewhere(m, k) /\ NowhereElse(m, k)
    BY <2>1 DEF OnePlace
  <2> QED BY <1>1, <1>2, <1>4, <2>2 DEF Somewhere, NowhereElse
<1> QED BY <1>3, <1>4

\* A message that is taken moves from its queue to the receiver.
LEMMA PlaceTake ==
  ASSUME TypeOK, TypeOK', HasQueue, InOrder, OnePlace, NEW c \in Calls, Take(c)
  PROVE  OnePlace'
<1> DEFINE q == Held(c)
           n == call'[c].got
<1>1. /\ q \in Objects /\ n \in Messages
      /\ Range(content[q]) = Range(content'[q]) \union {n} /\ n \notin Range(content'[q])
      /\ \A x \in Objects \ {q} : content'[x] = content[x]
      /\ call[c].got = 0 /\ call'[c].key = call[c].key
      /\ \A d \in Calls \ {c} : call'[d] = call[d]
  BY TakenSlots
<1>2. delivered' = delivered
  BY DEF Take
<1>3. PICK l \in Keys, h \in Slots : q = <<l, h>> /\ call[c].key = l
  BY <1>1 DEF Held, Objects, Slots
<1> HIDE DEF q, n
<1> SUFFICES ASSUME NEW m \in Messages, NEW k \in Keys, <<m, k>> \in delivered
             PROVE  (Somewhere(m, k) /\ NowhereElse(m, k))'
  BY <1>2 DEF OnePlace
<1>4. ASSUME NEW i \in Slots
      PROVE  InSlot(m, k, i)' <=> InSlot(m, k, i) /\ ~(m = n /\ k = l /\ i = h)
  <2>1. <<k, i>> \in Objects
    BY DEF Objects, Slots
  <2>2. CASE k = l /\ i = h
    BY <1>1, <1>3, <2>2 DEF InSlot
  <2>3. CASE ~(k = l /\ i = h)
    <3>1. <<k, i>> # q
      BY <1>3, <2>3
    <3> QED BY <1>1, <2>1, <2>3, <3>1 DEF InSlot
  <2> QED BY <2>2, <2>3
<1>5. \A d \in Calls : Has(d, m, k)' <=> Has(d, m, k) \/ (d = c /\ m = n /\ k = l)
  <2>1. ~Has(c, m, k)
    BY <1>1 DEF Has, Messages
  <2>2. Has(c, m, k)' <=> m = n /\ k = l
    BY <1>1, <1>3 DEF Has, n
  <2>3. \A d \in Calls \ {c} : Has(d, m, k)' <=> Has(d, m, k)
    BY <1>1 DEF Has
  <2> QED BY <2>1, <2>2, <2>3
<1>6. Somewhere(m, k) /\ NowhereElse(m, k)
  BY DEF OnePlace
<1>7. CASE m = n /\ k = l
  <2>1. InSlot(m, k, h)
    BY <1>1, <1>3, <1>7 DEF InSlot
  <2> QED BY <1>4, <1>5, <1>6, <1>7, <2>1 DEF Somewhere, NowhereElse
<1>8. CASE ~(m = n /\ k = l)
  BY <1>4, <1>5, <1>6, <1>8 DEF Somewhere, NowhereElse
<1> QED BY <1>7, <1>8

\* No step loses a delivered message or makes a second copy of it.
LEMMA NextPlace ==
  TypeOK /\ TypeOK' /\ HasQueue /\ InOrder /\ Past /\ OnePlace /\ [Next]_vars => OnePlace'
<1> SUFFICES ASSUME TypeOK, TypeOK', HasQueue, InOrder, Past, OnePlace, [Next]_vars PROVE OnePlace'
  OBVIOUS
<1>a. ASSUME NEW c \in Calls PROVE call[c] \in CallRecord
  BY DEF TypeOK
<1>b. env.channels \subseteq Channels /\ env.agents \subseteq Agents
  BY Constants DEF TypeOK
<1>1. CASE UNCHANGED vars \/ Start \/ Stop
  BY <1>1, PlaceQuiet DEF vars, bus, Start, Stop
<1>2. ASSUME NEW ch \in Channels, CreateChannel(ch) PROVE OnePlace'
  BY <1>2, PlaceQuiet DEF CreateChannel
<1>3. ASSUME NEW ch \in Channels, NEW a \in Agents, Subscribe(ch, a) PROVE OnePlace'
  BY <1>3, PlaceQuiet DEF Subscribe
<1>4. ASSUME NEW ch \in Channels, NEW a \in Agents, Unsubscribe(ch, a) PROVE OnePlace'
  <2>1. ASSUME NEW c \in Calls PROVE call'[c].key = call[c].key /\ call'[c].got = call[c].got
    BY <1>4, <1>a DEF Unsubscribe, CallRecord
  <2> QED BY <1>4, <2>1, PlaceQuiet DEF Unsubscribe
<1>5. ASSUME NEW ch \in Channels, Publish(ch) PROVE OnePlace'
  <2>1. PICK ks \in SUBSET Keys : Deliver(ks, sent + 1)
    BY <1>5 DEF Publish, Keys, TypeOK, Exists
  <2> QED BY <1>5, <2>1, PlaceDeliver DEF Publish
<1>6. ASSUME NEW pair \in Pairs, SendDirect(pair) PROVE OnePlace'
  <2>1. {pair} \X pair \in SUBSET Keys
    BY Constants DEF Keys
  <2> QED BY <1>6, <2>1, PlaceDeliver DEF SendDirect
<1>7. ASSUME NEW c \in Calls, NEW ch \in Channels, NEW a \in Agents, Receive(c, ch, a) PROVE OnePlace'
  <2>1. call[c].got = 0 /\ call'[c].got = 0 /\ \A d \in Calls \ {c} : call'[d] = call[d]
    BY <1>7 DEF Receive, TypeOK, Idle, Past
  <2> QED BY <1>7, <2>1, PlaceQuiet DEF Receive
<1>8. ASSUME NEW c \in Calls, Take(c) PROVE OnePlace'
  BY <1>8, PlaceTake
<1>9. ASSUME NEW c \in Calls, Wake(c) \/ Cancelled(c) PROVE OnePlace'
  <2>1. PICK p : call' = [call EXCEPT ![c] = [call[c] EXCEPT !.pc = p]]
    BY <1>9 DEF Wake, Cancelled
  <2>2. \A d \in Calls : call'[d].key = call[d].key /\ call'[d].got = call[d].got
    BY <1>a, <2>1 DEF TypeOK, CallRecord
  <2> QED BY <1>9, <2>2, PlaceQuiet DEF Wake, Cancelled, bus
<1> QED BY <1>1, <1>2, <1>3, <1>4, <1>5, <1>6, <1>7, <1>8, <1>9, <1>b DEF Next

\* What was reported as delivered is in exactly one queue or with exactly one
\* receiver: neither lost nor handed out twice, through every race of receivers,
\* timeouts, departures and restarts.
THEOREM DeliveredExactlyOnce == Spec => []DeliveredOnce
<1>1. Init => OnePlace
  BY DEF Init, OnePlace
<1>2. TypeOK /\ TypeOK' /\ HasQueue /\ InOrder /\ Past /\ OnePlace /\ [Next]_vars => OnePlace'
  BY NextPlace
<1>3. TypeOK /\ OnePlace => DeliveredOnce
  <2> SUFFICES ASSUME TypeOK, OnePlace, NEW mk \in delivered
               PROVE  Cardinality(Places(mk[1], mk[2])) + Cardinality(Holders(mk[1], mk[2])) = 1
    BY DEF DeliveredOnce
  <2>1. PICK m \in Messages, k \in Keys : mk = <<m, k>>
    BY DEF TypeOK
  <2>2. Somewhere(m, k) /\ NowhereElse(m, k) /\ mk[1] = m /\ mk[2] = k
    BY <2>1 DEF OnePlace
  <2>3. Places(m, k) = {q \in Objects : \E i \in Slots : q = <<k, i>> /\ InSlot(m, k, i)}
    <3>1. ASSUME NEW q \in Objects
          PROVE  q[1] = k /\ m \in Range(content[q])
                 <=> \E i \in Slots : q = <<k, i>> /\ InSlot(m, k, i)
      <4>1. PICK l \in Keys, i \in Slots : q = <<l, i>>
        BY DEF Objects, Slots
      <4>2. q[1] = l
        BY <4>1
      <4> QED BY <4>1, <4>2 DEF InSlot
    <3> QED BY <3>1 DEF Places, TypeOK
  <2>4. Holders(m, k) = {c \in Calls : Has(c, m, k)}
    BY DEF Holders, Has
  <2>5. Cardinality({}) = 0 /\ \A x : Cardinality({x}) = 1
    BY FS_EmptySet, FS_Singleton
  <2>6. CASE \E i \in Slots : InSlot(m, k, i)
    <3>1. PICK i \in Slots : InSlot(m, k, i)
      BY <2>6
    <3>2. <<k, i>> \in Objects
      BY DEF Objects, Slots
    <3>3. Places(m, k) = {<<k, i>>} /\ Holders(m, k) = {}
      BY <2>2, <2>3, <2>4, <3>1, <3>2 DEF NowhereElse
    <3>4. Cardinality(Places(m, k)) = 1 /\ Cardinality(Holders(m, k)) = 0
      BY <2>5, <3>3
    <3> QED BY <2>2, <3>4
  <2>7. CASE ~\E i \in Slots : InSlot(m, k, i)
    <3>1. PICK c \in Calls : Has(c, m, k)
      BY <2>2, <2>7 DEF Somewhere
    <3>2. Places(m, k) = {} /\ Holders(m, k) = {c}
      BY <2>2, <2>3, <2>4, <2>7, <3>1 DEF NowhereElse
    <3>3. Cardinality(Places(m, k)) = 0 /\ Cardinality(Holders(m, k)) = 1
      BY <2>5, <3>2
    <3> QED BY <2>2, <3>3
  <2> QED BY <2>6, <2>7
<1> QED BY <1>1, <1>2, <1>3, Receivers, OrderAlways, PTL DEF Spec

-----------------------------------------------------------------------------
(* The ceiling                                                             *)

\* An admitted batch of agents leaves the count within the ceiling.
LEMMA AdmittedFits ==
  ASSUME CeilingHolds, NEW agents, Admitted(agents), known' = known \union agents
  PROVE  CeilingHolds'
<1>1. CASE agents \subseteq known
  <2>1. known' = known
    BY <1>1
  <2> QED BY <2>1 DEF CeilingHolds
<1>2. CASE Cardinality(known \union agents) <= Ceiling
  BY <1>2 DEF CeilingHolds
<1> QED BY <1>1, <1>2 DEF Admitted

\* Under hard_block the agents on the bus never exceed max_agent_connections, by
\* whatever sequence of subscriptions and direct messages they join.
THEOREM CeilingKept == Spec => []CeilingHolds
<1>1. Init => CeilingHolds
  BY FS_EmptySet, Constants DEF Init, CeilingHolds
<1>2. CeilingHolds /\ [Next]_vars => CeilingHolds'
  <2> SUFFICES ASSUME CeilingHolds, [Next]_vars PROVE CeilingHolds'
    OBVIOUS
  <2>1. CASE UNCHANGED known
    BY <2>1 DEF CeilingHolds
  <2>2. CASE Start
    BY <2>2, FS_EmptySet, Constants DEF Start, CeilingHolds
  <2>3. ASSUME NEW ch, NEW a, Subscribe(ch, a) PROVE CeilingHolds'
    BY <2>3, AdmittedFits DEF Subscribe
  <2>4. ASSUME NEW pair, SendDirect(pair) PROVE CeilingHolds'
    BY <2>4, AdmittedFits DEF SendDirect
  <2> QED BY <2>1, <2>2, <2>3, <2>4
          DEF Next, vars, bus, Stop, CreateChannel, Unsubscribe, Publish, Receive, Take, Wake,
              Cancelled
<1> QED BY <1>1, <1>2, PTL DEF Spec
=============================================================================
