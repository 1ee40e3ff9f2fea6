--------------------------- MODULE PushQueueProofs ---------------------------
(***************************************************************************)
(* Proofs about PushQueue for any number of callers, stops and workers and *)
(* any set of failures.                                                    *)
(***************************************************************************)
EXTENDS PushQueue, FiniteSetTheorems, TLAPS

\* Workers and their queues are numbered as they are started; a worker that has
\* begun has a queue, and a stop() that drains has a worker.
Started ==
  /\ \A g \in Gens : worker[g].pc = "none" <=> g > gens
  /\ \A g \in Gens : g > gens => queues[g] = <<>>
  /\ \A g \in Gens : worker[g].pc \in {"get", "merge", "push"} => worker[g].queue \in Gens
  /\ \A g \in Gens : worker[g].item \in Callers <=> Writing(g)
  /\ \A s \in Stoppers : stopper[s].pc = "drain" => stopper[s].gen \in 1..gens

Waiting     == {"waiting", "cancelled"}
IsQueued(c) == \E q \in Gens : c \in Range(queues[q])

\* A caller's work is in one place: queued once, or with one worker, or done with.
QueuedOnce ==
  /\ \A q, r \in Gens : \A i \in DOMAIN queues[q], j \in DOMAIN queues[r] :
       queues[q][i] # Sentinel /\ queues[q][i] = queues[r][j] => q = r /\ i = j
  /\ \A c \in Callers : IsQueued(c) =>
       answer[c] \in Waiting /\ c \notin Range(main) /\ \A g \in Gens : worker[g].item # c
  /\ \A g \in Gens : Writing(g) =>
       /\ answer[worker[g].item] \in Waiting
       /\ worker[g].item \in Range(main) <=> worker[g].pc = "push"
       /\ \A h \in Gens : worker[h].item = worker[g].item => h = g

\* What the branch holds was merged once, and the backend has nothing else.
BranchTrue ==
  /\ pushed \subseteq Range(main) /\ IsFiniteSet(Range(main))
  /\ AnswerTellsTruth

\* Callers come one after the other.
InTurn == \A b, c \in Callers : b < c /\ answer[b] = "idle" => answer[c] = "idle"

\* Where no start() comes into a drain, the only live worker is the current one,
\* which works on its own queue, and work waits behind what came before it.
Alone ==
  "restart_in_drain" \notin faults =>
    \A g \in Gens : Live(g) => g = current /\ (worker[g].pc # "new" => worker[g].queue = g)

\* The order of the branch, and of what a worker has before it.
InOrder(m, w, q) ==
  /\ w.pc = "merge" => \A x \in Range(m) : x < w.item
  /\ \A i \in DOMAIN q : q[i] # Sentinel =>
       /\ \A x \in Range(m) : x < q[i]
       /\ w.item < q[i]
       /\ \A j \in DOMAIN q : j < i => q[j] < q[i]

Ascending ==
  "restart_in_drain" \notin faults =>
    /\ \A i, j \in DOMAIN main : i < j => main[i] < main[j]
    /\ \A g \in Gens : Live(g) => InOrder(main, worker[g], queues[g])

Unharmed == {"drain_timeout", "stop_cancelled", "critical", "restart_in_drain"} \intersect faults = {}

\* Whoever waits is served by the current worker, which ends only by a sentinel,
\* and a stop() that queues one closes the queue.
Served ==
  Unharmed =>
    /\ \A c \in Callers : answer[c] = "waiting" =>
         \E g \in Gens : g = current /\ Live(g) /\ (worker[g].item = c \/ c \in Range(queues[g]))
    /\ \A g \in Gens : g = current /\ ~closing => Live(g) /\ Sentinel \notin Range(queues[g])

-----------------------------------------------------------------------------
(* Sequences                                                               *)

\* What Append adds, and what Head and Tail leave.
LEMMA AppendFacts ==
  ASSUME NEW S, NEW s \in Seq(S), NEW e \in S
  PROVE  /\ Append(s, e) \in Seq(S)
         /\ DOMAIN s = 1..Len(s) /\ Len(s) \in Nat /\ Len(Append(s, e)) = Len(s) + 1
         /\ DOMAIN Append(s, e) = 1..(Len(s) + 1)
         /\ \A i \in 1..Len(s) : Append(s, e)[i] = s[i]
         /\ Append(s, e)[Len(s) + 1] = e
         /\ Range(Append(s, e)) = Range(s) \union {e}
<1>1. /\ Append(s, e) \in Seq(S) /\ DOMAIN s = 1..Len(s) /\ Len(s) \in Nat
      /\ Len(Append(s, e)) = Len(s) + 1
      /\ DOMAIN Append(s, e) = 1..(Len(s) + 1)
      /\ \A i \in 1..Len(s) : Append(s, e)[i] = s[i]
      /\ Append(s, e)[Len(s) + 1] = e
  OBVIOUS
<1>2. Range(Append(s, e)) \subseteq Range(s) \union {e}
  BY <1>1 DEF Range
<1>3. Range(s) \union {e} \subseteq Range(Append(s, e))
  BY <1>1 DEF Range
<1> QED BY <1>1, <1>2, <1>3

\* A queue without its head.
LEMMA TailFacts ==
  ASSUME NEW S, NEW s \in Seq(S), s # <<>>
  PROVE  /\ Tail(s) \in Seq(S) /\ Head(s) \in S /\ Head(s) = s[1] /\ 1 \in DOMAIN s
         /\ \A i \in DOMAIN Tail(s) : i \in Nat /\ i >= 1 /\ i + 1 \in DOMAIN s /\ Tail(s)[i] = s[i + 1]
         /\ DOMAIN s \subseteq Nat
  OBVIOUS

\* An empty sequence holds nothing.
LEMMA EmptyFacts == ASSUME NEW e, e = <<>> PROVE DOMAIN e = {} /\ Range(e) = {} /\ \A S : e \in Seq(S)
  BY DEF Range

-----------------------------------------------------------------------------
(* What the steps do to a worker                                           *)

\* The sets the types are made of.
LEMMA Sets ==
  /\ MaxCalls \in Nat /\ MaxStops \in Nat /\ MaxGen \in Nat \ {0}
  /\ Callers = 1..MaxCalls /\ Stoppers = 1..MaxStops /\ Gens = 1..MaxGen
  /\ Gens \subseteq 0..MaxGen /\ NoCaller = 0 /\ Sentinel = 0 /\ NoCaller \notin Callers
  /\ Callers \subseteq Nat \ {0}
  BY PushQueueAssumption DEF Callers, Stoppers, Gens, NoCaller, Sentinel

\* A queued item that is no sentinel is a caller's.
LEMMA QueueItems ==
  ASSUME TypeOK, NEW q \in Gens
  PROVE  /\ queues[q] \in Seq(Callers \union {Sentinel})
         /\ \A i \in DOMAIN queues[q] : queues[q][i] \in Callers \union {Sentinel}
         /\ Queued(q) = Range(queues[q]) \intersect Callers
         /\ \A c \in Callers : c \in Range(queues[q]) => IsQueued(c)
<1>1. queues[q] \in Seq(Callers \union {Sentinel})
  BY DEF TypeOK
<1>2. \A i \in DOMAIN queues[q] : queues[q][i] \in Callers \union {Sentinel}
  BY <1>1
<1>3. Range(queues[q]) \subseteq Callers \union {Sentinel}
  BY <1>2 DEF Range
<1> QED BY <1>1, <1>2, <1>3, Sets DEF Queued, IsQueued

\* The record of one worker changes.
LEMMA WorkerFacts ==
  ASSUME TypeOK, NEW g \in Gens, NEW r \in WorkerRecord, worker' = [worker EXCEPT ![g] = r]
  PROVE  /\ worker' \in [Gens -> WorkerRecord] /\ worker'[g] = r
         /\ \A h \in Gens \ {g} : worker'[h] = worker[h]
  BY DEF TypeOK

\* The sentinel, a critical error or a cancellation ends a worker.
LEMMA ExitFacts ==
  ASSUME TypeOK, NEW g \in Gens, worker[g].queue \in Gens, NEW p \in Ended,
         NEW ans \in [Callers -> AnswerState], Exit(g, p, ans)
  PROVE  /\ worker' \in [Gens -> WorkerRecord]
         /\ worker'[g].pc = p /\ worker'[g].queue = worker[g].queue /\ worker'[g].item = NoCaller
         /\ \A h \in Gens \ {g} : worker'[h] = worker[h]
         /\ queues' \in [Gens -> Seq(Callers \union {Sentinel})]
         /\ queues'[worker[g].queue] = <<>>
         /\ \A q \in Gens \ {worker[g].queue} : queues'[q] = queues[q]
         /\ answer' \in [Callers -> AnswerState]
         /\ \A c \in Callers : \/ answer'[c] = ans[c] /\ (c \in Queued(worker[g].queue) => ans[c] # "waiting")
                               \/ /\ c \in Queued(worker[g].queue) /\ ans[c] = "waiting"
                                  /\ answer'[c] = "stopped"
<1> DEFINE r == [worker[g] EXCEPT !.pc = p, !.item = NoCaller]
<1>1. r \in WorkerRecord /\ r.pc = p /\ r.queue = worker[g].queue /\ r.item = NoCaller
  BY DEF TypeOK, WorkerRecord
<1>2. worker' = [worker EXCEPT ![g] = r]
  BY DEF Exit
<1>3. /\ worker' \in [Gens -> WorkerRecord] /\ worker'[g] = r
      /\ \A h \in Gens \ {g} : worker'[h] = worker[h]
  <2> HIDE DEF r
  <2> QED BY <1>1, <1>2, WorkerFacts
<1>4. /\ queues' \in [Gens -> Seq(Callers \union {Sentinel})]
      /\ queues'[worker[g].queue] = <<>>
      /\ \A q \in Gens \ {worker[g].queue} : queues'[q] = queues[q]
  <2>1. queues' = [queues EXCEPT ![worker[g].queue] = <<>>] /\ <<>> \in Seq(Callers \union {Sentinel})
    BY DEF Exit
  <2> QED BY <2>1 DEF TypeOK
<1>5. /\ answer' \in [Callers -> AnswerState]
      /\ \A c \in Callers : \/ answer'[c] = ans[c] /\ (c \in Queued(worker[g].queue) => ans[c] # "waiting")
                            \/ /\ c \in Queued(worker[g].queue) /\ ans[c] = "waiting"
                               /\ answer'[c] = "stopped"
  <2>1. answer' = FailQueued(ans, worker[g].queue) /\ "stopped" \in AnswerState
    BY DEF Exit, AnswerState, Answers
  <2> QED BY <2>1 DEF FailQueued
<1> QED BY <1>1, <1>3, <1>4, <1>5

\* Futures are resolved.
LEMMA ResolveFacts ==
  ASSUME TypeOK, NEW c \in Callers, NEW a \in AnswerState
  PROVE  /\ Resolve({c}, a) \in [Callers -> AnswerState]
         /\ Resolve({c}, a)[c] = (IF answer[c] = "waiting" THEN a ELSE answer[c])
         /\ \A b \in Callers \ {c} : Resolve({c}, a)[b] = answer[b]
  BY DEF Resolve, TypeOK

\* A worker answers its caller and goes back to the queue.
LEMMA NextItemFacts ==
  ASSUME TypeOK, NEW g \in Gens, worker[g].item \in Callers, NEW a \in AnswerState, NextItem(g, a)
  PROVE  /\ worker' \in [Gens -> WorkerRecord]
         /\ worker'[g].pc = "get" /\ worker'[g].queue = worker[g].queue /\ worker'[g].item = NoCaller
         /\ \A h \in Gens \ {g} : worker'[h] = worker[h]
         /\ queues' = queues
         /\ answer' \in [Callers -> AnswerState]
         /\ answer'[worker[g].item] = (IF answer[worker[g].item] = "waiting" THEN a
                                       ELSE answer[worker[g].item])
         /\ \A c \in Callers \ {worker[g].item} : answer'[c] = answer[c]
<1> DEFINE r == [worker[g] EXCEPT !.pc = "get", !.item = NoCaller]
<1>1. r \in WorkerRecord /\ r.pc = "get" /\ r.queue = worker[g].queue /\ r.item = NoCaller
  BY DEF TypeOK, WorkerRecord
<1>2. worker' = [worker EXCEPT ![g] = r] /\ queues' = queues /\ answer' = Resolve({worker[g].item}, a)
  BY DEF NextItem
<1>3. /\ worker' \in [Gens -> WorkerRecord] /\ worker'[g] = r
      /\ \A h \in Gens \ {g} : worker'[h] = worker[h]
  <2> HIDE DEF r
  <2> QED BY <1>1, <1>2, WorkerFacts
<1> QED BY <1>1, <1>2, <1>3, ResolveFacts

\* Its next item is taken from the queue.
LEMMA TakeFacts ==
  ASSUME TypeOK, NEW g \in Gens, worker[g].queue \in Gens, queues[worker[g].queue] # <<>>,
         Head(queues[worker[g].queue]) # Sentinel, Get(g)
  PROVE  /\ worker' \in [Gens -> WorkerRecord]
         /\ worker'[g].pc = "merge" /\ worker'[g].queue = worker[g].queue
         /\ worker'[g].item = Head(queues[worker[g].queue])
         /\ Head(queues[worker[g].queue]) \in Callers
         /\ \A h \in Gens \ {g} : worker'[h] = worker[h]
         /\ queues' \in [Gens -> Seq(Callers \union {Sentinel})]
         /\ queues'[worker[g].queue] = Tail(queues[worker[g].queue])
         /\ \A q \in Gens \ {worker[g].queue} : queues'[q] = queues[q]
         /\ answer' = answer
<1> DEFINE q == worker[g].queue
           r == [worker[g] EXCEPT !.pc = "merge", !.item = Head(queues[q])]
<1>1. Head(queues[q]) \in Callers /\ Tail(queues[q]) \in Seq(Callers \union {Sentinel})
  BY QueueItems, TailFacts
<1>2. r \in WorkerRecord /\ r.pc = "merge" /\ r.queue = worker[g].queue /\ r.item = Head(queues[q])
  BY <1>1 DEF TypeOK, WorkerRecord
<1>3. worker' = [worker EXCEPT ![g] = r] /\ queues' = [queues EXCEPT ![q] = Tail(queues[q])] /\ answer' = answer
  BY DEF Get
<1>4. /\ worker' \in [Gens -> WorkerRecord] /\ worker'[g] = r
      /\ \A h \in Gens \ {g} : worker'[h] = worker[h]
  <2> HIDE DEF r
  <2> QED BY <1>2, <1>3, WorkerFacts
<1> QED BY <1>1, <1>2, <1>3, <1>4 DEF TypeOK

\* A worker's pc moves on, alone.
LEMMA MoveFacts ==
  ASSUME TypeOK, NEW g \in Gens,
         NEW p \in {"none", "new", "get", "merge", "push"} \union Ended,
         worker' = [worker EXCEPT ![g].pc = p]
  PROVE  /\ worker' \in [Gens -> WorkerRecord]
         /\ worker'[g].pc = p /\ worker'[g].queue = worker[g].queue /\ worker'[g].item = worker[g].item
         /\ \A h \in Gens \ {g} : worker'[h] = worker[h]
<1> DEFINE r == [worker[g] EXCEPT !.pc = p]
<1>1. r \in WorkerRecord /\ r.pc = p /\ r.queue = worker[g].queue /\ r.item = worker[g].item
  BY DEF TypeOK, WorkerRecord
<1>2. worker' = [worker EXCEPT ![g] = r]
  OBVIOUS
<1>3. /\ worker' \in [Gens -> WorkerRecord] /\ worker'[g] = r
      /\ \A h \in Gens \ {g} : worker'[h] = worker[h]
  <2> HIDE DEF r
  <2> QED BY <1>1, <1>2, WorkerFacts
<1> QED BY <1>1, <1>3

\* ... or begins on the queue that is current.
LEMMA BeginFacts ==
  ASSUME TypeOK, NEW g \in Gens, WorkerBegin(g)
  PROVE  /\ worker' \in [Gens -> WorkerRecord]
         /\ worker'[g].pc = (IF current = 0 THEN "done" ELSE "get") /\ worker'[g].queue = current
         /\ worker'[g].item = worker[g].item
         /\ \A h \in Gens \ {g} : worker'[h] = worker[h]
<1> DEFINE p == IF current = 0 THEN "done" ELSE "get"
           r == [worker[g] EXCEPT !.pc = p, !.queue = current]
<1>0. current \in 0..MaxGen
  BY Sets DEF TypeOK
<1>1. r \in WorkerRecord /\ r.pc = p /\ r.queue = current /\ r.item = worker[g].item
  BY <1>0 DEF TypeOK, WorkerRecord, Ended
<1>2. worker' = [worker EXCEPT ![g] = r]
  BY DEF WorkerBegin
<1>3. /\ worker' \in [Gens -> WorkerRecord] /\ worker'[g] = r
      /\ \A h \in Gens \ {g} : worker'[h] = worker[h]
  <2> HIDE DEF r, p
  <2> QED BY <1>1, <1>2, WorkerFacts
<1> QED BY <1>1, <1>3

-----------------------------------------------------------------------------
(* One place for every caller's work                                       *)

PlacesInv == TypeOK /\ Started /\ QueuedOnce /\ BranchTrue /\ InTurn

\* Nothing the invariant speaks of but the flags and the stops changes.
LEMMA PlacesKept ==
  ASSUME PlacesInv, UNCHANGED <<faults, gens, queues, worker, answer, main, pushed>>,
         closing' \in BOOLEAN, stopFailed' \in BOOLEAN, current' \in 0..gens,
         stopper' \in [Stoppers -> StopperRecord],
         \A s \in Stoppers : stopper'[s].pc = "drain" => stopper'[s].gen \in 1..gens
  PROVE  PlacesInv'
<1>1. TypeOK'
  BY DEF PlacesInv, TypeOK
<1>2. Started'
  BY DEF PlacesInv, Started, Writing
<1>3. QueuedOnce'
  BY DEF PlacesInv, QueuedOnce, Writing, IsQueued
<1>4. BranchTrue' /\ InTurn'
  BY DEF PlacesInv, BranchTrue, InTurn, AnswerTellsTruth
<1> QED BY <1>1, <1>2, <1>3, <1>4 DEF PlacesInv

\* A merge commits once what was not on the branch.
LEMMA CommitFacts ==
  ASSUME PlacesInv, NEW c \in Callers, c \notin Range(main), main' = Append(main, c)
  PROVE  /\ main' \in Seq(Callers) /\ Range(main') = Range(main) \union {c}
         /\ IsFiniteSet(Range(main')) /\ Len(main') = Cardinality(Range(main'))
<1>1. /\ main \in Seq(Callers) /\ IsFiniteSet(Range(main)) /\ Len(main) = Cardinality(Range(main))
  BY DEF PlacesInv, TypeOK, BranchTrue, AnswerTellsTruth
<1>2. main' \in Seq(Callers) /\ Range(main') = Range(main) \union {c} /\ Len(main') = Len(main) + 1
  BY <1>1, AppendFacts
<1>3. IsFiniteSet(Range(main) \union {c}) /\ Cardinality(Range(main) \union {c}) = Cardinality(Range(main)) + 1
  BY <1>1, FS_AddElement
<1> QED BY <1>1, <1>2, <1>3

\* What a git command that did not return may have left behind.
LEMMA LandedFacts ==
  ASSUME PlacesInv, NEW g \in Gens, MayHaveLanded(g)
  PROVE  /\ main' \in Seq(Callers) /\ Range(main) \subseteq Range(main')
         /\ \A c \in Callers : c # worker[g].item => (c \in Range(main') <=> c \in Range(main))
         /\ IsFiniteSet(Range(main')) /\ Len(main') = Cardinality(Range(main'))
         /\ pushed \subseteq pushed' /\ pushed' \subseteq Range(main') /\ pushed' \subseteq Callers
<1> DEFINE k == worker[g].item
<1>1. /\ main \in Seq(Callers) /\ IsFiniteSet(Range(main)) /\ Len(main) = Cardinality(Range(main))
      /\ pushed \subseteq Range(main) /\ Range(main) \subseteq Callers
  BY DEF PlacesInv, TypeOK, BranchTrue, AnswerTellsTruth, Range
<1>2. CASE UNCHANGED <<main, pushed>>
  BY <1>1, <1>2
<1>3. CASE worker[g].pc = "merge" /\ main' = Append(main, k) /\ UNCHANGED pushed
  <2>1. k \in Callers /\ k \notin Range(main)
    BY <1>3 DEF PlacesInv, Started, QueuedOnce, Writing
  <2>2. /\ main' \in Seq(Callers) /\ Range(main') = Range(main) \union {k}
        /\ IsFiniteSet(Range(main')) /\ Len(main') = Cardinality(Range(main'))
    BY <1>3, <2>1, CommitFacts
  <2> QED BY <1>1, <1>3, <2>2
<1>4. CASE worker[g].pc = "push" /\ pushed' = Range(main) /\ UNCHANGED main
  BY <1>1, <1>4
<1> QED BY <1>2, <1>3, <1>4 DEF MayHaveLanded

\* A worker ends: by the sentinel, by a critical error or cancelled, its git
\* command done or not.
LEMMA QuitPlaces ==
  ASSUME PlacesInv, NEW g \in Gens, worker[g].pc \in {"get", "merge", "push"}, NEW p \in Ended, NEW ans,
         ans = answer \/ (Writing(g) /\ ans = Resolve({worker[g].item}, "critical")),
         Exit(g, p, ans), MayHaveLanded(g),
         UNCHANGED <<faults, closing, stopFailed, gens, current>>,
         stopper' \in [Stoppers -> StopperRecord],
         \A s \in Stoppers : stopper'[s].pc = stopper[s].pc /\ stopper'[s].gen = stopper[s].gen
  PROVE  PlacesInv'
<1> DEFINE k == worker[g].item
           q == worker[g].queue
<1>1. /\ TypeOK /\ q \in Gens /\ (k \in Callers <=> Writing(g))
      /\ worker[g].pc \in {"merge", "push"} <=> Writing(g)
  BY DEF PlacesInv, Started, Writing
<1>2. /\ ans \in [Callers -> AnswerState]
      /\ \A c \in Callers : c # k => ans[c] = answer[c]
      /\ k \in Callers => ans[k] \in Waiting \union {"critical"}
  <2>1. answer \in [Callers -> AnswerState] /\ "critical" \in AnswerState
    BY <1>1 DEF TypeOK, AnswerState, Answers
  <2>2. k \in Callers => answer[k] \in Waiting
    BY <1>1 DEF PlacesInv, QueuedOnce
  <2>3. CASE ans = answer
    BY <2>1, <2>2, <2>3
  <2>4. CASE Writing(g) /\ ans = Resolve({k}, "critical")
    <3>1. k \in Callers
      BY <1>1, <2>4
    <3>2. /\ ans \in [Callers -> AnswerState]
          /\ ans[k] = (IF answer[k] = "waiting" THEN "critical" ELSE answer[k])
          /\ \A b \in Callers \ {k} : ans[b] = answer[b]
      BY <1>1, <2>1, <2>4, <3>1, ResolveFacts
    <3> QED BY <2>2, <3>1, <3>2
  <2> QED BY <2>3, <2>4
<1>3. /\ worker' \in [Gens -> WorkerRecord]
      /\ worker'[g].pc = p /\ worker'[g].queue = q /\ worker'[g].item = NoCaller
      /\ \A h \in Gens \ {g} : worker'[h] = worker[h]
      /\ queues' \in [Gens -> Seq(Callers \union {Sentinel})]
      /\ queues'[q] = <<>>
      /\ \A r \in Gens \ {q} : queues'[r] = queues[r]
      /\ answer' \in [Callers -> AnswerState]
      /\ \A c \in Callers : \/ answer'[c] = ans[c]
                            \/ c \in Queued(q) /\ ans[c] = "waiting" /\ answer'[c] = "stopped"
  BY <1>1, <1>2, ExitFacts
<1>4. /\ main' \in Seq(Callers) /\ Range(main) \subseteq Range(main')
      /\ \A c \in Callers : c # k => (c \in Range(main') <=> c \in Range(main))
      /\ IsFiniteSet(Range(main')) /\ Len(main') = Cardinality(Range(main'))
      /\ pushed \subseteq pushed' /\ pushed' \subseteq Range(main') /\ pushed' \subseteq Callers
  BY <1>1, LandedFacts
<1>5. DOMAIN queues'[q] = {} /\ Range(queues'[q]) = {}
  BY <1>3, EmptyFacts
<1>6. p # "none" /\ p \notin {"get", "merge", "push"} /\ NoCaller \notin Callers
  BY Sets DEF Ended
<1>7. ASSUME NEW c \in Callers, IsQueued(c)' PROVE IsQueued(c) /\ c \notin Queued(q) /\ c # k
  <2>1. PICK r \in Gens : c \in Range(queues'[r])
    BY <1>7 DEF IsQueued
  <2>2. r # q /\ c \in Range(queues[r])
    BY <1>3, <1>5, <2>1
  <2>3. IsQueued(c)
    BY <2>2 DEF IsQueued
  <2>4. c \notin Range(queues[q])
    <3>1. SUFFICES ASSUME c \in Range(queues[q]) PROVE FALSE
      OBVIOUS
    <3>2. PICK i \in DOMAIN queues[q] : queues[q][i] = c
      BY <3>1 DEF Range
    <3>3. PICK j \in DOMAIN queues[r] : queues[r][j] = c
      BY <2>2 DEF Range
    <3>4. c # Sentinel
      BY Sets
    <3> QED BY <1>1, <2>2, <3>2, <3>3, <3>4 DEF PlacesInv, QueuedOnce
  <2>5. c # k
    BY <2>3 DEF PlacesInv, QueuedOnce
  <2> QED BY <2>3, <2>4, <2>5 DEF Queued
<1>8. TypeOK'
  BY <1>1, <1>3, <1>4 DEF TypeOK
<1>9. Started'
  <2>1. \A h \in Gens : (worker'[h].pc = "none" <=> h > gens) /\ (h > gens => queues'[h] = <<>>)
    <3>1. /\ \A h \in Gens : worker[h].pc = "none" <=> h > gens
          /\ \A h \in Gens : h > gens => queues[h] = <<>>
      BY DEF PlacesInv, Started
    <3>2. \A h \in Gens : worker'[h].pc = "none" <=> worker[h].pc = "none"
      BY <1>3, <1>6
    <3> QED BY <1>3, <3>1, <3>2
  <2>2. \A h \in Gens : worker'[h].pc \in {"get", "merge", "push"} => worker'[h].queue \in Gens
    BY <1>3, <1>6 DEF PlacesInv, Started
  <2>3. \A h \in Gens : worker'[h].item \in Callers <=> worker'[h].pc \in {"merge", "push"}
    <3>1. \A h \in Gens : worker[h].item \in Callers <=> worker[h].pc \in {"merge", "push"}
      BY DEF PlacesInv, Started, Writing
    <3>2. worker'[g].item \notin Callers /\ worker'[g].pc \notin {"merge", "push"}
      BY <1>3, <1>6
    <3>3. \A h \in Gens \ {g} : worker'[h] = worker[h]
      BY <1>3
    <3> QED BY <3>1, <3>2, <3>3
  <2>4. \A s \in Stoppers : stopper'[s].pc = "drain" => stopper'[s].gen \in 1..gens
    BY DEF PlacesInv, Started
  <2> QED BY <2>1, <2>2, <2>3, <2>4 DEF Started, Writing
<1>10. QueuedOnce'
  <2>1. ASSUME NEW a \in Gens, NEW r \in Gens, NEW i \in DOMAIN queues'[a], NEW j \in DOMAIN queues'[r],
               queues'[a][i] # Sentinel, queues'[a][i] = queues'[r][j]
        PROVE  a = r /\ i = j
    <3>1. queues'[a] = queues[a] /\ queues'[r] = queues[r]
      BY <1>3, <1>5
    <3> QED BY <2>1, <3>1 DEF PlacesInv, QueuedOnce
  <2>2. ASSUME NEW c \in Callers, IsQueued(c)'
        PROVE  answer'[c] \in Waiting /\ c \notin Range(main') /\ \A h \in Gens : worker'[h].item # c
    <3>0. IsQueued(c) /\ c \notin Queued(q) /\ c # k
      BY <1>7, <2>2
    <3>1. answer[c] \in Waiting /\ c \notin Range(main) /\ \A h \in Gens : worker[h].item # c
      BY <3>0 DEF PlacesInv, QueuedOnce
    <3>2. answer'[c] = answer[c]
      BY <1>2, <1>3, <3>0
    <3>3. \A h \in Gens : worker'[h].item # c
      BY <1>3, <1>6, <3>1
    <3> QED BY <1>4, <3>0, <3>1, <3>2, <3>3
  <2>3. ASSUME NEW h \in Gens, Writing(h)'
        PROVE  /\ answer'[worker'[h].item] \in Waiting
               /\ worker'[h].item \in Range(main') <=> worker'[h].pc = "push"
               /\ \A e \in Gens : worker'[e].item = worker'[h].item => e = h
    <3>1. h # g /\ worker'[h] = worker[h] /\ Writing(h)
      BY <1>3, <1>6, <2>3 DEF Writing
    <3>2. /\ worker[h].item \in Callers /\ worker[h].item # k /\ answer[worker[h].item] \in Waiting
          /\ worker[h].item \in Range(main) <=> worker[h].pc = "push"
          /\ \A e \in Gens : worker[e].item = worker[h].item => e = h
      BY <3>1 DEF PlacesInv, QueuedOnce, Started
    <3>3. worker[h].item \notin Queued(q)
      BY <1>1, <3>1, <3>2, QueueItems DEF PlacesInv, QueuedOnce
    <3>4. answer'[worker[h].item] = answer[worker[h].item]
      BY <1>2, <1>3, <3>2, <3>3
    <3>5. ASSUME NEW e \in Gens, worker'[e].item = worker[h].item PROVE e = h
      <4>1. CASE e = g
        BY <1>3, <1>6, <3>2, <3>5, <4>1
      <4>2. CASE e # g
        BY <1>3, <3>2, <3>5, <4>2
      <4> QED BY <4>1, <4>2
    <3> QED BY <1>4, <3>1, <3>2, <3>4, <3>5
  <2> QED BY <2>1, <2>2, <2>3 DEF QueuedOnce
<1>11. BranchTrue'
  <2>1. \A c \in Callers : answer'[c] = "merged" => c \in pushed'
    <3>1. \A c \in Callers : answer'[c] = "merged" => c \in pushed
      BY <1>2, <1>3 DEF PlacesInv, BranchTrue, AnswerTellsTruth, Waiting
    <3> QED BY <1>4, <3>1
  <2>2. ASSUME NEW c \in Callers, answer'[c] \in {"idle", "refused", "conflict", "stopped"}
        PROVE  c \notin Range(main')
    <3>1. CASE c \in Queued(q)
      BY <1>1, <1>4, <3>1, QueueItems DEF PlacesInv, QueuedOnce
    <3>2. CASE c \notin Queued(q)
      BY <1>2, <1>3, <1>4, <2>2, <3>2 DEF PlacesInv, BranchTrue, AnswerTellsTruth, Waiting
    <3> QED BY <3>1, <3>2
  <2> QED BY <1>4, <2>1, <2>2 DEF BranchTrue, AnswerTellsTruth
<1>12. InTurn'
  <2>1. \A c \in Callers : answer'[c] = "idle" <=> answer[c] = "idle"
    <3>1. ASSUME NEW c \in Callers PROVE answer'[c] = "idle" <=> answer[c] = "idle"
      <4>1. CASE c = k
        <5>1. k \notin Queued(q) /\ answer[k] \in Waiting
          BY <1>1, <4>1, QueueItems DEF PlacesInv, QueuedOnce
        <5> QED BY <1>2, <1>3, <4>1, <5>1 DEF Waiting
      <4>2. CASE c # k
        BY <1>2, <1>3, <4>2
      <4> QED BY <4>1, <4>2
    <3> QED BY <3>1
  <2> QED BY <2>1 DEF PlacesInv, InTurn
<1> QED BY <1>8, <1>9, <1>10, <1>11, <1>12 DEF PlacesInv

\* A worker answers its caller and goes on.
LEMMA AnsweredPlaces ==
  ASSUME PlacesInv, NEW g \in Gens, Writing(g), NEW a \in {"conflict", "merge_error", "merged", "push_error"},
         NextItem(g, a), MayHaveLanded(g),
         a = "conflict" => worker[g].pc = "merge" /\ main' = main,
         a = "merged" => worker[g].pc = "push" /\ pushed' = Range(main),
         UNCHANGED <<faults, closing, stopFailed, gens, current, stopper>>
  PROVE  PlacesInv'
<1> DEFINE k == worker[g].item
<1>0. /\ main' \in Seq(Callers) /\ Range(main) \subseteq Range(main')
      /\ \A c \in Callers : c # k => (c \in Range(main') <=> c \in Range(main))
      /\ IsFiniteSet(Range(main')) /\ Len(main') = Cardinality(Range(main'))
      /\ pushed \subseteq pushed' /\ pushed' \subseteq Range(main') /\ pushed' \subseteq Callers
  BY LandedFacts
<1>1. /\ TypeOK /\ k \in Callers /\ worker[g].queue \in Gens /\ a \in AnswerState
      /\ answer[k] \in Waiting /\ (k \in Range(main) <=> worker[g].pc = "push")
      /\ \A h \in Gens : worker[h].item = k => h = g
  BY DEF PlacesInv, Started, Writing, QueuedOnce, AnswerState, Answers
<1>2. /\ worker' \in [Gens -> WorkerRecord]
      /\ worker'[g].pc = "get" /\ worker'[g].queue = worker[g].queue /\ worker'[g].item = NoCaller
      /\ \A h \in Gens \ {g} : worker'[h] = worker[h]
      /\ queues' = queues
      /\ answer' \in [Callers -> AnswerState]
      /\ answer'[k] \in {a, answer[k]}
      /\ \A c \in Callers \ {k} : answer'[c] = answer[c]
  BY <1>1, NextItemFacts
<1>3. NoCaller \notin Callers
  BY Sets
<1>4. TypeOK'
  BY <1>0, <1>1, <1>2 DEF TypeOK
<1>5. Started'
  <2>1. /\ \A h \in Gens : worker[h].pc = "none" <=> h > gens
        /\ \A h \in Gens : h > gens => queues[h] = <<>>
        /\ \A s \in Stoppers : stopper[s].pc = "drain" => stopper[s].gen \in 1..gens
    BY DEF PlacesInv, Started
  <2>2. \A h \in Gens : worker'[h].pc = "none" <=> worker[h].pc = "none"
    BY <1>2 DEF Writing
  <2>3. \A h \in Gens : worker'[h].pc \in {"get", "merge", "push"} => worker'[h].queue \in Gens
    BY <1>1, <1>2 DEF PlacesInv, Started
  <2>4. \A h \in Gens : worker'[h].item \in Callers <=> worker'[h].pc \in {"merge", "push"}
    BY <1>2, <1>3 DEF PlacesInv, Started, Writing
  <2> QED BY <1>2, <2>1, <2>2, <2>3, <2>4 DEF Started, Writing
<1>6. QueuedOnce'
  <2>1. \A q, r \in Gens : \A i \in DOMAIN queues'[q], j \in DOMAIN queues'[r] :
          queues'[q][i] # Sentinel /\ queues'[q][i] = queues'[r][j] => q = r /\ i = j
    BY <1>2 DEF PlacesInv, QueuedOnce
  <2>2. ASSUME NEW c \in Callers, IsQueued(c)'
        PROVE  answer'[c] \in Waiting /\ c \notin Range(main') /\ \A h \in Gens : worker'[h].item # c
    <3>1. IsQueued(c)
      BY <1>2, <2>2 DEF IsQueued
    <3>2. answer[c] \in Waiting /\ c \notin Range(main) /\ \A h \in Gens : worker[h].item # c
      BY <3>1 DEF PlacesInv, QueuedOnce
    <3>3. c # k /\ \A h \in Gens : worker'[h].item # c
      BY <1>2, <1>3, <3>2
    <3> QED BY <1>0, <1>2, <3>2, <3>3
  <2>3. ASSUME NEW h \in Gens, Writing(h)'
        PROVE  /\ answer'[worker'[h].item] \in Waiting
               /\ worker'[h].item \in Range(main') <=> worker'[h].pc = "push"
               /\ \A e \in Gens : worker'[e].item = worker'[h].item => e = h
    <3>1. h # g /\ worker'[h] = worker[h] /\ Writing(h)
      BY <1>2, <2>3 DEF Writing
    <3>2. /\ worker[h].item \in Callers /\ worker[h].item # k /\ answer[worker[h].item] \in Waiting
          /\ worker[h].item \in Range(main) <=> worker[h].pc = "push"
          /\ \A e \in Gens : worker[e].item = worker[h].item => e = h
      BY <3>1 DEF PlacesInv, QueuedOnce, Started
    <3>3. \A e \in Gens : worker'[e].item = worker[h].item => e = h
      BY <1>2, <1>3, <3>2
    <3> QED BY <1>0, <1>2, <3>1, <3>2, <3>3
  <2> QED BY <2>1, <2>2, <2>3 DEF QueuedOnce
<1>7. BranchTrue'
  <2>1. /\ \A c \in Callers : answer[c] = "merged" => c \in pushed
        /\ \A c \in Callers : answer[c] \in {"idle", "refused", "conflict", "stopped"} => c \notin Range(main)
    BY DEF PlacesInv, BranchTrue, AnswerTellsTruth
  <2>2. \A c \in Callers : answer'[c] = "merged" => c \in pushed'
    <3>1. answer'[k] = "merged" => k \in pushed'
      BY <1>1, <1>2 DEF Waiting
    <3> QED BY <1>0, <1>2, <2>1, <3>1
  <2>3. \A c \in Callers : answer'[c] \in {"idle", "refused", "conflict", "stopped"} => c \notin Range(main')
    <3>1. answer'[k] \in {"idle", "refused", "conflict", "stopped"} => k \notin Range(main')
      BY <1>1, <1>2 DEF Waiting
    <3> QED BY <1>0, <1>2, <2>1, <3>1
  <2> QED BY <1>0, <2>2, <2>3 DEF BranchTrue, AnswerTellsTruth
<1>8. InTurn'
  <2>1. \A c \in Callers : answer'[c] = "idle" <=> answer[c] = "idle"
    BY <1>1, <1>2 DEF Waiting
  <2> QED BY <2>1 DEF PlacesInv, InTurn
<1> QED BY <1>4, <1>5, <1>6, <1>7, <1>8 DEF PlacesInv

\* A worker moves on with the item it has or had none: it is started, begins,
\* commits its merge, or is cancelled before it began.
LEMMA MovedPlaces ==
  ASSUME PlacesInv, NEW g \in Gens, worker' \in [Gens -> WorkerRecord],
         worker'[g].item = worker[g].item, \A h \in Gens \ {g} : worker'[h] = worker[h],
         \/ /\ worker[g].pc = "merge" /\ worker'[g].pc = "push" /\ worker'[g].queue = worker[g].queue
            /\ main' = Append(main, worker[g].item) /\ UNCHANGED gens
         \/ /\ ~Writing(g) /\ worker'[g].pc \in {"new", "get"} \union Ended /\ main' = main
            /\ worker'[g].pc = "get" => worker'[g].queue \in Gens
            /\ \/ g = gens + 1 /\ gens' = g
               \/ g <= gens /\ UNCHANGED gens,
         closing' \in BOOLEAN, current' \in 0..gens',
         UNCHANGED <<faults, stopFailed, queues, stopper, answer, pushed>>
  PROVE  PlacesInv'
<1>1. TypeOK /\ gens \in Nat /\ gens' \in Nat /\ gens <= gens' /\ gens' \in 0..MaxGen
  <2>1. TypeOK /\ gens \in 0..MaxGen /\ MaxGen \in Nat /\ g \in 1..MaxGen
    BY Sets DEF PlacesInv, TypeOK
  <2>2. gens' = gens \/ (g = gens + 1 /\ gens' = g)
    OBVIOUS
  <2> QED BY <2>1, <2>2
<1>2. /\ main' \in Seq(Callers) /\ IsFiniteSet(Range(main')) /\ Len(main') = Cardinality(Range(main'))
      /\ Range(main) \subseteq Range(main')
      /\ \A c \in Callers : c # worker[g].item => (c \in Range(main') <=> c \in Range(main))
      /\ worker'[g].pc = "push" => worker[g].item \in Range(main') /\ answer[worker[g].item] \in Waiting
      /\ worker'[g].pc # "push" => main' = main
  <2>1. CASE main' = main /\ worker'[g].pc # "push"
    <3>1. main \in Seq(Callers) /\ IsFiniteSet(Range(main)) /\ Len(main) = Cardinality(Range(main))
      BY DEF PlacesInv, TypeOK, BranchTrue, AnswerTellsTruth
    <3> QED BY <2>1, <3>1
  <2>2. CASE worker[g].pc = "merge" /\ worker'[g].pc = "push" /\ main' = Append(main, worker[g].item)
    <3>1. worker[g].item \in Callers /\ worker[g].item \notin Range(main) /\ answer[worker[g].item] \in Waiting
      BY <2>2 DEF PlacesInv, QueuedOnce, Writing, Started
    <3> QED BY <2>2, <3>1, CommitFacts
  <2> QED BY <2>1, <2>2 DEF Ended
<1>3. /\ Writing(g) <=> worker'[g].pc \in {"merge", "push"}
      /\ worker'[g].pc # "merge" /\ worker'[g].pc # "none"
      /\ worker'[g].pc = "push" => Writing(g)
  BY DEF Writing, Ended
<1>4. TypeOK'
  BY <1>1, <1>2 DEF TypeOK
<1>5. Started'
  <2>1. /\ \A h \in Gens : worker[h].pc = "none" <=> h > gens
        /\ \A h \in Gens : h > gens => queues[h] = <<>>
        /\ \A s \in Stoppers : stopper[s].pc = "drain" => stopper[s].gen \in 1..gens
        /\ \A h \in Gens : worker[h].pc \in {"get", "merge", "push"} => worker[h].queue \in Gens
        /\ \A h \in Gens : worker[h].item \in Callers <=> worker[h].pc \in {"merge", "push"}
    BY DEF PlacesInv, Started, Writing
  <2>2. \A h \in Gens : worker'[h].pc = "none" <=> h > gens'
    <3>1. CASE UNCHANGED gens /\ g <= gens
      BY <1>1, <1>3, <2>1, <3>1, Sets
    <3>2. CASE g = gens + 1 /\ gens' = g
      BY <1>1, <1>3, <2>1, <3>2, Sets
    <3>3. CASE UNCHANGED gens /\ worker[g].pc = "merge"
      <4>1. ~(g > gens) /\ g \in Nat
        BY <2>1, <3>3, Sets
      <4> QED BY <1>1, <3>1, <3>3, <4>1
    <3> QED BY <3>1, <3>2, <3>3
  <2>3. \A h \in Gens : h > gens' => queues[h] = <<>>
    BY <1>1, <2>1, Sets
  <2>4. \A s \in Stoppers : stopper[s].pc = "drain" => stopper[s].gen \in 1..gens'
    BY <1>1, <2>1
  <2>5. \A h \in Gens : worker'[h].pc \in {"get", "merge", "push"} => worker'[h].queue \in Gens
    BY <1>3, <2>1
  <2>6. \A h \in Gens : worker'[h].item \in Callers <=> worker'[h].pc \in {"merge", "push"}
    BY <1>3, <2>1 DEF Writing
  <2> QED BY <2>2, <2>3, <2>4, <2>5, <2>6 DEF Started, Writing
<1>6. \A h \in Gens : worker'[h].item = worker[h].item
  OBVIOUS
<1>7. QueuedOnce'
  <2>1. \A q, r \in Gens : \A i \in DOMAIN queues'[q], j \in DOMAIN queues'[r] :
          queues'[q][i] # Sentinel /\ queues'[q][i] = queues'[r][j] => q = r /\ i = j
    BY DEF PlacesInv, QueuedOnce
  <2>2. ASSUME NEW c \in Callers, IsQueued(c)'
        PROVE  answer'[c] \in Waiting /\ c \notin Range(main') /\ \A h \in Gens : worker'[h].item # c
    <3>1. IsQueued(c)
      BY <2>2 DEF IsQueued
    <3>2. answer[c] \in Waiting /\ c \notin Range(main) /\ \A h \in Gens : worker[h].item # c
      BY <3>1 DEF PlacesInv, QueuedOnce
    <3> QED BY <1>2, <1>6, <3>2
  <2>3. ASSUME NEW h \in Gens, Writing(h)'
        PROVE  /\ answer'[worker'[h].item] \in Waiting
               /\ worker'[h].item \in Range(main') <=> worker'[h].pc = "push"
               /\ \A e \in Gens : worker'[e].item = worker'[h].item => e = h
    <3>1. Writing(h)
      BY <1>3, <2>3 DEF Writing
    <3>2. /\ worker[h].item \in Callers /\ answer[worker[h].item] \in Waiting
          /\ worker[h].item \in Range(main) <=> worker[h].pc = "push"
          /\ \A e \in Gens : worker[e].item = worker[h].item => e = h
      BY <3>1 DEF PlacesInv, QueuedOnce, Started
    <3>3. worker'[h].item \in Range(main') <=> worker'[h].pc = "push"
      <4>1. CASE h = g
        BY <1>2, <1>3, <2>3, <4>1 DEF Writing
      <4>2. CASE h # g
        BY <1>2, <3>2, <4>2
      <4> QED BY <4>1, <4>2
    <3> QED BY <1>6, <3>2, <3>3
  <2> QED BY <2>1, <2>2, <2>3 DEF QueuedOnce
<1>8. BranchTrue'
  <2>1. /\ pushed \subseteq Range(main)
        /\ \A c \in Callers : answer[c] = "merged" => c \in pushed
        /\ \A c \in Callers : answer[c] \in {"idle", "refused", "conflict", "stopped"}
                                 => c \notin Range(main)
    BY DEF PlacesInv, BranchTrue, AnswerTellsTruth
  <2>2. \A c \in Callers : answer[c] \in {"idle", "refused", "conflict", "stopped"}
                              => c \notin Range(main')
    BY <1>2, <2>1 DEF Waiting
  <2>3. pushed' \subseteq Range(main')
    BY <1>2, <2>1
  <2> QED BY <1>2, <2>1, <2>2, <2>3 DEF BranchTrue, AnswerTellsTruth
<1>9. InTurn'
  BY DEF PlacesInv, InTurn
<1> QED BY <1>4, <1>5, <1>7, <1>8, <1>9 DEF PlacesInv

\* A worker takes the next item from its queue.
LEMMA TakePlaces ==
  ASSUME PlacesInv, NEW g \in Gens, worker[g].pc = "get", queues[worker[g].queue] # <<>>,
         Head(queues[worker[g].queue]) # Sentinel, Get(g)
  PROVE  PlacesInv'
<1> DEFINE q == worker[g].queue
           k == Head(queues[q])
<1>1. TypeOK /\ q \in Gens
  BY DEF PlacesInv, Started
<1>2. /\ worker' \in [Gens -> WorkerRecord]
      /\ worker'[g].pc = "merge" /\ worker'[g].queue = q /\ worker'[g].item = k /\ k \in Callers
      /\ \A h \in Gens \ {g} : worker'[h] = worker[h]
      /\ queues' \in [Gens -> Seq(Callers \union {Sentinel})]
      /\ queues'[q] = Tail(queues[q])
      /\ \A r \in Gens \ {q} : queues'[r] = queues[r]
      /\ answer' = answer
  BY <1>1, TakeFacts
<1>3. UNCHANGED <<faults, closing, stopFailed, gens, current, stopper, main, pushed>>
  BY DEF Get
<1>4. /\ k = queues[q][1] /\ 1 \in DOMAIN queues[q] /\ k # Sentinel
      /\ \A i \in DOMAIN Tail(queues[q]) :
           i \in Nat /\ i >= 1 /\ i + 1 \in DOMAIN queues[q] /\ Tail(queues[q])[i] = queues[q][i + 1]
      /\ DOMAIN queues[q] \subseteq Nat
  BY <1>1, QueueItems, TailFacts
<1>5. IsQueued(k)
  BY <1>1, <1>2, <1>4 DEF IsQueued, Range
<1>6. answer[k] \in Waiting /\ k \notin Range(main) /\ \A h \in Gens : worker[h].item # k
  BY <1>2, <1>5 DEF PlacesInv, QueuedOnce
<1>7. ASSUME NEW a \in Gens, NEW i \in DOMAIN queues'[a], queues'[a][i] # Sentinel
      PROVE  IsQueued(queues'[a][i]) /\ queues'[a][i] # k
  <2>1. CASE a # q
    <3>1. queues'[a] = queues[a]
      BY <1>2, <2>1
    <3>2. queues[a][i] # k
      BY <1>1, <1>4, <1>7, <2>1, <3>1 DEF PlacesInv, QueuedOnce
    <3> QED BY <1>7, <3>1, <3>2 DEF IsQueued, Range
  <2>2. CASE a = q
    <3>1. i + 1 \in DOMAIN queues[q] /\ queues'[a][i] = queues[q][i + 1] /\ i + 1 # 1
      <4>1. i \in DOMAIN Tail(queues[q]) /\ queues'[a][i] = Tail(queues[q])[i]
        BY <1>2, <2>2
      <4> QED BY <1>4, <4>1
    <3>2. queues[q][i + 1] # k
      BY <1>1, <1>4, <3>1 DEF PlacesInv, QueuedOnce
    <3> QED BY <1>1, <3>1, <3>2 DEF IsQueued, Range
  <2> QED BY <2>1, <2>2
<1>8. TypeOK'
  BY <1>1, <1>2, <1>3 DEF TypeOK
<1>9. Started'
  <2>1. /\ \A h \in Gens : worker[h].pc = "none" <=> h > gens
        /\ \A h \in Gens : h > gens => queues[h] = <<>>
        /\ \A s \in Stoppers : stopper[s].pc = "drain" => stopper[s].gen \in 1..gens
        /\ \A h \in Gens : worker[h].pc \in {"get", "merge", "push"} => worker[h].queue \in Gens
        /\ \A h \in Gens : worker[h].item \in Callers <=> worker[h].pc \in {"merge", "push"}
    BY DEF PlacesInv, Started, Writing
  <2>2. \A h \in Gens : worker'[h].pc = "none" <=> h > gens
    BY <1>2, <2>1
  <2>3. \A h \in Gens : h > gens => queues'[h] = <<>>
    BY <1>2, <2>1
  <2>4. \A h \in Gens : worker'[h].pc \in {"get", "merge", "push"} => worker'[h].queue \in Gens
    BY <1>1, <1>2, <2>1
  <2>5. \A h \in Gens : worker'[h].item \in Callers <=> worker'[h].pc \in {"merge", "push"}
    BY <1>2, <2>1
  <2> QED BY <1>3, <2>1, <2>2, <2>3, <2>4, <2>5 DEF Started, Writing
<1>10. QueuedOnce'
  <2>1. ASSUME NEW a \in Gens, NEW r \in Gens, NEW i \in DOMAIN queues'[a], NEW j \in DOMAIN queues'[r],
               queues'[a][i] # Sentinel, queues'[a][i] = queues'[r][j]
        PROVE  a = r /\ i = j
    <3>1. \A b, d \in Gens : \A m \in DOMAIN queues[b], n \in DOMAIN queues[d] :
            queues[b][m] # Sentinel /\ queues[b][m] = queues[d][n] => b = d /\ m = n
      BY DEF PlacesInv, QueuedOnce
    <3>2. ASSUME NEW b \in Gens, b = q, NEW n \in DOMAIN queues'[b]
          PROVE  n \in Nat /\ n + 1 \in DOMAIN queues[b] /\ queues'[b][n] = queues[b][n + 1]
      <4>1. n \in DOMAIN Tail(queues[q]) /\ queues'[b][n] = Tail(queues[q])[n]
        BY <1>2, <3>2
      <4> QED BY <1>4, <3>2, <4>1
    <3>3. \A b \in Gens : b # q => queues'[b] = queues[b]
      BY <1>2
    <3>4. CASE a = q /\ r = q
      <4>1. /\ i \in Nat /\ i + 1 \in DOMAIN queues[a] /\ queues'[a][i] = queues[a][i + 1]
            /\ j \in Nat /\ j + 1 \in DOMAIN queues[r] /\ queues'[r][j] = queues[r][j + 1]
        BY <3>2, <3>4
      <4>2. \A m, n \in DOMAIN queues[a] :
              queues[a][m] # Sentinel /\ queues[a][m] = queues[a][n] => m = n
        BY <3>1
      <4>3. queues[a][i + 1] # Sentinel /\ queues[a][i + 1] = queues[a][j + 1] /\ a = r
        BY <2>1, <3>4, <4>1
      <4>4. i + 1 = j + 1
        BY <4>1, <4>2, <4>3
      <4> QED BY <4>1, <4>3, <4>4
    <3>5. CASE a = q /\ r # q
      <4>1. i + 1 \in DOMAIN queues[a] /\ queues'[a][i] = queues[a][i + 1]
        BY <3>2, <3>5
      <4> QED BY <2>1, <3>1, <3>3, <3>5, <4>1
    <3>6. CASE a # q /\ r = q
      <4>1. j + 1 \in DOMAIN queues[r] /\ queues'[r][j] = queues[r][j + 1]
        BY <3>2, <3>6
      <4> QED BY <2>1, <3>1, <3>3, <3>6, <4>1
    <3>7. CASE a # q /\ r # q
      BY <2>1, <3>1, <3>3, <3>7
    <3> QED BY <3>4, <3>5, <3>6, <3>7
  <2>2. ASSUME NEW c \in Callers, IsQueued(c)'
        PROVE  answer'[c] \in Waiting /\ c \notin Range(main') /\ \A h \in Gens : worker'[h].item # c
    <3>1. PICK a \in Gens : \E i \in DOMAIN queues'[a] : c = queues'[a][i]
      BY <2>2 DEF IsQueued, Range
    <3>2. IsQueued(c) /\ c # k
      BY <1>7, <3>1, Sets
    <3>3. answer[c] \in Waiting /\ c \notin Range(main) /\ \A h \in Gens : worker[h].item # c
      BY <3>2 DEF PlacesInv, QueuedOnce
    <3>4. \A h \in Gens : worker'[h].item # c
      BY <1>2, <3>2, <3>3
    <3> QED BY <1>2, <1>3, <3>3, <3>4
  <2>3. ASSUME NEW h \in Gens, Writing(h)'
        PROVE  /\ answer'[worker'[h].item] \in Waiting
               /\ worker'[h].item \in Range(main') <=> worker'[h].pc = "push"
               /\ \A e \in Gens : worker'[e].item = worker'[h].item => e = h
    <3>1. CASE h = g
      BY <1>2, <1>3, <1>6, <3>1
    <3>2. CASE h # g
      <4>1. Writing(h) /\ worker'[h] = worker[h]
        BY <1>2, <2>3, <3>2 DEF Writing
      <4>2. /\ answer[worker[h].item] \in Waiting /\ worker[h].item # k
            /\ worker[h].item \in Range(main) <=> worker[h].pc = "push"
            /\ \A e \in Gens : worker[e].item = worker[h].item => e = h
        BY <1>6, <4>1 DEF PlacesInv, QueuedOnce
      <4>3. \A e \in Gens : worker'[e].item = worker[h].item => e = h
        BY <1>2, <4>2
      <4> QED BY <1>2, <1>3, <4>1, <4>2, <4>3
    <3> QED BY <3>1, <3>2
  <2> QED BY <2>1, <2>2, <2>3 DEF QueuedOnce
<1>11. BranchTrue' /\ InTurn'
  BY <1>2, <1>3 DEF PlacesInv, BranchTrue, InTurn, AnswerTellsTruth
<1> QED BY <1>8, <1>9, <1>10, <1>11 DEF PlacesInv

\* A caller or a stop() puts something into the current queue.
LEMMA AppendPlaces ==
  ASSUME PlacesInv, NEW q \in Gens, q <= gens, NEW e \in Callers \union {Sentinel},
         queues' = [queues EXCEPT ![q] = Append(@, e)],
         e = Sentinel => answer' = answer,
         e # Sentinel => /\ answer[e] = "idle" /\ \A b \in 1..(e - 1) : answer[b] # "idle"
                         /\ answer' = [answer EXCEPT ![e] = "waiting"],
         closing' \in BOOLEAN, stopper' \in [Stoppers -> StopperRecord],
         \A s \in Stoppers : stopper'[s].pc = "drain" => stopper'[s].gen \in 1..gens,
         UNCHANGED <<faults, stopFailed, gens, current, worker, main, pushed>>
  PROVE  PlacesInv'
<1>1. /\ TypeOK /\ queues[q] \in Seq(Callers \union {Sentinel})
      /\ e # Sentinel => e \in Callers
  BY Sets DEF PlacesInv, TypeOK
<1>2. /\ queues' \in [Gens -> Seq(Callers \union {Sentinel})]
      /\ \A r \in Gens \ {q} : queues'[r] = queues[r]
      /\ queues'[q] = Append(queues[q], e)
  BY <1>1, AppendFacts DEF TypeOK
<1>3. /\ DOMAIN queues[q] = 1..Len(queues[q]) /\ Len(queues[q]) \in Nat
      /\ DOMAIN queues'[q] = 1..(Len(queues[q]) + 1)
      /\ \A i \in 1..Len(queues[q]) : queues'[q][i] = queues[q][i]
      /\ queues'[q][Len(queues[q]) + 1] = e
      /\ Range(queues'[q]) = Range(queues[q]) \union {e}
  BY <1>1, <1>2, AppendFacts
<1>4. /\ answer' \in [Callers -> AnswerState]
      /\ \A c \in Callers : c # e => answer'[c] = answer[c]
      /\ e # Sentinel => answer'[e] = "waiting" /\ answer[e] = "idle"
  <2>1. "waiting" \in AnswerState
    BY DEF AnswerState
  <2> QED BY <1>1, <2>1 DEF TypeOK
<1>5. ASSUME e # Sentinel
      PROVE  ~IsQueued(e) /\ e \notin Range(main) /\ \A g \in Gens : worker[g].item # e
  <2>1. answer[e] = "idle" /\ e \in Callers
    BY <1>1, <1>4, <1>5
  <2>2. ~IsQueued(e)
    BY <2>1 DEF PlacesInv, QueuedOnce, Waiting
  <2>3. e \notin Range(main)
    BY <2>1 DEF PlacesInv, BranchTrue, AnswerTellsTruth
  <2>4. \A g \in Gens : worker[g].item # e
    BY <2>1 DEF PlacesInv, QueuedOnce, Started, Waiting
  <2> QED BY <2>2, <2>3, <2>4
<1>6. \A c \in Callers : IsQueued(c)' => IsQueued(c) \/ c = e
  <2>1. ASSUME NEW c \in Callers, IsQueued(c)' PROVE IsQueued(c) \/ c = e
    <3>1. PICK r \in Gens : c \in Range(queues'[r])
      BY <2>1 DEF IsQueued
    <3>2. c \in Range(queues[r]) \/ c = e
      BY <1>2, <1>3, <3>1
    <3> QED BY <3>2 DEF IsQueued
  <2> QED BY <2>1
<1>7. TypeOK'
  BY <1>1, <1>2, <1>4 DEF TypeOK
<1>8. Started'
  <2>1. \A h \in Gens : h > gens => queues'[h] = <<>>
    <3>1. gens \in Nat /\ Gens \subseteq Nat
      BY <1>1, Sets DEF TypeOK
    <3> QED BY <1>2, <3>1 DEF PlacesInv, Started
  <2> QED BY <2>1 DEF PlacesInv, Started, Writing
<1>9. QueuedOnce'
  <2>1. ASSUME NEW a \in Gens, NEW r \in Gens, NEW i \in DOMAIN queues'[a], NEW j \in DOMAIN queues'[r],
               queues'[a][i] # Sentinel, queues'[a][i] = queues'[r][j]
        PROVE  a = r /\ i = j
    <3>1. ASSUME NEW b \in Gens, NEW m \in DOMAIN queues'[b], queues'[b][m] # Sentinel
          PROVE  \/ m \in DOMAIN queues[b] /\ queues'[b][m] = queues[b][m] /\ (e # Sentinel => queues[b][m] # e)
                 \/ b = q /\ m = Len(queues[q]) + 1 /\ queues'[b][m] = e /\ e # Sentinel
      <4>1. \/ m \in DOMAIN queues[b] /\ queues'[b][m] = queues[b][m]
            \/ b = q /\ m = Len(queues[q]) + 1 /\ queues'[b][m] = e
        BY <1>2, <1>3
      <4>2. ASSUME m \in DOMAIN queues[b], e # Sentinel PROVE queues[b][m] # e
        BY <1>5, <4>2 DEF IsQueued, Range
      <4> QED BY <3>1, <4>1, <4>2
    <3>2. \/ i \in DOMAIN queues[a] /\ queues'[a][i] = queues[a][i] /\ (e # Sentinel => queues[a][i] # e)
          \/ a = q /\ i = Len(queues[q]) + 1 /\ queues'[a][i] = e /\ e # Sentinel
      BY <2>1, <3>1
    <3>3. \/ j \in DOMAIN queues[r] /\ queues'[r][j] = queues[r][j] /\ (e # Sentinel => queues[r][j] # e)
          \/ r = q /\ j = Len(queues[q]) + 1 /\ queues'[r][j] = e /\ e # Sentinel
      BY <2>1, <3>1
    <3> QED BY <2>1, <3>2, <3>3 DEF PlacesInv, QueuedOnce
  <2>2. ASSUME NEW c \in Callers, IsQueued(c)'
        PROVE  answer'[c] \in Waiting /\ c \notin Range(main') /\ \A h \in Gens : worker'[h].item # c
    <3>1. CASE c = e
      <4>1. e # Sentinel
        BY <3>1, Sets
      <4> QED BY <1>4, <1>5, <3>1, <4>1 DEF Waiting
    <3>2. CASE c # e
      BY <1>4, <1>6, <2>2, <3>2 DEF PlacesInv, QueuedOnce
    <3> QED BY <3>1, <3>2
  <2>3. ASSUME NEW h \in Gens, Writing(h)'
        PROVE  /\ answer'[worker'[h].item] \in Waiting
               /\ worker'[h].item \in Range(main') <=> worker'[h].pc = "push"
               /\ \A d \in Gens : worker'[d].item = worker'[h].item => d = h
    <3>1. Writing(h) /\ worker[h].item \in Callers
      BY <2>3 DEF Writing, PlacesInv, Started
    <3>2. worker[h].item # e
      BY <1>5, <3>1, Sets
    <3> QED BY <1>4, <3>1, <3>2 DEF PlacesInv, QueuedOnce
  <2> QED BY <2>1, <2>2, <2>3 DEF QueuedOnce
<1>10. BranchTrue'
  <2>1. /\ \A c \in Callers : answer'[c] = "merged" => c \in pushed
        /\ \A c \in Callers : answer'[c] \in {"idle", "refused", "conflict", "stopped"}
                                 => c \notin Range(main)
    BY <1>4, Sets DEF PlacesInv, BranchTrue, AnswerTellsTruth
  <2> QED BY <2>1 DEF PlacesInv, BranchTrue, AnswerTellsTruth
<1>11. InTurn'
  <2> SUFFICES ASSUME NEW b \in Callers, NEW c \in Callers, b < c, answer'[b] = "idle"
               PROVE  answer'[c] = "idle"
    BY DEF InTurn
  <2>1. answer[b] = "idle" /\ answer[c] = "idle"
    BY <1>4, Sets DEF PlacesInv, InTurn
  <2>2. c # e
    <3>1. ASSUME c = e PROVE FALSE
      <4>1. b \in 1..(e - 1) /\ e # Sentinel
        BY <3>1, Sets
      <4> QED BY <2>1, <4>1
    <3> QED BY <3>1
  <2> QED BY <1>4, <2>1, <2>2
<1> QED BY <1>7, <1>8, <1>9, <1>10, <1>11 DEF PlacesInv

\* A caller gives up, or is refused.
LEMMA AnswerPlaces ==
  ASSUME PlacesInv, NEW c \in Callers, NEW a, answer' = [answer EXCEPT ![c] = a],
         \/ a = "cancelled" /\ answer[c] = "waiting"
         \/ a = "refused" /\ answer[c] = "idle" /\ \A b \in 1..(c - 1) : answer[b] # "idle",
         UNCHANGED <<faults, closing, stopFailed, gens, current, queues, worker, stopper, main, pushed>>
  PROVE  PlacesInv'
<1>1. TypeOK /\ a \in AnswerState
  BY DEF PlacesInv, AnswerState
<1>2. /\ answer' \in [Callers -> AnswerState] /\ answer'[c] = a
      /\ \A b \in Callers \ {c} : answer'[b] = answer[b]
      /\ \A b \in Callers : answer[b] \in Waiting => answer'[b] \in Waiting
  BY <1>1 DEF TypeOK, Waiting
<1>3. TypeOK'
  BY <1>1, <1>2 DEF TypeOK
<1>4. Started'
  BY DEF PlacesInv, Started, Writing
<1>5. QueuedOnce'
  <2>1. /\ \A q, r \in Gens : \A i \in DOMAIN queues[q], j \in DOMAIN queues[r] :
             queues[q][i] # Sentinel /\ queues[q][i] = queues[r][j] => q = r /\ i = j
        /\ \A b \in Callers : IsQueued(b) =>
             answer[b] \in Waiting /\ b \notin Range(main) /\ \A g \in Gens : worker[g].item # b
        /\ \A g \in Gens : Writing(g) =>
             /\ answer[worker[g].item] \in Waiting /\ worker[g].item \in Callers
             /\ worker[g].item \in Range(main) <=> worker[g].pc = "push"
             /\ \A h \in Gens : worker[h].item = worker[g].item => h = g
    BY DEF PlacesInv, QueuedOnce, Started
  <2>2. (\A b : IsQueued(b)' <=> IsQueued(b)) /\ (\A g : Writing(g)' <=> Writing(g))
    BY DEF IsQueued, Writing
  <2>3. \A b \in Callers : IsQueued(b)' =>
          answer'[b] \in Waiting /\ b \notin Range(main) /\ \A g \in Gens : worker[g].item # b
    BY <1>2, <2>1, <2>2
  <2>4. \A g \in Gens : Writing(g)' => answer'[worker[g].item] \in Waiting
    BY <1>2, <2>1, <2>2
  <2> QED BY <2>1, <2>2, <2>3, <2>4 DEF QueuedOnce
<1>6. BranchTrue'
  <2>1. /\ \A b \in Callers : answer'[b] = "merged" => b \in pushed
        /\ \A b \in Callers : answer'[b] \in {"idle", "refused", "conflict", "stopped"}
                                 => b \notin Range(main)
    BY <1>2 DEF PlacesInv, BranchTrue, AnswerTellsTruth
  <2> QED BY <2>1 DEF PlacesInv, BranchTrue, AnswerTellsTruth
<1>7. InTurn'
  <2> SUFFICES ASSUME NEW b \in Callers, NEW d \in Callers, b < d, answer'[b] = "idle"
               PROVE  answer'[d] = "idle"
    BY DEF InTurn
  <2>1. answer[b] = "idle" /\ answer[d] = "idle"
    BY <1>2 DEF PlacesInv, InTurn
  <2>2. d # c
    <3>1. ASSUME d = c PROVE FALSE
      <4>1. b \in 1..(c - 1)
        BY <3>1, Sets
      <4> QED BY <2>1, <3>1, <4>1
    <3> QED BY <3>1
  <2> QED BY <1>2, <2>1, <2>2
<1> QED BY <1>3, <1>4, <1>5, <1>6, <1>7 DEF PlacesInv

\* A worker is cancelled by the stop() that drains it.
LEMMA CancelPlaces ==
  ASSUME PlacesInv, NEW g \in Gens, Live(g), Cancel(g),
         UNCHANGED <<faults, closing, stopFailed, gens, current>>,
         \/ stopper' = stopper
         \/ worker[g].pc # "new" /\ \E s \in Stoppers : stopper' = [stopper EXCEPT ![s].timedOut = TRUE]
  PROVE  PlacesInv'
<1>1. /\ stopper' \in [Stoppers -> StopperRecord]
      /\ \A s \in Stoppers : stopper'[s].pc = stopper[s].pc /\ stopper'[s].gen = stopper[s].gen
  <2>1. stopper \in [Stoppers -> StopperRecord]
    BY DEF PlacesInv, TypeOK
  <2>2. CASE stopper' = stopper
    BY <2>1, <2>2
  <2>3. ASSUME NEW s \in Stoppers, stopper' = [stopper EXCEPT ![s].timedOut = TRUE]
        PROVE  /\ stopper' \in [Stoppers -> StopperRecord]
               /\ \A t \in Stoppers : stopper'[t].pc = stopper[t].pc /\ stopper'[t].gen = stopper[t].gen
    <3> DEFINE r == [stopper[s] EXCEPT !.timedOut = TRUE]
    <3>1. r \in StopperRecord /\ r.pc = stopper[s].pc /\ r.gen = stopper[s].gen
      <4>1. stopper[s] \in StopperRecord
        BY <2>1
      <4> QED BY <4>1 DEF StopperRecord
    <3>2. stopper' = [stopper EXCEPT ![s] = r]
      BY <2>3
    <3> HIDE DEF r
    <3> QED BY <2>1, <3>1, <3>2
  <2> QED BY <2>2, <2>3
<1>2. TypeOK /\ worker[g].pc \in {"new", "get", "merge", "push"} /\ ~(g > gens) /\ gens \in Nat /\ g \in Nat
  <2>1. TypeOK /\ gens \in Nat /\ g \in Nat /\ worker[g] \in WorkerRecord
    BY Sets DEF PlacesInv, TypeOK
  <2>2. worker[g].pc \in {"new", "get", "merge", "push"} /\ worker[g].pc # "none"
    BY <2>1 DEF WorkerRecord, Live
  <2>3. ~(g > gens)
    BY <2>2 DEF PlacesInv, Started
  <2> QED BY <2>1, <2>2, <2>3
<1>3. CASE worker[g].pc = "new"
  <2>1. worker' = [worker EXCEPT ![g].pc = "cancelled"] /\ UNCHANGED <<queues, answer, main, pushed>>
    BY <1>3 DEF Cancel, MayHaveLanded
  <2>2. /\ worker' \in [Gens -> WorkerRecord] /\ worker'[g].pc = "cancelled"
        /\ worker'[g].item = worker[g].item /\ \A h \in Gens \ {g} : worker'[h] = worker[h]
    BY <1>2, <2>1, MoveFacts DEF Ended
  <2>3. ~Writing(g) /\ worker'[g].pc \in {"new", "get"} \union Ended /\ worker'[g].pc # "get"
    BY <1>3, <2>2 DEF Writing, Ended
  <2>4. closing' \in BOOLEAN /\ current' \in 0..gens' /\ g <= gens /\ stopper' = stopper
    BY <1>2, <1>3 DEF TypeOK
  <2> QED BY <2>1, <2>2, <2>3, <2>4, MovedPlaces
<1>4. CASE worker[g].pc # "new"
  <2>1. Exit(g, "cancelled", answer) /\ MayHaveLanded(g) /\ "cancelled" \in Ended
    BY <1>4 DEF Cancel, Ended
  <2> QED BY <1>1, <1>2, <1>4, <2>1, QuitPlaces
<1> QED BY <1>3, <1>4

\* Every step keeps every caller's work in its place.
LEMMA NextPlaces == PlacesInv /\ [Next]_vars => PlacesInv'
<1> SUFFICES ASSUME PlacesInv, [Next]_vars PROVE PlacesInv'
  OBVIOUS
<1>0. /\ TypeOK /\ Started /\ closing \in BOOLEAN /\ stopFailed \in BOOLEAN /\ current \in 0..gens
      /\ gens \in Nat /\ gens <= MaxGen /\ stopper \in [Stoppers -> StopperRecord]
      /\ \A s \in Stoppers : stopper[s].pc = "drain" => stopper[s].gen \in 1..gens
  BY Sets DEF PlacesInv, TypeOK, Started
<1>1. CASE UNCHANGED vars
  BY <1>0, <1>1, PlacesKept DEF vars
<1>2. CASE Start
  <2> DEFINE g == gens + 1
  <2>1. /\ g \in Gens /\ worker' = [worker EXCEPT ![g].pc = "new"] /\ gens' = g /\ current' = g
        /\ closing' = FALSE /\ UNCHANGED <<faults, stopFailed, queues, stopper, answer, main, pushed>>
    BY <1>0, <1>2, Sets DEF Start
  <2>2. /\ worker' \in [Gens -> WorkerRecord] /\ worker'[g].pc = "new"
        /\ worker'[g].item = worker[g].item /\ \A h \in Gens \ {g} : worker'[h] = worker[h]
    BY <1>0, <2>1, MoveFacts
  <2>3. worker[g].pc = "none"
    BY <1>0, <2>1 DEF Started
  <2>4. ~Writing(g) /\ closing' \in BOOLEAN
    BY <2>1, <2>3 DEF Writing
  <2>5. current' \in 0..gens'
    BY <1>0, <2>1
  <2> HIDE DEF g
  <2> QED BY <2>1, <2>2, <2>4, <2>5, MovedPlaces DEF g
<1>3. ASSUME NEW s \in Stoppers, Stop(s) PROVE PlacesInv'
  <2>1. UNCHANGED <<faults, stopFailed, gens, current, worker, answer, main, pushed>>
    BY <1>3 DEF Stop
  <2>2. CASE current = 0
    <3>1. stopper' = [stopper EXCEPT ![s].pc = "done"] /\ UNCHANGED <<closing, queues>>
      BY <1>3, <2>2 DEF Stop
    <3>2. /\ stopper' \in [Stoppers -> StopperRecord]
          /\ \A t \in Stoppers : stopper'[t].pc = "drain" => stopper'[t].gen \in 1..gens
      BY <1>0, <3>1 DEF StopperRecord
    <3> QED BY <1>0, <2>1, <3>1, <3>2, PlacesKept
  <2>3. CASE current # 0
    <3>1. /\ stopper' = [stopper EXCEPT ![s].pc = "drain", ![s].gen = current] /\ closing' = TRUE
          /\ queues' = [queues EXCEPT ![current] = Append(@, Sentinel)]
      BY <1>3, <2>3 DEF Stop
    <3>2. current \in Gens /\ current <= gens /\ current \in 0..MaxGen /\ current \in 1..gens
      BY <1>0, <2>3, Sets
    <3>3. /\ stopper' \in [Stoppers -> StopperRecord]
          /\ \A t \in Stoppers : stopper'[t].pc = "drain" => stopper'[t].gen \in 1..gens
      <4> DEFINE r == [stopper[s] EXCEPT !.pc = "drain", !.gen = current]
      <4>1. stopper[s] \in StopperRecord
        BY <1>0, <1>3
      <4>2. r \in StopperRecord /\ r.gen = current
        BY <3>2, <4>1 DEF StopperRecord
      <4>3. stopper' = [stopper EXCEPT ![s] = r]
        BY <3>1
      <4> HIDE DEF r
      <4> QED BY <1>0, <3>2, <4>2, <4>3
    <3> QED BY <2>1, <3>1, <3>2, <3>3, AppendPlaces
  <2> QED BY <2>2, <2>3
<1>4. ASSUME NEW s \in Stoppers, StopReset(s) PROVE PlacesInv'
  <2>1. /\ UNCHANGED <<faults, closing, gens, queues, worker, answer, main, pushed>>
        /\ stopper' = [stopper EXCEPT ![s].pc = "done"] /\ current' \in {0, current}
        /\ stopFailed' = (stopFailed \/ stopper[s].timedOut)
    BY <1>4 DEF StopReset
  <2>2. /\ stopper' \in [Stoppers -> StopperRecord]
        /\ \A t \in Stoppers : stopper'[t].pc = "drain" => stopper'[t].gen \in 1..gens
    BY <1>0, <2>1 DEF StopperRecord
  <2>3. stopFailed' \in BOOLEAN
    BY <2>1
  <2>4. current' \in 0..gens
    BY <1>0, <2>1
  <2> QED BY <1>0, <2>1, <2>2, <2>3, <2>4, PlacesKept
<1>5. ASSUME NEW s \in Stoppers, DrainTimeout(s) \/ StopCancelled(s) PROVE PlacesInv'
  <2>1. /\ stopper[s].pc = "drain" /\ Live(stopper[s].gen) /\ Cancel(stopper[s].gen)
        /\ UNCHANGED <<faults, closing, stopFailed, gens, current>>
        /\ \/ stopper' = stopper
           \/ /\ worker[stopper[s].gen].pc # "new"
              /\ stopper' = [stopper EXCEPT ![s].timedOut = TRUE]
    BY <1>5 DEF DrainTimeout, StopCancelled
  <2>2. stopper[s].gen \in Gens
    BY <1>0, <2>1, Sets
  <2> QED BY <2>1, <2>2, CancelPlaces
<1>6. ASSUME NEW c \in Callers, Enqueue(c) PROVE PlacesInv'
  <2>1. /\ answer[c] = "idle" /\ \A b \in 1..(c - 1) : answer[b] # "idle"
        /\ UNCHANGED <<faults, closing, stopFailed, gens, current, worker, stopper, main, pushed>>
    BY <1>6 DEF Enqueue
  <2>2. CASE closing \/ current = 0
    <3>1. answer' = [answer EXCEPT ![c] = "refused"] /\ UNCHANGED queues
      BY <1>6, <2>2 DEF Enqueue
    <3> QED BY <2>1, <3>1, AnswerPlaces
  <2>3. CASE ~(closing \/ current = 0)
    <3>1. /\ answer' = [answer EXCEPT ![c] = "waiting"]
          /\ queues' = [queues EXCEPT ![current] = Append(@, c)]
      BY <1>6, <2>3 DEF Enqueue
    <3>2. current \in Gens /\ current <= gens /\ c # Sentinel
      BY <1>0, <2>3, Sets
    <3> QED BY <1>0, <2>1, <3>1, <3>2, AppendPlaces
  <2> QED BY <2>2, <2>3
<1>7. ASSUME NEW c \in Callers, CallerCancelled(c) PROVE PlacesInv'
  BY <1>7, AnswerPlaces DEF CallerCancelled
<1>8. ASSUME NEW g \in Gens, WorkerBegin(g) PROVE PlacesInv'
  <2>1. /\ worker[g].pc = "new"
        /\ UNCHANGED <<faults, closing, stopFailed, gens, current, queues, stopper, answer, main, pushed>>
    BY <1>8 DEF WorkerBegin
  <2>2. /\ worker' \in [Gens -> WorkerRecord]
        /\ worker'[g].pc = (IF current = 0 THEN "done" ELSE "get") /\ worker'[g].queue = current
        /\ worker'[g].item = worker[g].item
        /\ \A h \in Gens \ {g} : worker'[h] = worker[h]
    BY <1>0, <1>8, BeginFacts
  <2>3. /\ ~Writing(g) /\ worker'[g].pc \in {"new", "get"} \union Ended
        /\ worker'[g].pc = "get" => worker'[g].queue \in Gens
    BY <1>0, <2>1, <2>2, Sets DEF Writing, Ended
  <2>4. g <= gens
    BY <1>0, <2>1, Sets DEF Started
  <2> QED BY <1>0, <2>1, <2>2, <2>3, <2>4, MovedPlaces
<1>9. ASSUME NEW g \in Gens, Get(g) PROVE PlacesInv'
  <2>1. worker[g].pc = "get" /\ queues[worker[g].queue] # <<>> /\ MayHaveLanded(g)
        /\ UNCHANGED <<faults, closing, stopFailed, gens, current, stopper, main, pushed>>
    BY <1>9 DEF Get, MayHaveLanded
  <2>2. CASE Head(queues[worker[g].queue]) = Sentinel
    <3>1. Exit(g, "done", answer) /\ "done" \in Ended
      BY <1>9, <2>2 DEF Get, Ended
    <3> QED BY <1>0, <2>1, <3>1, QuitPlaces
  <2>3. CASE Head(queues[worker[g].queue]) # Sentinel
    BY <1>9, <2>1, <2>3, TakePlaces
  <2> QED BY <2>2, <2>3
<1>10. ASSUME NEW g \in Gens, Merge(g) PROVE PlacesInv'
  <2>1. worker[g].pc = "merge" /\ Writing(g)
        /\ UNCHANGED <<faults, closing, stopFailed, gens, current, stopper, pushed>>
    BY <1>10 DEF Merge, Writing
  <2>2. CASE main' = Append(main, worker[g].item) /\ worker' = [worker EXCEPT ![g].pc = "push"]
             /\ UNCHANGED <<queues, answer>>
    <3>1. /\ worker' \in [Gens -> WorkerRecord] /\ worker'[g].pc = "push"
          /\ worker'[g].queue = worker[g].queue
          /\ worker'[g].item = worker[g].item /\ \A h \in Gens \ {g} : worker'[h] = worker[h]
      BY <1>0, <2>2, MoveFacts
    <3> QED BY <1>0, <2>1, <2>2, <3>1, MovedPlaces
  <2>3. CASE NextItem(g, "conflict") /\ UNCHANGED main
    <3>1. MayHaveLanded(g)
      BY <2>1, <2>3 DEF MayHaveLanded
    <3> QED BY <2>1, <2>3, <3>1, AnsweredPlaces
  <2> QED BY <1>10, <2>2, <2>3 DEF Merge
<1>11. ASSUME NEW g \in Gens, Push(g) PROVE PlacesInv'
  <2>1. /\ Writing(g) /\ worker[g].pc = "push" /\ NextItem(g, "merged") /\ pushed' = Range(main)
        /\ MayHaveLanded(g) /\ UNCHANGED <<faults, closing, stopFailed, gens, current, stopper>>
    BY <1>11 DEF Push, Writing, MayHaveLanded
  <2> QED BY <2>1, AnsweredPlaces
<1>12. ASSUME NEW g \in Gens, GitError(g) PROVE PlacesInv'
  <2>1. /\ Writing(g) /\ MayHaveLanded(g)
        /\ UNCHANGED <<faults, closing, stopFailed, gens, current, stopper>>
        /\ NextItem(g, "merge_error") \/ NextItem(g, "push_error")
    BY <1>12 DEF GitError, Writing
  <2> QED BY <2>1, AnsweredPlaces
<1>13. ASSUME NEW g \in Gens, CriticalError(g) PROVE PlacesInv'
  <2>1. /\ worker[g].pc \in {"get", "merge", "push"} /\ Writing(g)
        /\ Exit(g, "critical", Resolve({worker[g].item}, "critical")) /\ "critical" \in Ended
        /\ MayHaveLanded(g) /\ UNCHANGED <<faults, closing, stopFailed, gens, current, stopper>>
    BY <1>13 DEF CriticalError, Writing, Ended
  <2> QED BY <1>0, <2>1, QuitPlaces
<1> QED BY <1>1, <1>2, <1>3, <1>4, <1>5, <1>6, <1>7, <1>8, <1>9, <1>10, <1>11, <1>12, <1>13
        DEF Next, WorkerStep

\* Nothing has been called yet.
LEMMA InitPlaces == Init => PlacesInv
<1> SUFFICES ASSUME Init PROVE PlacesInv
  OBVIOUS
<1>1. /\ faults \in FaultSets /\ closing = FALSE /\ stopFailed = FALSE /\ gens = 0 /\ current = 0
      /\ queues = [g \in Gens |-> <<>>] /\ answer = [c \in Callers |-> "idle"]
      /\ worker = [g \in Gens |-> [pc |-> "none", queue |-> 0, item |-> NoCaller]]
      /\ stopper = [s \in Stoppers |-> [pc |-> "idle", gen |-> 0, timedOut |-> FALSE]]
      /\ main = <<>> /\ pushed = {}
  BY DEF Init
<1>2. DOMAIN main = {} /\ Range(main) = {} /\ main \in Seq(Callers) /\ Len(main) = 0
  BY <1>1, EmptyFacts
<1>3. \A g \in Gens : queues[g] = <<>> /\ DOMAIN queues[g] = {} /\ Range(queues[g]) = {}
                      /\ queues[g] \in Seq(Callers \union {Sentinel})
  BY <1>1, EmptyFacts
<1>4. \A g \in Gens : worker[g].pc = "none" /\ worker[g].item = NoCaller /\ g > 0 /\ worker[g] \in WorkerRecord
  BY <1>1, Sets DEF WorkerRecord
<1>5. \A s \in Stoppers : stopper[s].pc = "idle" /\ stopper[s] \in StopperRecord
  BY <1>1, Sets DEF StopperRecord
<1>6. TypeOK
  <2>1. /\ queues \in [Gens -> Seq(Callers \union {Sentinel})] /\ worker \in [Gens -> WorkerRecord]
        /\ stopper \in [Stoppers -> StopperRecord] /\ answer \in [Callers -> AnswerState]
    BY <1>1, <1>3, <1>4, <1>5 DEF AnswerState
  <2>2. faults \in FaultSets /\ closing \in BOOLEAN /\ stopFailed \in BOOLEAN /\ pushed \subseteq Callers
    BY <1>1
  <2>3. gens \in 0..MaxGen /\ current \in 0..gens
    BY <1>1, Sets
  <2> QED BY <1>2, <2>1, <2>2, <2>3 DEF TypeOK
<1>7. Started
  BY <1>1, <1>3, <1>4, <1>5, Sets DEF Started, Writing
<1>8. QueuedOnce
  BY <1>3, <1>4 DEF QueuedOnce, IsQueued, Writing
<1>9. BranchTrue
  <2>1. IsFiniteSet({}) /\ Cardinality({}) = 0
    BY FS_EmptySet
  <2>2. IsFiniteSet(Range(main)) /\ Len(main) = Cardinality(Range(main))
    BY <1>2, <2>1
  <2>3. \A c \in Callers : answer[c] = "idle" /\ c \notin Range(main)
    BY <1>1, <1>2
  <2>4. AnswerTellsTruth
    BY <2>2, <2>3 DEF AnswerTellsTruth
  <2>5. pushed \subseteq Range(main)
    <3>1. pushed = {}
      BY <1>1
    <3> QED BY <3>1
  <2> QED BY <2>2, <2>4, <2>5 DEF BranchTrue
<1>10. InTurn
  BY <1>1 DEF InTurn
<1> QED BY <1>6, <1>7, <1>8, <1>9, <1>10 DEF PlacesInv

\* ... and so it stays.
LEMMA PlacesAlways == Spec => []PlacesInv
<1>1. Init => PlacesInv
  BY InitPlaces
<1>2. PlacesInv /\ [Next]_vars => PlacesInv'
  BY NextPlaces
<1> QED BY <1>1, <1>2, PTL DEF Spec

\* Every variable keeps its type: a worker holds the work of a caller, never the
\* sentinel.
THEOREM TypeCorrect == Spec => []TypeOK
<1>1. PlacesInv => TypeOK
  BY DEF PlacesInv
<1> QED BY <1>1, PlacesAlways, PTL

\* What a caller is told is what happened to its workspace, over any number of
\* stops, restarts and workers that live side by side: merged means that the
\* backend has it, refused, in conflict or stopped that nothing was merged. Errors
\* promise nothing: a merge may land and be reported as failed.
THEOREM AnswersTrue == Spec => []AnswerTellsTruth
<1>1. PlacesInv => AnswerTellsTruth
  BY DEF PlacesInv, BranchTrue
<1> QED BY <1>1, PlacesAlways, PTL

-----------------------------------------------------------------------------
(* One worker at a time, in order                                          *)

\* Only start() makes a worker live, and only its first step gives it a queue.
LEMMA WorkersOnly ==
  ASSUME PlacesInv, [Next]_vars
  PROVE  /\ faults' = faults
         /\ \/ Start
            \/ \E g \in Gens : WorkerBegin(g)
            \/ /\ \A h \in Gens : Live(h)' => /\ Live(h) /\ worker'[h].queue = worker[h].queue
                                              /\ worker'[h].pc = "new" <=> worker[h].pc = "new"
               /\ \/ current' = current
                  \/ \E s \in Stoppers : StopReset(s)
<1>0. TypeOK /\ Started /\ \A s \in Stoppers : stopper[s].pc = "drain" => stopper[s].gen \in Gens
  <2>1. gens \in Nat /\ gens <= MaxGen
    BY Sets DEF PlacesInv, TypeOK
  <2> QED BY <2>1, Sets DEF PlacesInv, Started
<1>1. faults' = faults
  BY DEF Next, vars, Start, Stop, StopReset, DrainTimeout, StopCancelled, Enqueue, CallerCancelled,
         WorkerStep, WorkerBegin, Get, Merge, Push, GitError, CriticalError
<1> DEFINE Same == \A h \in Gens : Live(h)' => /\ Live(h) /\ worker'[h].queue = worker[h].queue
                                               /\ worker'[h].pc = "new" <=> worker[h].pc = "new"
<1>2. ASSUME worker' = worker PROVE Same
  BY <1>2 DEF Live
<1>3. CASE UNCHANGED vars
  BY <1>1, <1>2, <1>3 DEF vars
<1>4. ASSUME NEW s \in Stoppers, Stop(s) \/ StopReset(s) PROVE Same /\ (current' = current \/ StopReset(s))
  BY <1>2, <1>4 DEF Stop, StopReset
<1>5. ASSUME NEW c \in Callers, Enqueue(c) \/ CallerCancelled(c) PROVE Same /\ current' = current
  BY <1>2, <1>5 DEF Enqueue, CallerCancelled
<1>6. ASSUME NEW g \in Gens, worker[g].pc \in {"get", "merge", "push"},
             worker'[g].pc \in {"get", "merge", "push"} \union Ended, worker'[g].queue = worker[g].queue,
             \A h \in Gens \ {g} : worker'[h] = worker[h]
      PROVE  Same
  BY <1>6 DEF Live, Ended
<1>7. ASSUME NEW g \in Gens, worker[g].pc \in {"get", "merge", "push"}, NEW p \in Ended, NEW ans, Exit(g, p, ans)
      PROVE  Same
  <2> DEFINE r == [worker[g] EXCEPT !.pc = p, !.item = NoCaller]
  <2>1. r.pc = p /\ r.queue = worker[g].queue /\ r \in WorkerRecord
    BY <1>0, <1>7 DEF TypeOK, WorkerRecord
  <2>2. worker' = [worker EXCEPT ![g] = r]
    BY <1>7 DEF Exit
  <2> HIDE DEF r
  <2>3. worker'[g] = r /\ \A h \in Gens \ {g} : worker'[h] = worker[h]
    BY <1>0, <2>1, <2>2, WorkerFacts
  <2> QED BY <1>6, <1>7, <2>1, <2>3
<1>8. ASSUME NEW g \in Gens, Writing(g), NEW a, NextItem(g, a) PROVE Same
  <2> DEFINE r == [worker[g] EXCEPT !.pc = "get", !.item = NoCaller]
  <2>1. r.pc = "get" /\ r.queue = worker[g].queue /\ r \in WorkerRecord
    BY <1>0 DEF TypeOK, WorkerRecord
  <2>2. worker' = [worker EXCEPT ![g] = r]
    BY <1>8 DEF NextItem
  <2> HIDE DEF r
  <2>3. worker'[g] = r /\ \A h \in Gens \ {g} : worker'[h] = worker[h]
    BY <1>0, <2>1, <2>2, WorkerFacts
  <2> QED BY <1>6, <1>8, <2>1, <2>3 DEF Writing
<1>9. ASSUME NEW s \in Stoppers, DrainTimeout(s) \/ StopCancelled(s) PROVE Same /\ current' = current
  <2> DEFINE g == stopper[s].gen
  <2>1. g \in Gens /\ Live(g) /\ Cancel(g) /\ current' = current
    BY <1>0, <1>9 DEF DrainTimeout, StopCancelled
  <2>2. CASE worker[g].pc = "new"
    <3>1. worker' = [worker EXCEPT ![g].pc = "cancelled"]
      BY <2>1, <2>2 DEF Cancel
    <3>2. worker'[g].pc = "cancelled" /\ \A h \in Gens \ {g} : worker'[h] = worker[h]
      <4> HIDE DEF g
      <4> QED BY <1>0, <2>1, <3>1, MoveFacts DEF Ended
    <3> QED BY <2>1, <3>2 DEF Live, Ended
  <2>3. CASE worker[g].pc # "new"
    <3>1. worker[g].pc \in {"get", "merge", "push"}
      BY <1>0, <2>1, <2>3 DEF Live, TypeOK, WorkerRecord
    <3>2. Exit(g, "cancelled", answer) /\ "cancelled" \in Ended
      BY <2>1, <2>3 DEF Cancel, Ended
    <3> QED BY <1>7, <2>1, <3>1, <3>2
  <2> QED BY <2>2, <2>3
<1>10. ASSUME NEW g \in Gens, Get(g) PROVE Same /\ current' = current
  <2>1. worker[g].pc = "get" /\ queues[worker[g].queue] # <<>> /\ current' = current /\ worker[g].queue \in Gens
    BY <1>0, <1>10 DEF Get, Started
  <2>2. CASE Head(queues[worker[g].queue]) = Sentinel
    <3>1. Exit(g, "done", answer) /\ "done" \in Ended
      BY <1>10, <2>2 DEF Get, Ended
    <3> QED BY <1>7, <2>1, <3>1
  <2>3. CASE Head(queues[worker[g].queue]) # Sentinel
    BY <1>0, <1>6, <1>10, <2>1, <2>3, TakeFacts
  <2> QED BY <2>2, <2>3
<1>11. ASSUME NEW g \in Gens, Merge(g) PROVE Same /\ current' = current
  <2>1. worker[g].pc = "merge" /\ current' = current /\ Writing(g)
    BY <1>11 DEF Merge, Writing
  <2>2. CASE worker' = [worker EXCEPT ![g].pc = "push"]
    BY <1>0, <1>6, <2>1, <2>2, MoveFacts
  <2> QED BY <1>8, <1>11, <2>1, <2>2 DEF Merge
<1>12. ASSUME NEW g \in Gens, Push(g) \/ GitError(g) \/ CriticalError(g) PROVE Same /\ current' = current
  <2>1. worker[g].pc \in {"get", "merge", "push"} /\ Writing(g) /\ current' = current /\ "critical" \in Ended
    BY <1>12 DEF Push, GitError, CriticalError, Writing, Ended
  <2> QED BY <1>7, <1>8, <1>12, <2>1 DEF Push, GitError, CriticalError
<1> HIDE DEF Same
<1>13. \/ Start
       \/ \E g \in Gens : WorkerBegin(g)
       \/ Same /\ (current' = current \/ \E s \in Stoppers : StopReset(s))
  BY <1>2, <1>3, <1>4, <1>5, <1>9, <1>10, <1>11, <1>12 DEF Next, WorkerStep, vars
<1> QED BY <1>1, <1>13 DEF Same

\* Without a start() into a drain, the current worker is the only live one.
LEMMA NextAlone == PlacesInv /\ Alone /\ [Next]_vars => Alone'
<1> SUFFICES ASSUME PlacesInv, Alone, [Next]_vars, "restart_in_drain" \notin faults,
                    NEW g \in Gens, Live(g)'
             PROVE  g = current' /\ (worker'[g].pc # "new" => worker'[g].queue = g)
  BY WorkersOnly DEF Alone
<1>0. TypeOK /\ \A h \in Gens : Live(h) => h = current /\ (worker[h].pc # "new" => worker[h].queue = h)
  BY DEF Alone, PlacesInv
<1>1. CASE Start
  <2>1. \A h \in Gens : ~Live(h)
    BY <1>0, <1>1 DEF Start
  <2>2. gens + 1 \in Gens /\ current' = gens + 1 /\ worker' = [worker EXCEPT ![gens + 1].pc = "new"]
    BY <1>0, <1>1, Sets DEF Start, TypeOK
  <2>3. worker'[gens + 1].pc = "new" /\ \A h \in Gens : h # gens + 1 => worker'[h] = worker[h]
    BY <1>0, <2>2, MoveFacts
  <2>4. g = gens + 1
    BY <2>1, <2>3 DEF Live
  <2> QED BY <2>2, <2>3, <2>4
<1>2. ASSUME NEW h \in Gens, WorkerBegin(h) PROVE g = current' /\ (worker'[g].pc # "new" => worker'[g].queue = g)
  <2>1. worker[h].pc = "new" /\ current' = current
    BY <1>2 DEF WorkerBegin
  <2>2. h = current
    BY <1>0, <2>1 DEF Live, Ended
  <2>3. worker'[h].queue = current /\ \A e \in Gens \ {h} : worker'[e] = worker[e]
    BY <1>0, <1>2, BeginFacts
  <2>4. CASE g = h
    BY <2>1, <2>2, <2>3, <2>4
  <2>5. CASE g # h
    <3>1. Live(g)
      BY <2>3, <2>5 DEF Live
    <3> QED BY <1>0, <2>2, <2>5, <3>1
  <2> QED BY <2>4, <2>5
<1>3. ASSUME Live(g), worker'[g].queue = worker[g].queue, worker'[g].pc = "new" <=> worker[g].pc = "new",
             current' = current \/ \E s \in Stoppers : StopReset(s)
      PROVE  g = current' /\ (worker'[g].pc # "new" => worker'[g].queue = g)
  <2>1. g = current /\ (worker[g].pc # "new" => worker[g].queue = g)
    BY <1>0, <1>3
  <2>2. ASSUME NEW s \in Stoppers, StopReset(s) PROVE current' = current
    <3>1. worker[stopper[s].gen].pc \in Ended /\ current' = IF current = stopper[s].gen THEN 0 ELSE current
      BY <2>2 DEF StopReset
    <3>2. current # stopper[s].gen
      BY <1>3, <2>1, <3>1 DEF Live
    <3> QED BY <3>1, <3>2
  <2> QED BY <1>3, <2>1, <2>2
<1> QED BY <1>1, <1>2, <1>3, WorkersOnly

\* A worker that drops its item, or keeps it, leaves the order as it is.
LEMMA OrderKept ==
  ASSUME NEW m, NEW w, NEW v, NEW q, InOrder(m, w, q), \A i \in DOMAIN q : q[i] \in Callers \union {Sentinel},
         v.pc = "merge" => w.pc = "merge" /\ v.item = w.item, v.item \in {w.item, NoCaller}
  PROVE  InOrder(m, v, q)
<1>1. \A i \in DOMAIN q : q[i] # Sentinel => v.item < q[i]
  BY Sets DEF InOrder
<1> QED BY <1>1 DEF InOrder

\* Whoever has not called yet comes after whatever is on the branch, with a worker
\* or queued.
LEMMA IdleIsLast ==
  ASSUME PlacesInv, NEW c \in Callers, answer[c] = "idle"
  PROVE  /\ \A x \in Range(main) : x < c
         /\ \A g \in Gens : worker[g].item < c
         /\ \A q \in Gens : \A i \in DOMAIN queues[q] : queues[q][i] < c
<1>1. ASSUME NEW x \in Callers, answer[x] # "idle" PROVE x < c
  <2>1. x # c /\ ~(c < x)
    BY <1>1 DEF PlacesInv, InTurn
  <2> QED BY <2>1, Sets
<1>2. ASSUME NEW x \in Range(main) PROVE x < c
  <2>1. x \in Callers
    BY <1>2 DEF PlacesInv, TypeOK, Range
  <2>2. answer[x] # "idle"
    BY <1>2, <2>1 DEF PlacesInv, BranchTrue, AnswerTellsTruth
  <2> QED BY <1>1, <2>1, <2>2
<1>3. ASSUME NEW g \in Gens PROVE worker[g].item < c
  <2>1. CASE worker[g].item \in Callers
    <3>1. answer[worker[g].item] # "idle"
      BY <2>1 DEF PlacesInv, Started, QueuedOnce, Waiting
    <3> QED BY <1>1, <2>1, <3>1
  <2>2. CASE worker[g].item \notin Callers
    <3>1. worker[g].item = NoCaller
      BY <2>2 DEF PlacesInv, TypeOK, WorkerRecord
    <3> QED BY <3>1, Sets
  <2> QED BY <2>1, <2>2
<1>4. ASSUME NEW q \in Gens, NEW i \in DOMAIN queues[q] PROVE queues[q][i] < c
  <2>1. CASE queues[q][i] = Sentinel
    BY <2>1, Sets
  <2>2. CASE queues[q][i] # Sentinel
    <3>1. queues[q][i] \in Callers
      BY <1>4, <2>2, QueueItems DEF PlacesInv
    <3>2. IsQueued(queues[q][i])
      BY <1>4 DEF IsQueued, Range
    <3>3. answer[queues[q][i]] # "idle"
      BY <3>1, <3>2 DEF PlacesInv, QueuedOnce, Waiting
    <3> QED BY <1>1, <3>1, <3>3
  <2> QED BY <2>1, <2>2
<1> QED BY <1>2, <1>3, <1>4

\* What is appended to the branch behind everything on it keeps it in order.
LEMMA AppendAscending ==
  ASSUME NEW m \in Seq(Callers), NEW c \in Callers, \A x \in Range(m) : x < c,
         \A i, j \in DOMAIN m : i < j => m[i] < m[j]
  PROVE  \A i, j \in DOMAIN Append(m, c) : i < j => Append(m, c)[i] < Append(m, c)[j]
<1>1. /\ DOMAIN m = 1..Len(m) /\ Len(m) \in Nat /\ DOMAIN Append(m, c) = 1..(Len(m) + 1)
      /\ \A i \in 1..Len(m) : Append(m, c)[i] = m[i]
      /\ Append(m, c)[Len(m) + 1] = c
  BY AppendFacts
<1>2. ASSUME NEW i \in DOMAIN Append(m, c), NEW j \in DOMAIN Append(m, c), i < j
      PROVE  Append(m, c)[i] < Append(m, c)[j]
  <2>1. i \in 1..Len(m) /\ Append(m, c)[i] = m[i]
    BY <1>1, <1>2
  <2>2. CASE j \in 1..Len(m)
    BY <1>1, <1>2, <2>1, <2>2
  <2>3. CASE j = Len(m) + 1
    <3>1. m[i] \in Range(m)
      BY <1>1, <2>1 DEF Range
    <3> QED BY <1>1, <2>1, <2>3, <3>1
  <2> QED BY <1>1, <2>2, <2>3
<1> QED BY <1>2

\* Only a merge adds to the branch, one that returns or one that does not.
BranchKept == main' = main \/ \E g \in Gens : worker[g].pc = "merge" /\ main' = Append(main, worker[g].item)

\* ... and every step keeps to that.
LEMMA NextBranch == PlacesInv /\ [Next]_vars => BranchKept
<1> SUFFICES ASSUME PlacesInv, [Next]_vars PROVE BranchKept
  OBVIOUS
<1>1. ASSUME NEW s \in Stoppers, DrainTimeout(s) \/ StopCancelled(s) PROVE BranchKept
  <2>1. stopper[s].pc = "drain" /\ Cancel(stopper[s].gen)
    BY <1>1 DEF DrainTimeout, StopCancelled
  <2>2. stopper[s].gen \in Gens
    <3>1. stopper[s].gen \in 1..gens /\ gens \in Nat /\ gens <= MaxGen
      BY <2>1, Sets DEF PlacesInv, Started, TypeOK
    <3> QED BY <3>1, Sets
  <2> QED BY <2>1, <2>2 DEF Cancel, MayHaveLanded, BranchKept
<1>2. ASSUME NEW g \in Gens, Merge(g) PROVE BranchKept
  BY <1>2 DEF Merge, BranchKept
<1>3. ASSUME NEW s \in Stoppers, Stop(s) \/ StopReset(s) PROVE BranchKept
  BY <1>3 DEF Stop, StopReset, BranchKept
<1>4. ASSUME NEW g \in Gens, WorkerBegin(g) \/ Get(g) \/ Push(g) \/ GitError(g) \/ CriticalError(g)
      PROVE  BranchKept
  BY <1>4 DEF WorkerBegin, Get, Push, GitError, CriticalError, MayHaveLanded, BranchKept
<1>5. ASSUME NEW c \in Callers, Enqueue(c) \/ CallerCancelled(c) PROVE BranchKept
  BY <1>5 DEF Enqueue, CallerCancelled, BranchKept
<1>6. CASE Start \/ UNCHANGED vars
  BY <1>6 DEF Start, vars, BranchKept
<1> QED BY <1>1, <1>2, <1>3, <1>4, <1>5, <1>6 DEF Next, WorkerStep

\* Work reaches the branch in the order it was accepted.
LEMMA NextAscending == PlacesInv /\ Alone /\ Ascending /\ [Next]_vars => Ascending'
<1> SUFFICES ASSUME PlacesInv, Alone, Ascending, [Next]_vars, "restart_in_drain" \notin faults
             PROVE  /\ \A i, j \in DOMAIN main' : i < j => main'[i] < main'[j]
                    /\ \A g \in Gens : Live(g)' => InOrder(main', worker'[g], queues'[g])
  BY WorkersOnly DEF Ascending
<1>0. /\ TypeOK /\ Started /\ main \in Seq(Callers)
      /\ \A g \in Gens : Live(g) => g = current /\ (worker[g].pc # "new" => worker[g].queue = g)
      /\ \A i, j \in DOMAIN main : i < j => main[i] < main[j]
      /\ \A g \in Gens : Live(g) => InOrder(main, worker[g], queues[g])
      /\ \A g \in Gens : \A i \in DOMAIN queues[g] : queues[g][i] \in Callers \union {Sentinel}
  BY QueueItems DEF PlacesInv, Alone, Ascending, TypeOK
<1>1. \A i, j \in DOMAIN main' : i < j => main'[i] < main'[j]
  <2>1. ASSUME NEW g \in Gens, worker[g].pc = "merge", main' = Append(main, worker[g].item)
        PROVE  \A i, j \in DOMAIN main' : i < j => main'[i] < main'[j]
    <3>1. Live(g) /\ worker[g].item \in Callers
      BY <1>0, <2>1 DEF Live, Ended, Started, Writing
    <3>2. \A x \in Range(main) : x < worker[g].item
      BY <1>0, <2>1, <3>1 DEF InOrder
    <3> QED BY <1>0, <2>1, <3>1, <3>2, AppendAscending
  <2> QED BY <1>0, <2>1, NextBranch DEF BranchKept
<1> DEFINE Order == \A g \in Gens : Live(g)' => InOrder(main', worker'[g], queues'[g])
<1>2. ASSUME UNCHANGED <<main, queues>>,
             \A g \in Gens : Live(g)' =>
               /\ Live(g) /\ worker'[g].item \in {worker[g].item, NoCaller}
               /\ worker'[g].pc = "merge" => worker[g].pc = "merge" /\ worker'[g].item = worker[g].item
      PROVE  Order
  BY <1>0, <1>2, OrderKept
<1>3. CASE UNCHANGED <<worker, queues, main>>
  <2>1. \A g \in Gens : Live(g)' => Live(g)
    BY <1>3 DEF Live
  <2>2. Order
    BY <1>2, <1>3, <2>1
  <2> QED BY <1>1, <2>2
<1>4. CASE Start
  <2>1. \A h \in Gens : ~Live(h)
    BY <1>0, <1>4 DEF Start
  <2>2. gens + 1 \in Gens /\ worker' = [worker EXCEPT ![gens + 1].pc = "new"] /\ UNCHANGED queues
    BY <1>0, <1>4, Sets DEF Start, TypeOK
  <2>3. worker'[gens + 1].pc = "new" /\ \A h \in Gens : h # gens + 1 => worker'[h] = worker[h]
    BY <1>0, <2>2, MoveFacts
  <2>4. \A g \in Gens : Live(g)' => g = gens + 1
    BY <2>1, <2>3 DEF Live
  <2>5. queues'[gens + 1] = <<>>
    <3>1. gens \in Nat /\ gens + 1 > gens
      BY <1>0, Sets DEF TypeOK
    <3> QED BY <1>0, <2>2, <3>1 DEF Started
  <2>6. DOMAIN queues'[gens + 1] = {}
    BY <2>5, EmptyFacts
  <2>7. InOrder(main', worker'[gens + 1], queues'[gens + 1])
    BY <2>3, <2>6 DEF InOrder
  <2> QED BY <1>1, <2>4, <2>7
<1>5. ASSUME NEW q \in Gens, NEW e \in Callers \union {Sentinel}, e # Sentinel => answer[e] = "idle",
             queues' = [queues EXCEPT ![q] = Append(@, e)], UNCHANGED <<worker, main>>
      PROVE  Order
  <2> SUFFICES ASSUME NEW g \in Gens, Live(g) PROVE InOrder(main, worker[g], queues'[g])
    BY <1>5 DEF Live
  <2>1. InOrder(main, worker[g], queues[g])
    BY <1>0
  <2>2. CASE g # q
    BY <1>0, <1>5, <2>1, <2>2 DEF TypeOK
  <2>3. CASE g = q
    <3>1. queues[q] \in Seq(Callers \union {Sentinel}) /\ queues'[q] = Append(queues[q], e)
      BY <1>0, <1>5 DEF TypeOK
    <3>2. /\ DOMAIN queues[q] = 1..Len(queues[q]) /\ Len(queues[q]) \in Nat
          /\ DOMAIN queues'[q] = 1..(Len(queues[q]) + 1)
          /\ \A i \in 1..Len(queues[q]) : queues'[q][i] = queues[q][i]
          /\ queues'[q][Len(queues[q]) + 1] = e
      BY <3>1, AppendFacts
    <3>3. ASSUME e # Sentinel
          PROVE  /\ \A x \in Range(main) : x < e
                 /\ worker[q].item < e /\ \A i \in DOMAIN queues[q] : queues[q][i] < e
      <4>1. e \in Callers /\ answer[e] = "idle"
        BY <1>5, <3>3
      <4> QED BY <4>1, IdleIsLast
    <3>4. ASSUME NEW i \in DOMAIN queues'[q], queues'[q][i] # Sentinel
          PROVE  /\ \A x \in Range(main) : x < queues'[q][i]
                 /\ worker[q].item < queues'[q][i]
                 /\ \A j \in DOMAIN queues'[q] : j < i => queues'[q][j] < queues'[q][i]
      <4>1. CASE i = Len(queues[q]) + 1
        <5>1. queues'[q][i] = e /\ e # Sentinel
          BY <3>2, <3>4, <4>1
        <5>2. \A j \in DOMAIN queues'[q] : j < i => j \in DOMAIN queues[q] /\ queues'[q][j] = queues[q][j]
          BY <3>2, <4>1
        <5> QED BY <3>3, <5>1, <5>2
      <4>2. CASE i \in DOMAIN queues[q]
        <5>1. queues'[q][i] = queues[q][i] /\ queues[q][i] # Sentinel
          BY <3>2, <3>4, <4>2
        <5>2. \A j \in DOMAIN queues'[q] : j < i => j \in DOMAIN queues[q] /\ queues'[q][j] = queues[q][j]
          BY <3>2, <4>2
        <5> QED BY <2>1, <2>3, <4>2, <5>1, <5>2 DEF InOrder
      <4> QED BY <3>2, <4>1, <4>2
    <3> QED BY <2>1, <2>3, <3>4 DEF InOrder
  <2> QED BY <2>2, <2>3
<1>6. ASSUME NEW s \in Stoppers, Stop(s) \/ StopReset(s) PROVE Order
  <2>1. CASE UNCHANGED queues
    <3>1. UNCHANGED <<worker, queues, main>>
      BY <1>6, <2>1 DEF Stop, StopReset
    <3> QED BY <1>3, <3>1
  <2>2. CASE current # 0 /\ queues' = [queues EXCEPT ![current] = Append(@, Sentinel)] /\ UNCHANGED <<worker, main>>
    <3>1. current \in Gens
      BY <1>0, <2>2, Sets DEF TypeOK
    <3> QED BY <1>5, <2>2, <3>1
  <2> QED BY <1>6, <2>1, <2>2 DEF Stop, StopReset
<1>7. ASSUME NEW c \in Callers, Enqueue(c) \/ CallerCancelled(c) PROVE Order
  <2>1. UNCHANGED <<worker, main>>
    BY <1>7 DEF Enqueue, CallerCancelled
  <2>2. CASE UNCHANGED queues
    BY <1>3, <2>1, <2>2
  <2>3. CASE answer[c] = "idle" /\ current # 0 /\ queues' = [queues EXCEPT ![current] = Append(@, c)]
    <3>1. current \in Gens
      BY <1>0, <2>3, Sets DEF TypeOK
    <3> QED BY <1>5, <2>1, <2>3, <3>1
  <2> QED BY <1>7, <2>2, <2>3 DEF Enqueue, CallerCancelled
<1>8. ASSUME NEW g \in Gens, WorkerBegin(g) PROVE Order
  <2>1. worker[g].pc = "new" /\ UNCHANGED <<main, queues>>
    BY <1>8 DEF WorkerBegin
  <2>2. /\ worker'[g].pc # "merge" /\ worker'[g].item = worker[g].item
        /\ \A h \in Gens \ {g} : worker'[h] = worker[h]
    BY <1>0, <1>8, BeginFacts
  <2>3. ASSUME NEW h \in Gens, Live(h)'
        PROVE  /\ Live(h) /\ worker'[h].item = worker[h].item
               /\ worker'[h].pc = "merge" => worker[h].pc = "merge"
    BY <2>1, <2>2, <2>3 DEF Live, Ended
  <2> QED BY <1>2, <2>1, <2>3
<1>9. ASSUME NEW g \in Gens, Live(g), worker'[g].pc \in Ended, \A h \in Gens \ {g} : worker'[h] = worker[h]
      PROVE  Order
  <2>1. \A h \in Gens : Live(h) => h = g
    BY <1>0, <1>9
  <2>2. \A h \in Gens : ~Live(h)'
    BY <1>9, <2>1 DEF Live
  <2> QED BY <2>2
<1>10. ASSUME NEW g \in Gens, worker[g].pc \in {"get", "merge", "push"}, NEW p \in Ended, NEW ans, Exit(g, p, ans)
       PROVE  Order
  <2> DEFINE r == [worker[g] EXCEPT !.pc = p, !.item = NoCaller]
  <2>0. Live(g)
    BY <1>10 DEF Live, Ended
  <2>1. r.pc = p /\ r \in WorkerRecord
    <3>1. worker[g] \in WorkerRecord
      BY <1>0 DEF TypeOK
    <3> QED BY <1>10, <3>1 DEF WorkerRecord
  <2>2. worker' = [worker EXCEPT ![g] = r]
    BY <1>10 DEF Exit
  <2> HIDE DEF r
  <2>3. worker'[g] = r /\ \A h \in Gens \ {g} : worker'[h] = worker[h]
    BY <1>0, <2>1, <2>2, WorkerFacts
  <2> QED BY <1>9, <2>0, <2>1, <2>3
<1>11. ASSUME NEW s \in Stoppers, DrainTimeout(s) \/ StopCancelled(s) PROVE Order
  <2> DEFINE g == stopper[s].gen
  <2>1. Live(g) /\ Cancel(g) /\ stopper[s].pc = "drain"
    BY <1>11 DEF DrainTimeout, StopCancelled
  <2>2. g \in Gens
    <3>1. stopper[s].gen \in 1..gens /\ gens \in Nat /\ gens <= MaxGen
      BY <1>0, <2>1, Sets DEF Started, TypeOK
    <3> QED BY <3>1, Sets
  <2>3. CASE worker[g].pc = "new"
    <3>1. worker' = [worker EXCEPT ![g].pc = "cancelled"] /\ "cancelled" \in Ended
      BY <2>1, <2>3 DEF Cancel, Ended
    <3>2. worker'[g].pc = "cancelled" /\ \A h \in Gens \ {g} : worker'[h] = worker[h]
      <4> HIDE DEF g
      <4> QED BY <1>0, <2>2, <3>1, MoveFacts
    <3> HIDE DEF g
    <3> QED BY <1>9, <2>1, <2>2, <3>1, <3>2
  <2>4. CASE worker[g].pc # "new"
    <3>1. worker[g].pc \in {"get", "merge", "push"}
      BY <1>0, <2>1, <2>2, <2>4 DEF Live, TypeOK, WorkerRecord
    <3>2. Exit(g, "cancelled", answer) /\ "cancelled" \in Ended
      BY <2>1, <2>4 DEF Cancel, Ended
    <3> HIDE DEF g
    <3> QED BY <1>10, <2>2, <3>1, <3>2
  <2> QED BY <2>3, <2>4
<1>12. ASSUME NEW g \in Gens, Get(g) PROVE Order
  <2>1. /\ worker[g].pc = "get" /\ Live(g) /\ queues[worker[g].queue] # <<>> /\ main' = main
        /\ worker[g].queue = g
    BY <1>0, <1>12 DEF Get, Live, Ended
  <2>2. CASE Head(queues[g]) = Sentinel
    <3>1. Exit(g, "done", answer) /\ "done" \in Ended
      BY <1>12, <2>1, <2>2 DEF Get, Ended
    <3> QED BY <1>10, <2>1, <3>1
  <2>3. CASE Head(queues[g]) # Sentinel
    <3>1. /\ worker'[g].item = Head(queues[g]) /\ queues'[g] = Tail(queues[g])
          /\ \A h \in Gens \ {g} : worker'[h] = worker[h]
      BY <1>0, <1>12, <2>1, <2>3, TakeFacts
    <3>2. /\ Head(queues[g]) = queues[g][1] /\ 1 \in DOMAIN queues[g]
          /\ \A i \in DOMAIN Tail(queues[g]) :
               i \in Nat /\ i >= 1 /\ i + 1 \in DOMAIN queues[g] /\ Tail(queues[g])[i] = queues[g][i + 1]
      BY <1>0, <2>1, QueueItems, TailFacts
    <3>3. InOrder(main, worker[g], queues[g])
      BY <1>0, <2>1
    <3>4. \A x \in Range(main) : x < worker'[g].item
      BY <2>3, <3>1, <3>2, <3>3 DEF InOrder
    <3>5. ASSUME NEW i \in DOMAIN Tail(queues[g]), Tail(queues[g])[i] # Sentinel
          PROVE  /\ \A x \in Range(main) : x < Tail(queues[g])[i]
                 /\ worker'[g].item < Tail(queues[g])[i]
                 /\ \A j \in DOMAIN Tail(queues[g]) : j < i => Tail(queues[g])[j] < Tail(queues[g])[i]
      <4>1. /\ i \in Nat /\ i >= 1 /\ i + 1 \in DOMAIN queues[g] /\ Tail(queues[g])[i] = queues[g][i + 1]
            /\ queues[g][i + 1] # Sentinel
        BY <3>2, <3>5
      <4>2. /\ \A x \in Range(main) : x < queues[g][i + 1]
            /\ \A j \in DOMAIN queues[g] : j < i + 1 => queues[g][j] < queues[g][i + 1]
        BY <3>3, <4>1 DEF InOrder
      <4>3. queues[g][1] < queues[g][i + 1]
        BY <3>2, <4>1, <4>2
      <4>4. ASSUME NEW j \in DOMAIN Tail(queues[g]), j < i
            PROVE  Tail(queues[g])[j] < Tail(queues[g])[i]
        <5>1. j + 1 \in DOMAIN queues[g] /\ Tail(queues[g])[j] = queues[g][j + 1] /\ j + 1 < i + 1
          BY <3>2, <4>1, <4>4
        <5> QED BY <4>1, <4>2, <5>1
      <4> QED BY <3>1, <3>2, <4>1, <4>2, <4>3, <4>4
    <3>6. InOrder(main', worker'[g], queues'[g])
      BY <2>1, <3>1, <3>4, <3>5 DEF InOrder
    <3>7. \A h \in Gens : Live(h)' => h = g
      BY <1>0, <2>1, <3>1 DEF Live
    <3> QED BY <3>6, <3>7
  <2> QED BY <2>2, <2>3
<1>13. ASSUME NEW g \in Gens, Writing(g), NEW a \in AnswerState, NextItem(g, a),
              main' = main \/ main' = Append(main, worker[g].item)
       PROVE  Order
  <2>1. worker[g].item \in Callers /\ Live(g)
    BY <1>0, <1>13 DEF Started, Live, Writing, Ended
  <2>2. /\ worker'[g].pc = "get" /\ worker'[g].item = NoCaller
        /\ \A h \in Gens \ {g} : worker'[h] = worker[h]
    BY <1>0, <1>13, <2>1, NextItemFacts
  <2>3. queues' = queues
    BY <1>13 DEF NextItem
  <2>4. Range(main') \subseteq Range(main) \union {worker[g].item}
    <3>1. CASE main' = main
      BY <3>1
    <3>2. CASE main' = Append(main, worker[g].item)
      BY <1>0, <2>1, <3>2, AppendFacts
    <3> QED BY <1>13, <3>1, <3>2
  <2>5. InOrder(main, worker[g], queues[g])
    BY <1>0, <2>1
  <2>6. \A n \in DOMAIN queues[g] : queues[g][n] # Sentinel =>
          NoCaller < queues[g][n] /\ \A x \in Range(main') : x < queues[g][n]
    <3>1. \A n \in DOMAIN queues[g] : queues[g][n] # Sentinel => NoCaller < queues[g][n]
      BY <1>0, Sets
    <3> QED BY <2>4, <2>5, <3>1 DEF InOrder
  <2>7. InOrder(main', worker'[g], queues[g])
    BY <2>2, <2>5, <2>6 DEF InOrder
  <2>8. \A h \in Gens : Live(h)' => h = g
    BY <1>0, <2>1, <2>2 DEF Live
  <2> QED BY <2>3, <2>7, <2>8
<1>14. ASSUME NEW g \in Gens, Merge(g) PROVE Order
  <2>1. worker[g].pc = "merge" /\ Writing(g) /\ Live(g) /\ worker[g].item \in Callers /\ "conflict" \in AnswerState
    BY <1>0, <1>14 DEF Merge, Writing, Live, Ended, Started, AnswerState, Answers
  <2>2. CASE NextItem(g, "conflict") /\ UNCHANGED main
    BY <1>13, <2>1, <2>2
  <2>3. CASE main' = Append(main, worker[g].item) /\ worker' = [worker EXCEPT ![g].pc = "push"]
             /\ UNCHANGED queues
    <3>1. /\ worker'[g].pc = "push" /\ worker'[g].item = worker[g].item
          /\ \A h \in Gens \ {g} : worker'[h] = worker[h]
      BY <1>0, <2>3, MoveFacts
    <3>2. Range(main') = Range(main) \union {worker[g].item}
      BY <1>0, <2>1, <2>3, AppendFacts
    <3>3. InOrder(main, worker[g], queues[g])
      BY <1>0, <2>1
    <3>4. \A i \in DOMAIN queues[g] : queues[g][i] # Sentinel =>
            \A x \in Range(main') : x < queues[g][i]
      BY <3>2, <3>3 DEF InOrder
    <3>5. InOrder(main', worker'[g], queues[g])
      BY <3>1, <3>3, <3>4 DEF InOrder
    <3>6. \A h \in Gens : Live(h)' => h = g
      BY <1>0, <2>1, <3>1 DEF Live
    <3> QED BY <2>3, <3>5, <3>6
  <2> QED BY <1>14, <2>2, <2>3 DEF Merge
<1>15. ASSUME NEW g \in Gens, Push(g) \/ GitError(g) \/ CriticalError(g) PROVE Order
  <2>1. /\ Writing(g) /\ worker[g].pc \in {"get", "merge", "push"}
        /\ main' = main \/ main' = Append(main, worker[g].item)
    BY <1>15 DEF Push, GitError, CriticalError, MayHaveLanded, Writing
  <2>2. "critical" \in Ended /\ {"merged", "merge_error", "push_error"} \subseteq AnswerState
    BY DEF Ended, AnswerState, Answers
  <2>3. \/ Exit(g, "critical", Resolve({worker[g].item}, "critical"))
        \/ \E a \in {"merged", "merge_error", "push_error"} : NextItem(g, a)
    BY <1>15 DEF Push, GitError, CriticalError
  <2> QED BY <1>10, <1>13, <2>1, <2>2, <2>3
<1>16. CASE UNCHANGED vars
  BY <1>3, <1>16 DEF vars
<1>17. Order
  BY <1>4, <1>6, <1>7, <1>8, <1>11, <1>12, <1>14, <1>15, <1>16 DEF Next, WorkerStep
<1> QED BY <1>1, <1>17

\* Merges and pushes are serial and in the order the work was accepted, through any
\* number of stops, restarts, failures and cancellations, as long as no start()
\* comes into a drain.
THEOREM MergesSerial == Spec => []SerialFifo
<1>1. Init => Alone /\ Ascending
  <2> SUFFICES ASSUME Init PROVE Alone /\ Ascending
    OBVIOUS
  <2>1. \A g \in Gens : ~Live(g)
    BY DEF Init, Live
  <2>2. main = <<>>
    BY DEF Init
  <2>3. DOMAIN main = {}
    BY <2>2, EmptyFacts
  <2> QED BY <2>1, <2>3 DEF Alone, Ascending
<1>2. PlacesInv /\ Alone /\ Ascending /\ [Next]_vars => Alone' /\ Ascending'
  BY NextAlone, NextAscending
<1>3. Alone /\ Ascending => SerialFifo
  BY DEF Alone, Ascending, SerialFifo, Writing, Live, Ended
<1> QED BY <1>1, <1>2, <1>3, PlacesAlways, PTL DEF Spec

-----------------------------------------------------------------------------
(* Nobody is left behind                                                   *)

\* The current worker serves whoever waits.
LEMMA NextServed == PlacesInv /\ Alone /\ Served /\ [Next]_vars => Served'
<1> DEFINE Held(c) == \E g \in Gens : /\ g = current /\ Live(g)
                                      /\ worker[g].item = c \/ c \in Range(queues[g])
           Open    == \A g \in Gens : g = current /\ ~closing => Live(g) /\ Sentinel \notin Range(queues[g])
<1> SUFFICES ASSUME PlacesInv, Alone, Served, [Next]_vars, Unharmed
             PROVE  (\A c \in Callers : answer'[c] = "waiting" => Held(c)') /\ Open'
  BY WorkersOnly DEF Served, Unharmed
<1>0. /\ TypeOK /\ Started
      /\ {"drain_timeout", "stop_cancelled", "critical", "restart_in_drain"} \intersect faults = {}
      /\ \A g \in Gens : Live(g) => g = current /\ (worker[g].pc # "new" => worker[g].queue = g)
      /\ \A c \in Callers : answer[c] = "waiting" => Held(c)
      /\ Open
  BY DEF PlacesInv, Unharmed, Alone, Served
<1>1. ASSUME UNCHANGED <<queues, worker, current, closing>>,
             \A c \in Callers : answer'[c] = "waiting" => answer[c] = "waiting"
      PROVE  (\A c \in Callers : answer'[c] = "waiting" => Held(c)') /\ Open'
  <2>1. \A g : Live(g)' <=> Live(g)
    BY <1>1 DEF Live
  <2>2. \A c : Held(c)' <=> Held(c)
    BY <1>1, <2>1
  <2>3. Open'
    BY <1>0, <1>1, <2>1
  <2> QED BY <1>0, <1>1, <2>2, <2>3
<1>2. CASE UNCHANGED vars
  BY <1>1, <1>2 DEF vars
<1>3. CASE Start
  <2>1. \A h \in Gens : ~Live(h)
    BY <1>0, <1>3 DEF Start
  <2>2. \A c \in Callers : answer'[c] # "waiting"
    BY <1>0, <1>3, <2>1 DEF Start
  <2>3. /\ gens + 1 \in Gens /\ worker' = [worker EXCEPT ![gens + 1].pc = "new"] /\ UNCHANGED queues
        /\ current' = gens + 1 /\ gens + 1 > gens
    BY <1>0, <1>3, Sets DEF Start, TypeOK
  <2>4. worker'[gens + 1].pc = "new"
    BY <1>0, <2>3, MoveFacts
  <2>5. queues'[gens + 1] = <<>>
    BY <1>0, <2>3 DEF Started
  <2>6. Range(queues'[gens + 1]) = {}
    BY <2>5, EmptyFacts
  <2>7. Open'
    BY <2>3, <2>4, <2>6 DEF Live, Ended
  <2> QED BY <2>2, <2>7
<1>4. ASSUME NEW q \in Gens, q = current, NEW e \in Callers \union {Sentinel},
             queues' = [queues EXCEPT ![q] = Append(@, e)], UNCHANGED <<worker, current>>
      PROVE  /\ Range(queues'[q]) = Range(queues[q]) \union {e}
             /\ \A c : Held(c) => Held(c)'
             /\ \A g : Live(g)' <=> Live(g)
             /\ Live(q) => Held(e)'
  <2>1. queues[q] \in Seq(Callers \union {Sentinel}) /\ queues'[q] = Append(queues[q], e)
    BY <1>0, <1>4 DEF TypeOK
  <2>2. Range(queues'[q]) = Range(queues[q]) \union {e}
    BY <2>1, AppendFacts
  <2>3. \A g : Live(g)' <=> Live(g)
    BY <1>4 DEF Live
  <2> QED BY <1>4, <2>2, <2>3
<1>5. ASSUME NEW s \in Stoppers, Stop(s)
      PROVE  (\A c \in Callers : answer'[c] = "waiting" => Held(c)') /\ Open'
  <2>1. UNCHANGED <<answer, worker, current>>
    BY <1>5 DEF Stop
  <2>2. CASE current = 0
    <3>1. UNCHANGED <<closing, queues>>
      BY <1>5, <2>2 DEF Stop
    <3> QED BY <1>1, <2>1, <3>1
  <2>3. CASE current # 0
    <3>1. closing' = TRUE /\ queues' = [queues EXCEPT ![current] = Append(@, Sentinel)] /\ current \in Gens
      BY <1>0, <1>5, <2>3, Sets DEF Stop, TypeOK
    <3>2. \A c : Held(c) => Held(c)'
      BY <1>4, <2>1, <3>1
    <3>3. Open'
      BY <3>1
    <3> QED BY <1>0, <2>1, <3>2, <3>3
  <2> QED BY <2>2, <2>3
<1>6. ASSUME NEW s \in Stoppers, StopReset(s)
      PROVE  (\A c \in Callers : answer'[c] = "waiting" => Held(c)') /\ Open'
  <2>1. /\ worker[stopper[s].gen].pc \in Ended /\ current' = (IF current = stopper[s].gen THEN 0 ELSE current)
        /\ UNCHANGED <<closing, queues, worker, answer>>
    BY <1>6 DEF StopReset
  <2>2. CASE current # stopper[s].gen
    BY <1>1, <2>1, <2>2
  <2>3. CASE current = stopper[s].gen
    <3>1. \A g \in Gens : g = current => ~Live(g)
      BY <2>1, <2>3 DEF Live
    <3>2. \A c \in Callers : answer'[c] # "waiting"
      BY <1>0, <2>1, <3>1
    <3>3. current' = 0 /\ 0 \notin Gens
      BY <2>1, <2>3, Sets
    <3> QED BY <3>2, <3>3
  <2> QED BY <2>2, <2>3
<1>7. ASSUME NEW s \in Stoppers PROVE ~DrainTimeout(s) /\ ~StopCancelled(s)
  BY <1>0 DEF DrainTimeout, StopCancelled
<1>8. ASSUME NEW c \in Callers, Enqueue(c)
      PROVE  (\A b \in Callers : answer'[b] = "waiting" => Held(b)') /\ Open'
  <2>1. UNCHANGED <<worker, current, closing>>
    BY <1>8 DEF Enqueue
  <2>2. CASE closing \/ current = 0
    <3>1. answer' = [answer EXCEPT ![c] = "refused"] /\ UNCHANGED queues
      BY <1>8, <2>2 DEF Enqueue
    <3>2. \A b \in Callers : answer'[b] = "waiting" => answer[b] = "waiting"
      BY <1>0, <3>1 DEF TypeOK
    <3> QED BY <1>1, <2>1, <3>1, <3>2
  <2>3. CASE ~closing /\ current # 0
    <3>1. /\ answer' = [answer EXCEPT ![c] = "waiting"]
          /\ queues' = [queues EXCEPT ![current] = Append(@, c)] /\ current \in Gens /\ c # Sentinel
      BY <1>0, <1>8, <2>3, Sets DEF Enqueue, TypeOK
    <3>2. Live(current) /\ Sentinel \notin Range(queues[current])
      BY <1>0, <2>3, <3>1
    <3>3. /\ Range(queues'[current]) = Range(queues[current]) \union {c}
          /\ \A b : Held(b) => Held(b)'
          /\ \A g : Live(g)' <=> Live(g)
          /\ Held(c)'
      BY <1>4, <2>1, <3>1, <3>2
    <3>4. Open'
      BY <2>1, <3>1, <3>2, <3>3
    <3>5. \A b \in Callers : b # c => answer'[b] = answer[b]
      BY <1>0, <3>1 DEF TypeOK
    <3> QED BY <1>0, <3>3, <3>4, <3>5
  <2> QED BY <2>2, <2>3
<1>9. ASSUME NEW c \in Callers, CallerCancelled(c)
      PROVE  (\A b \in Callers : answer'[b] = "waiting" => Held(b)') /\ Open'
  <2>1. UNCHANGED <<queues, worker, current, closing>> /\ answer' = [answer EXCEPT ![c] = "cancelled"]
    BY <1>9 DEF CallerCancelled
  <2>2. \A b \in Callers : answer'[b] = "waiting" => answer[b] = "waiting"
    BY <1>0, <2>1 DEF TypeOK
  <2> QED BY <1>1, <2>1, <2>2
<1>10. ASSUME NEW g \in Gens, g = current, Live(g), Live(g)', UNCHANGED <<current, closing>>,
              Sentinel \in Range(queues'[g]) => Sentinel \in Range(queues[g]),
              \A c \in Callers : answer'[c] = "waiting" =>
                /\ answer[c] = "waiting"
                /\ worker[g].item = c \/ c \in Range(queues[g])
                   => worker'[g].item = c \/ c \in Range(queues'[g])
       PROVE  (\A c \in Callers : answer'[c] = "waiting" => Held(c)') /\ Open'
  <2>1. \A c \in Callers : answer'[c] = "waiting" => Held(c)'
    BY <1>0, <1>10
  <2>2. Open'
    BY <1>0, <1>10
  <2> QED BY <2>1, <2>2
<1>11. ASSUME NEW g \in Gens, WorkerBegin(g)
       PROVE  (\A c \in Callers : answer'[c] = "waiting" => Held(c)') /\ Open'
  <2>1. worker[g].pc = "new" /\ Live(g) /\ UNCHANGED <<answer, queues, current, closing>>
    BY <1>11 DEF WorkerBegin, Live, Ended
  <2>2. g = current /\ current # 0
    BY <1>0, <2>1, Sets
  <2>3. worker'[g].pc = "get" /\ worker'[g].item = worker[g].item
    BY <1>0, <1>11, <2>2, BeginFacts
  <2>4. Live(g)'
    BY <2>3 DEF Live, Ended
  <2> QED BY <1>10, <2>1, <2>2, <2>3, <2>4
<1>12. ASSUME NEW g \in Gens, Get(g)
       PROVE  (\A c \in Callers : answer'[c] = "waiting" => Held(c)') /\ Open'
  <2>1. /\ worker[g].pc = "get" /\ queues[worker[g].queue] # <<>> /\ UNCHANGED <<current, closing>>
    BY <1>12 DEF Get
  <2>2. Live(g) /\ worker[g].queue = g /\ g = current /\ worker[g].item \notin Callers
    <3>1. Live(g) /\ worker[g].item \notin Callers
      BY <1>0, <2>1 DEF Live, Ended, Started, Writing
    <3> QED BY <1>0, <2>1, <3>1
  <2>3. CASE Head(queues[g]) = Sentinel
    <3>1. Exit(g, "done", answer) /\ "done" \in Ended /\ answer \in [Callers -> AnswerState]
      BY <1>0, <1>12, <2>2, <2>3 DEF Get, Ended, TypeOK
    <3>2. \A c \in Callers : answer'[c] = "waiting" => answer[c] = "waiting" /\ c \notin Queued(g)
      BY <1>0, <2>2, <3>1, ExitFacts
    <3>3. \A c \in Callers : answer'[c] # "waiting"
      BY <1>0, <2>2, <3>2, QueueItems
    <3>4. Sentinel \in Range(queues[g])
      <4>1. Head(queues[g]) = queues[g][1] /\ 1 \in DOMAIN queues[g]
        BY <1>0, <2>1, <2>2, QueueItems, TailFacts
      <4> QED BY <2>3, <4>1 DEF Range
    <3>5. closing'
      BY <1>0, <2>1, <2>2, <3>4
    <3> QED BY <3>3, <3>5
  <2>4. CASE Head(queues[g]) # Sentinel
    <3>1. /\ worker'[g].pc = "merge" /\ worker'[g].item = Head(queues[g]) /\ queues'[g] = Tail(queues[g])
          /\ answer' = answer
      BY <1>0, <1>12, <2>1, <2>2, <2>4, TakeFacts
    <3>2. Live(g)'
      BY <3>1 DEF Live, Ended
    <3>3. Range(queues[g]) = Range(Tail(queues[g])) \union {Head(queues[g])}
      <4>1. queues[g] \in Seq(Callers \union {Sentinel}) /\ queues[g] # <<>>
        BY <1>0, <2>1, <2>2, QueueItems
      <4>2. /\ Len(queues[g]) \in Nat \ {0} /\ DOMAIN queues[g] = 1..Len(queues[g])
            /\ Head(queues[g]) = queues[g][1] /\ DOMAIN Tail(queues[g]) = 1..(Len(queues[g]) - 1)
            /\ \A i \in 1..(Len(queues[g]) - 1) : Tail(queues[g])[i] = queues[g][i + 1]
        BY <4>1
      <4>3. ASSUME NEW i \in 1..Len(queues[g]), i # 1
            PROVE  i - 1 \in DOMAIN Tail(queues[g]) /\ Tail(queues[g])[i - 1] = queues[g][i]
        <5>1. i - 1 \in 1..(Len(queues[g]) - 1) /\ (i - 1) + 1 = i
          BY <4>2, <4>3
        <5>2. Tail(queues[g])[i - 1] = queues[g][(i - 1) + 1]
          BY <4>2, <5>1
        <5> QED BY <4>2, <5>1, <5>2
      <4>4. ASSUME NEW i \in DOMAIN Tail(queues[g])
            PROVE  i + 1 \in DOMAIN queues[g] /\ Tail(queues[g])[i] = queues[g][i + 1]
        BY <4>2, <4>4
      <4>5. Range(queues[g]) \subseteq Range(Tail(queues[g])) \union {Head(queues[g])}
        <5>1. ASSUME NEW x \in Range(queues[g]), x # Head(queues[g]) PROVE x \in Range(Tail(queues[g]))
          <6>1. PICK i \in 1..Len(queues[g]) : x = queues[g][i] /\ i # 1
            BY <4>2, <5>1 DEF Range
          <6> QED BY <4>3, <6>1 DEF Range
        <5> QED BY <5>1
      <4>6. Range(Tail(queues[g])) \subseteq Range(queues[g])
        BY <4>4 DEF Range
      <4>7. Head(queues[g]) \in Range(queues[g])
        BY <4>2 DEF Range
      <4> QED BY <4>5, <4>6, <4>7
    <3>4. ASSUME NEW c \in Callers, worker[g].item = c \/ c \in Range(queues[g])
          PROVE  worker'[g].item = c \/ c \in Range(queues'[g])
      BY <2>2, <3>1, <3>3, <3>4
    <3>5. Sentinel \in Range(queues'[g]) => Sentinel \in Range(queues[g])
      BY <3>1, <3>3
    <3> QED BY <1>10, <2>1, <2>2, <3>1, <3>2, <3>4, <3>5
  <2> QED BY <2>2, <2>3, <2>4
<1>13. ASSUME NEW g \in Gens, Writing(g), NEW a \in AnswerState, a # "waiting", NextItem(g, a),
              UNCHANGED <<current, closing>>
       PROVE  (\A c \in Callers : answer'[c] = "waiting" => Held(c)') /\ Open'
  <2>1. Live(g) /\ g = current /\ worker[g].item \in Callers
    <3>1. Live(g) /\ worker[g].item \in Callers
      BY <1>0, <1>13 DEF Live, Ended, Started, Writing
    <3> QED BY <1>0, <3>1
  <2>2. /\ worker'[g].pc = "get" /\ queues' = queues
        /\ answer'[worker[g].item] = (IF answer[worker[g].item] = "waiting" THEN a
                                      ELSE answer[worker[g].item])
        /\ \A c \in Callers \ {worker[g].item} : answer'[c] = answer[c]
    BY <1>0, <1>13, <2>1, NextItemFacts
  <2>3. Live(g)'
    BY <2>2 DEF Live, Ended
  <2>4. \A c \in Callers : answer'[c] = "waiting" => answer[c] = "waiting" /\ c # worker[g].item
    BY <1>13, <2>1, <2>2
  <2> QED BY <1>10, <1>13, <2>1, <2>2, <2>3, <2>4
<1>14. ASSUME NEW g \in Gens, Merge(g)
       PROVE  (\A c \in Callers : answer'[c] = "waiting" => Held(c)') /\ Open'
  <2>1. /\ worker[g].pc = "merge" /\ Writing(g) /\ Live(g) /\ "conflict" \in AnswerState
        /\ UNCHANGED <<current, closing>>
    BY <1>14 DEF Merge, Writing, Live, Ended, AnswerState, Answers
  <2>2. CASE NextItem(g, "conflict")
    BY <1>13, <2>1, <2>2
  <2>3. CASE worker' = [worker EXCEPT ![g].pc = "push"] /\ UNCHANGED <<queues, answer>>
    <3>1. worker'[g].pc = "push" /\ worker'[g].item = worker[g].item
      BY <1>0, <2>3, MoveFacts
    <3>2. Live(g)' /\ g = current
      BY <1>0, <2>1, <3>1 DEF Live, Ended
    <3> QED BY <1>10, <2>1, <2>3, <3>1, <3>2
  <2> QED BY <1>14, <2>2, <2>3 DEF Merge
<1>15. ASSUME NEW g \in Gens, Push(g) \/ GitError(g)
       PROVE  (\A c \in Callers : answer'[c] = "waiting" => Held(c)') /\ Open'
  <2>1. Writing(g) /\ UNCHANGED <<current, closing>>
    BY <1>15 DEF Push, GitError, Writing
  <2>2. PICK a \in {"merged", "merge_error", "push_error"} : NextItem(g, a)
    BY <1>15 DEF Push, GitError
  <2>3. a \in AnswerState /\ a # "waiting"
    BY DEF AnswerState, Answers
  <2> QED BY <1>13, <2>1, <2>2, <2>3
<1>16. ASSUME NEW g \in Gens PROVE ~CriticalError(g)
  BY <1>0 DEF CriticalError
<1> QED BY <1>2, <1>3, <1>5, <1>6, <1>7, <1>8, <1>9, <1>11, <1>12, <1>14, <1>15, <1>16
        DEF Next, WorkerStep

\* No caller is left behind by a stop, a restart or a failing item: as long as the
\* worker is neither cancelled nor killed and nobody starts into a drain, whoever
\* waits is in the hands of a live worker.
THEOREM CallersNotStranded == Spec => []NoStrandedCaller
<1>1. Init => Alone /\ Served
  <2> SUFFICES ASSUME Init PROVE Alone /\ Served
    OBVIOUS
  <2>1. /\ \A g \in Gens : ~Live(g)
        /\ \A c \in Callers : answer[c] # "waiting"
        /\ current = 0 /\ 0 \notin Gens
    BY Sets DEF Init, Live
  <2> QED BY <2>1 DEF Alone, Served
<1>2. PlacesInv /\ Alone /\ Served /\ [Next]_vars => Alone' /\ Served'
  BY NextAlone, NextServed
<1>3. PlacesInv /\ Alone /\ Served => NoStrandedCaller
  <2> SUFFICES ASSUME PlacesInv, Alone, Served, Unharmed, NEW c \in Callers, answer[c] = "waiting"
               PROVE  \E g \in Gens :
                        /\ Live(g)
                        /\ \/ worker[g].item = c
                           \/ \E q \in Gens : /\ q = IF worker[g].pc = "new" THEN current ELSE worker[g].queue
                                             /\ c \in Queued(q)
    BY DEF NoStrandedCaller, CallerHeld, Unharmed
  <2>1. PICK g \in Gens : g = current /\ Live(g) /\ (worker[g].item = c \/ c \in Range(queues[g]))
    BY DEF Served
  <2>2. worker[g].pc # "new" => worker[g].queue = g
    BY <2>1 DEF Alone, Unharmed
  <2>3. c # Sentinel
    BY Sets
  <2>4. c \in Range(queues[g]) => c \in Queued(g)
    BY <2>3 DEF Queued
  <2> QED BY <2>1, <2>2, <2>4
<1> QED BY <1>1, <1>2, <1>3, PlacesAlways, PTL DEF Spec
=============================================================================
