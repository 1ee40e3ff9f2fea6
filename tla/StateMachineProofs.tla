------------------------- MODULE StateMachineProofs -------------------------
(***************************************************************************)
(* Proofs about the walks of StateMachine: what path_to and                *)
(* unconditional_exit_reachable return, for every table.                   *)
(***************************************************************************)
EXTENDS StateMachine, FiniteSetTheorems, SequenceTheorems, WellFoundedInduction, TLAPS

(***************************************************************************)
(* Induction over the numbers for a set in place of a predicate.           *)
(***************************************************************************)

\* A set of numbers has a least one.
LEMMA LeastNumber ==
  ASSUME NEW T, T \subseteq Nat, T # {}
  PROVE  \E x \in T : \A y \in T : x <= y
<1> DEFINE R == OpToRel(<, Nat)
<1>1. IsWellFoundedOn(R, Nat)
  BY NatLessThanWellFounded, Zenon
<1>2. \A x, y \in Nat : y < x => <<y, x>> \in R
  BY DEF OpToRel
<1> HIDE DEF R
<1>3. PICK x \in T : \A y \in T : ~(<<y, x>> \in R)
  BY <1>1, WFMin
<1>4. \A y \in T : ~(y < x)
  BY <1>2, <1>3
<1> QED BY <1>3, <1>4

\* A set that holds 0 and with a number the next one holds them all.
LEMMA SetInduction ==
  ASSUME NEW S, 0 \in S, \A n \in Nat : n \in S => n + 1 \in S
  PROVE  Nat \subseteq S
<1> SUFFICES ASSUME NEW m \in Nat, m \notin S PROVE FALSE
  OBVIOUS
<1> DEFINE T == {n \in Nat : n \notin S}
<1>1. PICK x \in T : \A y \in T : x <= y
  <2>1. T \subseteq Nat /\ T # {}
    OBVIOUS
  <2> HIDE DEF T
  <2> QED BY <2>1, LeastNumber
<1>2. x # 0 /\ x \in Nat
  OBVIOUS
<1>3. x - 1 \in Nat /\ x - 1 \notin T
  BY <1>1, <1>2
<1> QED BY <1>2, <1>3

\* g starts at x and goes on by F up to n.
Chain(g, F, D, x, n) ==
  /\ g \in [0..n -> D] /\ g[0] = x
  /\ \A i \in 0..n : i < n => g[i + 1] = F[g[i]]

\* f starts at x and goes on by F forever.
Iterates(f, F, D, x) ==
  f \in [Nat -> D] /\ f[0] = x /\ \A i \in Nat : f[i + 1] = F[f[i]]

\* A function can be applied any number of times.
LEMMA Iterate ==
  ASSUME NEW D, NEW F \in [D -> D], NEW x \in D
  PROVE  \E f : Iterates(f, F, D, x)
<1>1. ASSUME NEW n \in Nat PROVE \E g : Chain(g, F, D, x, n)
  <2> DEFINE S == {m \in Nat : \E g : Chain(g, F, D, x, m)}
  <2>1. 0 \in S
    <3> DEFINE g == [i \in 0..0 |-> x]
    <3>1. Chain(g, F, D, x, 0)
      BY DEF Chain
    <3> QED BY <3>1
  <2>2. ASSUME NEW m \in Nat, m \in S PROVE m + 1 \in S
    <3>1. PICK g : Chain(g, F, D, x, m)
      BY <2>2
    <3> DEFINE h == [i \in 0..(m + 1) |-> IF i = m + 1 THEN F[g[m]] ELSE g[i]]
    <3>2. g \in [0..m -> D] /\ g[0] = x /\ \A i \in 0..m : i < m => g[i + 1] = F[g[i]]
      BY <3>1 DEF Chain
    <3>3. h \in [0..(m + 1) -> D] /\ h[0] = x
      BY <3>2
    <3>4. ASSUME NEW i \in 0..(m + 1), i < m + 1 PROVE h[i + 1] = F[h[i]]
      <4>1. CASE i = m
        BY <4>1
      <4>2. CASE i # m
        BY <3>2, <3>4, <4>2
      <4> QED BY <4>1, <4>2
    <3>5. Chain(h, F, D, x, m + 1)
      BY <3>3, <3>4 DEF Chain
    <3> QED BY <3>5
  <2> HIDE DEF S
  <2>3. n \in S
    BY <2>1, <2>2, SetInduction
  <2> QED BY <2>3 DEF S
<1>2. ASSUME NEW n \in Nat, NEW m \in Nat, n <= m,
             NEW g, Chain(g, F, D, x, n), NEW h, Chain(h, F, D, x, m), NEW i \in 0..n
      PROVE  g[i] = h[i]
  <2> DEFINE S == {j \in Nat : j <= n => g[j] = h[j]}
  <2>1. 0 \in S
    BY <1>2 DEF Chain
  <2>2. ASSUME NEW j \in Nat, j \in S PROVE j + 1 \in S
    <3> SUFFICES ASSUME j + 1 <= n PROVE g[j + 1] = h[j + 1]
      OBVIOUS
    <3>1. g[j] = h[j] /\ j \in 0..n /\ j \in 0..m /\ j < n /\ j < m
      BY <1>2, <2>2
    <3> QED BY <1>2, <3>1 DEF Chain
  <2> HIDE DEF S
  <2>3. i \in S
    BY <2>1, <2>2, SetInduction
  <2> QED BY <2>3 DEF S
<1> DEFINE c[n \in Nat] == CHOOSE g : Chain(g, F, D, x, n)
           f == [n \in Nat |-> c[n][n]]
<1>3. \A n \in Nat : Chain(c[n], F, D, x, n)
  BY <1>1
<1> HIDE DEF c
<1>4. f \in [Nat -> D]
  BY <1>3 DEF Chain
<1>5. f[0] = x
  BY <1>3 DEF Chain
<1>6. ASSUME NEW i \in Nat PROVE f[i + 1] = F[f[i]]
  <2>1. c[i + 1][i + 1] = F[c[i + 1][i]]
    BY <1>3 DEF Chain
  <2>2. c[i][i] = c[i + 1][i]
    BY <1>2, <1>3
  <2> QED BY <2>1, <2>2
<1>7. Iterates(f, F, D, x)
  BY <1>4, <1>5, <1>6 DEF Iterates
<1> QED BY <1>7

-----------------------------------------------------------------------------
(***************************************************************************)
(* The table, and the operators on it.                                     *)
(***************************************************************************)

\* The walk's inputs are a machine and states of it.
InputOK ==
  /\ walk \in {"path", "exit"} /\ machine \in Machines
  /\ current \in States /\ target \in States

\* Hops of the table lead to states.
LEMMA TableFacts ==
  ASSUME InputOK
  PROVE  /\ machine.n \in Nat /\ DOMAIN table \subseteq States
         /\ \A s : Targets(s) \subseteq States
         /\ IsFiniteSet(States) /\ Cardinality(States) = machine.n
<1>1. /\ machine.n \in Nat /\ DOMAIN table \subseteq States
      /\ \A s \in DOMAIN table : table[s] \subseteq States
  BY MachineAssumption DEF InputOK, table, States
<1>2. \A s : Targets(s) \subseteq States
  BY <1>1 DEF Targets
<1>3. IsFiniteSet(1..machine.n) /\ Cardinality(1..machine.n) = machine.n
  BY <1>1, FS_Interval
<1> QED BY <1>1, <1>2, <1>3 DEF States

\* Levels() is what its recursion says.
LEMMA LevelFacts ==
  ASSUME InputOK, NEW Through, NEW Into
  PROVE  LET L == Levels(Through, Into) IN
         /\ L \in [Nat -> SUBSET States]
         /\ L[0] = {current}
         /\ \A k \in Nat :
              L[k + 1] = L[k] \cup (Into \cap UNION {Targets(s) : s \in L[k] \cap Through})
<1> DEFINE Onward(S) == S \cup (Into \cap UNION {Targets(s) : s \in S \cap Through})
           F == [S \in SUBSET States |-> Onward(S)]
           Rec(f) == [k \in Nat |-> IF k = 0 THEN {current} ELSE Onward(f[k - 1])]
<1>1. F \in [SUBSET States -> SUBSET States] /\ {current} \in SUBSET States
  BY TableFacts DEF InputOK
<1>2. PICK f \in [Nat -> SUBSET States] :
        f[0] = {current} /\ \A i \in Nat : f[i + 1] = F[f[i]]
  <2> DEFINE D == SUBSET States
             x == {current}
  <2>1. F \in [D -> D] /\ x \in D
    BY <1>1
  <2> HIDE DEF F, D, x
  <2>2. \E f : Iterates(f, F, D, x)
    BY <2>1, Iterate
  <2> QED BY <2>2 DEF D, x, Iterates
<1>3. f = Rec(f)
  <2>1. ASSUME NEW k \in Nat PROVE f[k] = Rec(f)[k]
    <3>1. CASE k = 0
      BY <1>2, <3>1
    <3>2. CASE k # 0
      <4>1. k - 1 \in Nat /\ (k - 1) + 1 = k
        BY <3>2
      <4>2. f[k] = F[f[k - 1]]
        BY <1>2, <4>1
      <4> QED BY <3>2, <4>1, <4>2
    <3> QED BY <3>1, <3>2
  <2> QED BY <2>1
<1> DEFINE L == Levels(Through, Into)
<1>4. L = Rec(L)
  <2>1. L = CHOOSE g : g = Rec(g)
    BY DEF Levels
  <2> HIDE DEF L, Rec
  <2> QED BY <1>3, <2>1
<1>5. L[0] = {current} /\ \A k \in Nat : L[k + 1] = Onward(L[k])
  <2> HIDE DEF L, Onward
  <2>1. ASSUME NEW k \in Nat PROVE L[k + 1] = Onward(L[k])
    <3>1. k + 1 \in Nat /\ k + 1 # 0 /\ (k + 1) - 1 = k
      OBVIOUS
    <3> QED BY <1>4, <3>1
  <2> QED BY <1>4, <2>1
<1>6. \A k \in Nat : L[k] \in SUBSET States
  <2> DEFINE S == {k \in Nat : L[k] \in SUBSET States}
  <2>1. 0 \in S
    BY <1>1, <1>5
  <2>2. ASSUME NEW k \in Nat, k \in S PROVE k + 1 \in S
    BY <1>5, <2>2, TableFacts
  <2> HIDE DEF S
  <2>3. Nat \subseteq S
    BY <2>1, <2>2, SetInduction
  <2> QED BY <2>3 DEF S
<1>7. L \in [Nat -> SUBSET States]
  <2> HIDE DEF L
  <2>1. L = [k \in Nat |-> L[k]]
    BY <1>4
  <2> QED BY <1>6, <2>1
<1> QED BY <1>5, <1>7

\* States have different keys.
LEMMA OrderFacts ==
  ASSUME InputOK
  PROVE  /\ \A s \in States : Order(s) \in Nat
         /\ \A r, s \in States : Order(r) = Order(s) => r = s
         /\ \A r, s \in DOMAIN table : r < s => Order(r) < Order(s)
  BY TableFacts DEF Order, States

\* Sorted() is a sequence of the states of the set, each of them, by their keys.
LEMMA SortedFacts ==
  ASSUME InputOK, NEW T \in SUBSET States
  PROVE  /\ Sorted(T) \in Seq(T) /\ Range(Sorted(T)) = T
         /\ \A i, j \in 1..Len(Sorted(T)) : i < j => Order(Sorted(T)[i]) < Order(Sorted(T)[j])
         /\ Sorted(T) = <<>> <=> T = {}
<1> DEFINE N == Cardinality(T)
           Upto(s) == {r \in T : Order(r) <= Order(s)}
           c(s) == Cardinality(Upto(s))
<1>0. IsFiniteSet(T) /\ N \in Nat
  BY TableFacts, FS_Subset, FS_CardinalityType
<1>1. ASSUME NEW s \in T PROVE c(s) \in 1..N
  <2>1. Upto(s) \in SUBSET T /\ s \in Upto(s)
    BY OrderFacts
  <2>2. Upto(s) # {}
    BY <2>1
  <2> HIDE DEF Upto
  <2>3. IsFiniteSet(Upto(s)) /\ c(s) <= N
    BY <1>0, <2>1, FS_Subset
  <2>4. c(s) \in Nat /\ c(s) # 0
    BY <2>2, <2>3, FS_CardinalityType, FS_EmptySet
  <2> QED BY <1>0, <2>3, <2>4
<1>2. ASSUME NEW r \in T, NEW s \in T, Order(r) < Order(s) PROVE c(r) < c(s)
  <2>1. Upto(r) \in SUBSET Upto(s) /\ s \in Upto(s) /\ s \notin Upto(r) /\ Upto(s) \in SUBSET T
    BY <1>2, OrderFacts
  <2>2. Upto(r) # Upto(s)
    BY <2>1
  <2> HIDE DEF Upto
  <2>3. IsFiniteSet(Upto(s))
    BY <1>0, <2>1, FS_Subset
  <2>4. c(r) <= c(s) /\ c(r) # c(s)
    BY <2>1, <2>2, <2>3, FS_Subset
  <2>5. c(r) \in Nat /\ c(s) \in Nat
    BY <1>1
  <2> QED BY <2>4, <2>5
<1> HIDE DEF c
<1>3. \A i \in 1..N : \E s \in T : c(s) = i
  <2> DEFINE F == [s \in T |-> c(s)]
  <2>1. F \in [T -> 1..N]
    BY <1>1
  <2>2. ASSUME NEW r \in T, NEW s \in T, F[r] = F[s] PROVE r = s
    <3>1. c(r) = c(s) /\ c(r) \in Nat
      BY <1>1, <2>2
    <3>2. ~(Order(r) < Order(s)) /\ ~(Order(s) < Order(r))
      BY <1>2, <3>1
    <3> QED BY <3>2, OrderFacts
  <2> HIDE DEF F
  <2>3. F \in Injection(T, 1..N)
    BY <2>1, <2>2 DEF Injection, IsInjective
  <2>4. IsFiniteSet(1..N) /\ Cardinality(1..N) = N
    BY <1>0, FS_Interval
  <2>5. F \in Surjection(T, 1..N)
    BY <2>3, <2>4, FS_Injection
  <2> QED BY <2>5 DEF Surjection, F
<1> DEFINE q == Sorted(T)
<1>4. q = [i \in 1..N |-> CHOOSE s \in T : c(s) = i]
  BY DEF Sorted, c
<1>5. \A i \in 1..N : q[i] \in T /\ c(q[i]) = i
  BY <1>3, <1>4
<1>6. q \in Seq(T) /\ Len(q) = N
  BY <1>0, <1>4, <1>5
<1> HIDE DEF q
<1>7. Range(q) = T
  <2>1. Range(q) \subseteq T
    BY <1>6 DEF Range
  <2>2. ASSUME NEW s \in T PROVE s \in Range(q)
    <3>1. c(s) \in 1..N /\ q[c(s)] \in T /\ c(q[c(s)]) = c(s)
      BY <1>1, <1>5
    <3>2. q[c(s)] = s
      BY <1>2, <3>1, OrderFacts
    <3> QED BY <1>6, <3>1, <3>2 DEF Range
  <2> QED BY <2>1, <2>2
<1>8. \A i, j \in 1..Len(q) : i < j => Order(q[i]) < Order(q[j])
  <2> SUFFICES ASSUME NEW i \in 1..N, NEW j \in 1..N, i < j PROVE Order(q[i]) < Order(q[j])
    BY <1>6
  <2>1. q[i] \in T /\ q[j] \in T /\ c(q[i]) = i /\ c(q[j]) = j
    BY <1>5
  <2>2. Order(q[i]) # Order(q[j])
    BY <2>1, OrderFacts
  <2>3. ~(Order(q[j]) < Order(q[i]))
    BY <1>2, <2>1
  <2> QED BY <2>1, <2>2, <2>3, OrderFacts
<1>9. q = <<>> <=> T = {}
  BY <1>0, <1>6, FS_EmptySet
<1> QED BY <1>6, <1>7, <1>8, <1>9 DEF q

-----------------------------------------------------------------------------
(***************************************************************************)
(* Queue and table during a walk.                                          *)
(***************************************************************************)

\* The queue holds states that were seen, each once.
QueueInv ==
  /\ InputOK
  /\ seen \in SUBSET States /\ current \in seen
  /\ queue \in Seq(seen)
  /\ \A i, j \in 1..Len(queue) : queue[i] = queue[j] => i = j

\* Without its head, and with b behind it, a sequence q is Q.
LEMMA TailThen ==
  ASSUME NEW S, NEW q \in Seq(S), q # <<>>, NEW b \in Seq(S)
  PROVE  LET Q == Tail(q) \o b IN
         /\ Len(q) \in Nat \ {0} /\ Len(b) \in Nat /\ Head(q) = q[1]
         /\ Q \in Seq(S) /\ Len(Q) = Len(q) - 1 + Len(b)
         /\ \A i \in 1..(Len(q) - 1) : Q[i] = q[i + 1]
         /\ \A i \in 1..Len(b) : Q[Len(q) - 1 + i] = b[i]
<1> DEFINE a == Tail(q)
           Q == a \o b
<1>1. /\ Len(q) \in Nat \ {0} /\ Head(q) = q[1] /\ a \in Seq(S) /\ Len(a) = Len(q) - 1
      /\ \A i \in 1..(Len(q) - 1) : a[i] = q[i + 1]
  OBVIOUS
<1> HIDE DEF a
<1>2. /\ Q \in Seq(S) /\ Len(Q) = Len(a) + Len(b) /\ Len(b) \in Nat
      /\ \A i \in 1..Len(a) : Q[i] = a[i]
      /\ \A i \in 1..Len(b) : Q[Len(a) + i] = b[i]
  <2>0. Len(a) \in Nat /\ Len(b) \in Nat
    BY <1>1
  <2>1. /\ Q \in Seq(S) /\ Len(Q) = Len(a) + Len(b)
        /\ \A i \in 1..(Len(a) + Len(b)) : Q[i] = IF i <= Len(a) THEN a[i] ELSE b[i - Len(a)]
    BY <1>1, ConcatProperties, Zenon
  <2> HIDE DEF Q
  <2>2. \A i \in 1..Len(a) : Q[i] = a[i]
    BY <2>0, <2>1
  <2>3. ASSUME NEW i \in 1..Len(b) PROVE Q[Len(a) + i] = b[i]
    <3>1. Len(a) + i \in 1..(Len(a) + Len(b)) /\ ~(Len(a) + i <= Len(a)) /\ (Len(a) + i) - Len(a) = i
      BY <2>0, <2>1
    <3> QED BY <2>0, <2>1, <3>1
  <2> QED BY <2>0, <2>1, <2>2, <2>3
<1> HIDE DEF Q
<1> QED BY <1>1, <1>2 DEF Q, a

\* Q is q, of length n, without its head, and then b, of length m.
Shift(q, n, S, b, m, F, Q) ==
  /\ n \in Nat \ {0} /\ m \in Nat /\ S \cap F = {}
  /\ \A i \in 1..n : q[i] \in S
  /\ \A i, j \in 1..n : q[i] = q[j] => i = j
  /\ \A i \in 1..m : b[i] \in F
  /\ \A i, j \in 1..m : b[i] = b[j] => i = j
  /\ \A i \in 1..(n - 1) : Q[i] = q[i + 1]
  /\ \A i \in 1..m : Q[n - 1 + i] = b[i]

\* What Q holds and where.
Holds(q, n, b, m, Q) ==
  /\ \A i \in 1..(n - 1 + m) : \/ i < n /\ i + 1 \in 1..n /\ Q[i] = q[i + 1]
                               \/ i >= n /\ i - (n - 1) \in 1..m /\ Q[i] = b[i - (n - 1)]
  /\ \A i, j \in 1..(n - 1 + m) : Q[i] = Q[j] => i = j
  /\ {Q[i] : i \in 1..(n - 1 + m)} = ({q[i] : i \in 1..n} \ {q[1]}) \cup {b[i] : i \in 1..m}

\* Nothing but the head is lost, and nothing is held twice.
LEMMA Shifted ==
  ASSUME NEW q, NEW n, NEW S, NEW b, NEW m, NEW F, NEW Q, Shift(q, n, S, b, m, F, Q)
  PROVE  Holds(q, n, b, m, Q)
<1> USE DEF Shift
<1>1. ASSUME NEW i \in 1..(n - 1 + m)
      PROVE  \/ i < n /\ i + 1 \in 1..n /\ Q[i] = q[i + 1]
             \/ i >= n /\ i - (n - 1) \in 1..m /\ Q[i] = b[i - (n - 1)]
  <2>1. CASE i < n
    BY <2>1
  <2>2. CASE i >= n
    <3>1. i - (n - 1) \in 1..m /\ n - 1 + (i - (n - 1)) = i
      BY <2>2
    <3> QED BY <2>2, <3>1
  <2> QED BY <2>1, <2>2
<1>2. ASSUME NEW i \in 1..(n - 1 + m), NEW j \in 1..(n - 1 + m), Q[i] = Q[j] PROVE i = j
  <2>1. CASE i < n /\ j < n
    <3>1. i + 1 \in 1..n /\ j + 1 \in 1..n /\ q[i + 1] = q[j + 1]
      BY <1>1, <1>2, <2>1
    <3>2. i + 1 = j + 1
      BY <3>1
    <3> QED BY <3>2
  <2>2. CASE i >= n /\ j >= n
    <3>1. i - (n - 1) \in 1..m /\ j - (n - 1) \in 1..m /\ b[i - (n - 1)] = b[j - (n - 1)]
      BY <1>1, <1>2, <2>2
    <3>2. i - (n - 1) = j - (n - 1)
      BY <3>1
    <3> QED BY <3>2
  <2>3. CASE i < n /\ j >= n
    <3>1. Q[i] \in S /\ Q[j] \in F
      BY <1>1, <2>3
    <3> QED BY <1>2, <3>1
  <2>4. CASE i >= n /\ j < n
    <3>1. Q[j] \in S /\ Q[i] \in F
      BY <1>1, <2>4
    <3> QED BY <1>2, <3>1
  <2> QED BY <2>1, <2>2, <2>3, <2>4
<1>3. ASSUME NEW i \in 1..(n - 1 + m)
      PROVE  Q[i] \in ({q[k] : k \in 1..n} \ {q[1]}) \cup {b[k] : k \in 1..m}
  <2>1. CASE i < n
    <3>1. i + 1 \in 1..n /\ Q[i] = q[i + 1] /\ i + 1 # 1 /\ 1 \in 1..n
      BY <1>1, <2>1
    <3>2. q[i + 1] # q[1]
      BY <3>1
    <3> QED BY <3>1, <3>2
  <2>2. CASE i >= n
    BY <1>1, <2>2
  <2> QED BY <2>1, <2>2
<1>4. ASSUME NEW i \in 1..n, q[i] # q[1] PROVE q[i] \in {Q[k] : k \in 1..(n - 1 + m)}
  <2>1. i - 1 \in 1..(n - 1) /\ i - 1 \in 1..(n - 1 + m) /\ (i - 1) + 1 = i
    BY <1>4
  <2>2. Q[i - 1] = q[i]
    BY <2>1
  <2> QED BY <2>1, <2>2
<1>5. ASSUME NEW i \in 1..m PROVE b[i] \in {Q[k] : k \in 1..(n - 1 + m)}
  <2>1. n - 1 + i \in 1..(n - 1 + m) /\ Q[n - 1 + i] = b[i]
    OBVIOUS
  <2> QED BY <2>1
<1> QED BY <1>1, <1>2, <1>3, <1>4, <1>5 DEF Holds

\* One turn takes the head off and puts fresh states at the end, by their keys.
LEMMA QueueTurn ==
  ASSUME QueueInv, queue # <<>>, NEW F \in SUBSET (States \ seen)
  PROVE  LET Q == Tail(queue) \o Sorted(F) IN
         /\ Q \in Seq(seen \cup F) /\ Range(Q) = (Range(queue) \ {Head(queue)}) \cup F
         /\ Head(queue) = queue[1] /\ Len(queue) \in Nat \ {0} /\ Len(Q) \in Nat
         /\ \A i \in 1..Len(Q) :
              \/ i < Len(queue) /\ i + 1 \in 1..Len(queue) /\ Q[i] = queue[i + 1]
              \/ i >= Len(queue) /\ Q[i] \in F
         /\ \A i, j \in 1..Len(Q) : i >= Len(queue) /\ i < j => Order(Q[i]) < Order(Q[j])
         /\ \A i, j \in 1..Len(Q) : Q[i] = Q[j] => i = j
<1> DEFINE b == Sorted(F)
           Q == Tail(queue) \o b
           n == Len(queue)
           m == Len(b)
<1>1. /\ b \in Seq(F) /\ Range(b) = F /\ F \in SUBSET States
      /\ \A i, j \in 1..m : i < j => Order(b[i]) < Order(b[j])
  <2>1. F \in SUBSET States /\ InputOK
    BY DEF QueueInv
  <2> QED BY <2>1, SortedFacts
<1> HIDE DEF b
<1>2. /\ n \in Nat \ {0} /\ m \in Nat /\ Head(queue) = queue[1]
      /\ Q \in Seq(seen \cup F) /\ Len(Q) = n - 1 + m
      /\ \A i \in 1..(n - 1) : Q[i] = queue[i + 1]
      /\ \A i \in 1..m : Q[n - 1 + i] = b[i]
  <2>1. queue \in Seq(seen \cup F) /\ b \in Seq(seen \cup F)
    BY <1>1 DEF QueueInv
  <2> QED BY <2>1, TailThen
<1> HIDE DEF Q
<1>3. /\ \A i \in 1..n : queue[i] \in seen
      /\ \A i, j \in 1..n : queue[i] = queue[j] => i = j
      /\ \A i \in 1..m : b[i] \in F
      /\ \A i, j \in 1..m : b[i] = b[j] => i = j
      /\ Range(queue) = {queue[i] : i \in 1..n} /\ Range(b) = {b[i] : i \in 1..m}
      /\ Range(Q) = {Q[i] : i \in 1..Len(Q)}
  <2>1. /\ \A i \in 1..n : queue[i] \in seen
        /\ \A i, j \in 1..n : queue[i] = queue[j] => i = j
        /\ Range(queue) = {queue[i] : i \in 1..n}
    BY DEF QueueInv, Range
  <2>2. (\A i \in 1..m : b[i] \in F) /\ Range(b) = {b[i] : i \in 1..m}
    BY <1>1 DEF Range
  <2>3. \A i \in 1..m : Order(b[i]) \in Nat
    BY <1>1, <2>2, OrderFacts DEF QueueInv
  <2>4. ASSUME NEW i \in 1..m, NEW j \in 1..m, b[i] = b[j] PROVE i = j
    <3>1. ~(i < j) /\ ~(j < i)
      BY <1>1, <2>3, <2>4
    <3> QED BY <1>2, <3>1
  <2>5. Range(Q) = {Q[i] : i \in 1..Len(Q)}
    BY <1>2 DEF Range
  <2> QED BY <2>1, <2>2, <2>4, <2>5
<1> HIDE DEF n, m
<1>4. seen \cap F = {}
  OBVIOUS
<1>5. /\ \A i \in 1..(n - 1 + m) : \/ i < n /\ i + 1 \in 1..n /\ Q[i] = queue[i + 1]
                                   \/ i >= n /\ i - (n - 1) \in 1..m /\ Q[i] = b[i - (n - 1)]
      /\ \A i, j \in 1..(n - 1 + m) : Q[i] = Q[j] => i = j
      /\ {Q[i] : i \in 1..(n - 1 + m)} = ({queue[i] : i \in 1..n} \ {queue[1]}) \cup {b[i] : i \in 1..m}
  <2>1. Shift(queue, n, seen, b, m, F, Q)
    BY <1>2, <1>3, <1>4 DEF Shift
  <2>2. Holds(queue, n, b, m, Q)
    BY <2>1, Shifted
  <2> QED BY <2>2 DEF Holds
<1>6. ASSUME NEW i \in 1..Len(Q), NEW j \in 1..Len(Q), i >= n, i < j
      PROVE  Order(Q[i]) < Order(Q[j])
  <2>1. /\ i - (n - 1) \in 1..m /\ Q[i] = b[i - (n - 1)]
        /\ j - (n - 1) \in 1..m /\ Q[j] = b[j - (n - 1)] /\ i - (n - 1) < j - (n - 1)
    <3>1. i \in 1..(n - 1 + m) /\ j \in 1..(n - 1 + m) /\ n \in Nat /\ i >= n /\ j >= n
      BY <1>2, <1>6
    <3>2. i - (n - 1) \in 1..m /\ Q[i] = b[i - (n - 1)]
      BY <1>5, <3>1
    <3>3. j - (n - 1) \in 1..m /\ Q[j] = b[j - (n - 1)]
      BY <1>5, <3>1
    <3> QED BY <1>6, <3>1, <3>2, <3>3
  <2> QED BY <1>1, <2>1
<1>7. Range(Q) = (Range(queue) \ {Head(queue)}) \cup F
  BY <1>1, <1>2, <1>3, <1>5
<1>8. Len(Q) \in Nat
  BY <1>2
<1>9. \A i \in 1..Len(Q) : \/ i < n /\ i + 1 \in 1..n /\ Q[i] = queue[i + 1]
                           \/ i >= n /\ Q[i] \in F
  BY <1>2, <1>3, <1>5
<1> QED BY <1>2, <1>5, <1>6, <1>7, <1>8, <1>9 DEF Q, b, n

-----------------------------------------------------------------------------
(***************************************************************************)
(* path_to: the search has a tree, and the way to a state is read off it.  *)
(***************************************************************************)
Open(s) == s = current \/ MayPass(s)

\* p is what Hops() computes, at every state.
Back(p, parent) ==
  p = [s \in States |-> IF parent[s] = current THEN <<s>> ELSE Append(p[parent[s]], s)]

\* The hops from current to s along p.
Way(p, s) == IF s = current THEN <<>> ELSE p[s]

Depth(p, s) == Len(Way(p, s))

\* While the search goes on, came_from is a tree over the states that were
\* seen, and what has left the queue is expanded.
TreeInv ==
  /\ came_from \in [States -> States] /\ came_from[current] = current
  /\ \A s \in States \ seen : came_from[s] = current
  /\ \A s \in seen \ {current} :
       came_from[s] \in seen /\ Open(came_from[s]) /\ s \in Targets(came_from[s])
  /\ \A i \in 1..Len(queue) : Open(queue[i])
  /\ \A s \in seen : Open(s) /\ s \notin Range(queue) => Targets(s) \subseteq seen
  /\ target \notin seen
  /\ \E p : Back(p, came_from)

\* The ways to the states of S are hops of the table that pass no park.
Valid(p, S) ==
  \A s \in S :
    /\ Way(p, s) \in Seq(States) /\ ValidPath(Way(p, s))
    /\ s # current => Depth(p, s) \in Nat \ {0} /\ Way(p, s)[Depth(p, s)] = s

\* The queue Q is expanded level by level.
Levelled(p, S, Q) ==
  /\ \A s \in S : Open(s) /\ s \notin Range(Q) =>
       \A t \in Targets(s) : Depth(p, t) <= Depth(p, s) + 1
  /\ \A i \in 1..Len(Q) : \A s \in S : Depth(p, s) <= Depth(p, Q[i]) + 1
  /\ \A i, j \in 1..Len(Q) : i < j => Depth(p, Q[i]) <= Depth(p, Q[j])

\* Among the first m hops, at the first where a and b differ, a's has the smaller key.
Precedes(a, b, m) ==
  \E i \in 1..m : /\ \A j \in 1..(i - 1) : a[j] = b[j]
                  /\ Order(a[i]) < Order(b[i])

\* States of one level are queued in the order of their ways; those of the
\* next level come from states that were before the ones still queued.
Ranked(p, Q) ==
  \A i, j \in 1..Len(Q) : i < j =>
    LET d == Depth(p, Q[i])
    IN /\ Depth(p, Q[j]) = d => Precedes(Way(p, Q[i]), Way(p, Q[j]), d)
       /\ Depth(p, Q[j]) = d + 1 => Precedes(Way(p, Q[j]), Way(p, Q[i]), d)

\* o is k hops of the table that end at s.
Leads(o, k, s) == o \in [1..k -> States] /\ ValidPath(o) /\ Source(o, k + 1) = s

\* No way as short as the one to s comes before it.
First(p, S) ==
  \A s \in S : \A o : Leads(o, Depth(p, s), s) => ~Precedes(o, Way(p, s), Depth(p, s))

\* Whatever Hops() computes, the ways are as they should be.
WaysInv ==
  \A p : Back(p, came_from) =>
    Valid(p, seen) /\ Levelled(p, seen, queue) /\ Ranked(p, queue) /\ First(p, seen)

\* p goes on from q: by the hop from u to the states of F.
GoesOn(p, q, u, F) ==
  /\ \A s \in seen : Way(p, s) = Way(q, s)
  /\ \A v \in F : Way(p, v) = Append(Way(q, u), v)

Grown(u, F) == [s \in States |-> IF s \in F THEN u ELSE came_from[s]]

\* When the tree grows at u, there still are ways, and they are those of
\* before and the ones through u.
LEMMA WaysGrow ==
  ASSUME QueueInv, TreeInv, NEW u \in seen, NEW F \in SUBSET (States \ seen)
  PROVE  /\ \E p : Back(p, Grown(u, F))
         /\ \A p : Back(p, Grown(u, F)) => \E q : Back(q, came_from) /\ GoesOn(p, q, u, F)
<1>1. /\ current \in States /\ current \in seen /\ seen \subseteq States /\ u \in States
      /\ \A s \in States \ seen : came_from[s] = current
      /\ \A s \in seen : came_from[s] \in seen
      /\ \A s \in F : s \in States /\ s \notin seen /\ s # current /\ s # u
  BY DEF QueueInv, InputOK, TreeInv
<1>2. \A s \in States : Grown(u, F)[s] = IF s \in F THEN u ELSE came_from[s]
  BY DEF Grown
<1>3. ASSUME NEW q, Back(q, came_from) PROVE \E p : Back(p, Grown(u, F))
  <2>1. \A s \in States : q[s] = IF came_from[s] = current THEN <<s>> ELSE Append(q[came_from[s]], s)
    BY <1>3 DEF Back
  <2> DEFINE hop(v) == IF u = current THEN <<v>> ELSE Append(q[u], v)
             p == [s \in States |-> IF s \in F THEN hop(s) ELSE q[s]]
  <2>2. ASSUME NEW s \in States
        PROVE  p[s] = IF Grown(u, F)[s] = current THEN <<s>> ELSE Append(p[Grown(u, F)[s]], s)
    <3>1. CASE s \in F
      <4>1. p[s] = hop(s) /\ p[u] = q[u] /\ Grown(u, F)[s] = u
        BY <1>1, <1>2, <3>1
      <4> QED BY <4>1
    <3>2. CASE s \notin F /\ came_from[s] = current
      BY <1>2, <2>1, <3>2
    <3>3. CASE s \notin F /\ came_from[s] # current
      <4>1. came_from[s] \in seen /\ came_from[s] \notin F /\ came_from[s] \in States
        BY <1>1, <3>3
      <4>2. p[s] = q[s] /\ p[came_from[s]] = q[came_from[s]] /\ Grown(u, F)[s] = came_from[s]
        BY <1>2, <3>3, <4>1
      <4> QED BY <2>1, <3>3, <4>2
    <3> QED BY <3>1, <3>2, <3>3
  <2>3. Back(p, Grown(u, F))
    <3> DEFINE rhs == [s \in States |-> IF Grown(u, F)[s] = current THEN <<s>> ELSE Append(p[Grown(u, F)[s]], s)]
    <3>1. \A s \in States : p[s] = rhs[s]
      BY <2>2
    <3>2. p = rhs
      <4> HIDE DEF hop
      <4>1. DOMAIN p = States /\ DOMAIN rhs = States /\ p = [s \in States |-> p[s]] /\ rhs = [s \in States |-> rhs[s]]
        OBVIOUS
      <4> HIDE DEF p, rhs
      <4> QED BY <3>1, <4>1
    <3> HIDE DEF p
    <3> QED BY <3>2 DEF Back
  <2> QED BY <2>3
<1>4. ASSUME NEW p, Back(p, Grown(u, F)) PROVE \E q : Back(q, came_from) /\ GoesOn(p, q, u, F)
  <2>1. \A s \in States :
          p[s] = IF Grown(u, F)[s] = current THEN <<s>> ELSE Append(p[Grown(u, F)[s]], s)
    BY <1>4 DEF Back
  <2> DEFINE q == [s \in States |-> IF s \in F THEN <<s>> ELSE p[s]]
  <2>2. ASSUME NEW s \in States
        PROVE  q[s] = IF came_from[s] = current THEN <<s>> ELSE Append(q[came_from[s]], s)
    <3>1. CASE s \in F
      BY <1>1, <3>1
    <3>2. CASE s \notin F /\ came_from[s] = current
      BY <1>2, <2>1, <3>2
    <3>3. CASE s \notin F /\ came_from[s] # current
      <4>1. came_from[s] \in seen /\ came_from[s] \notin F /\ came_from[s] \in States
        BY <1>1, <3>3
      <4>2. p[s] = q[s] /\ p[came_from[s]] = q[came_from[s]] /\ Grown(u, F)[s] = came_from[s]
        BY <1>2, <3>3, <4>1
      <4> QED BY <2>1, <3>3, <4>2
    <3> QED BY <3>1, <3>2, <3>3
  <2>3. Back(q, came_from)
    <3> DEFINE rhs == [s \in States |-> IF came_from[s] = current THEN <<s>> ELSE Append(q[came_from[s]], s)]
    <3>1. \A s \in States : q[s] = rhs[s]
      BY <2>2
    <3>2. q = rhs
      <4>1. DOMAIN q = States /\ DOMAIN rhs = States /\ q = [s \in States |-> q[s]] /\ rhs = [s \in States |-> rhs[s]]
        OBVIOUS
      <4> HIDE DEF q, rhs
      <4> QED BY <3>1, <4>1
    <3> HIDE DEF q
    <3> QED BY <3>2 DEF Back
  <2>4. \A s \in seen : Way(p, s) = Way(q, s)
    BY <1>1 DEF Way
  <2>5. ASSUME NEW v \in F PROVE Way(p, v) = Append(Way(q, u), v)
    <3>1. Grown(u, F)[v] = u /\ v # current /\ v \in States
      BY <1>1, <1>2
    <3>2. p[v] = IF u = current THEN <<v>> ELSE Append(p[u], v)
      BY <2>1, <3>1
    <3>3. p[u] = q[u]
      BY <1>1
    <3>4. CASE u = current
      BY <3>1, <3>2, <3>4 DEF Way
    <3>5. CASE u # current
      BY <3>1, <3>2, <3>3, <3>5 DEF Way
    <3> QED BY <3>4, <3>5
  <2>6. GoesOn(p, q, u, F)
    BY <2>4, <2>5 DEF GoesOn
  <2> QED BY <2>3, <2>6
<1> QED BY <1>3, <1>4 DEF TreeInv

\* Hops() reads the way to the target off the tree.
LEMMA HopsFacts ==
  ASSUME NEW parent, \E p : Back(p, parent)
  PROVE  \E p : Back(p, parent) /\ Hops(parent) = p[target]
<1> DEFINE p == CHOOSE f : Back(f, parent)
<1>1. Back(p, parent)
  OBVIOUS
<1>2. Hops(parent) = p[target]
  BY DEF Hops, Back
<1> QED BY <1>1, <1>2

\* Within(), hop by hop.
LEMMA WithinFacts ==
  ASSUME InputOK
  PROVE  /\ \A k \in Nat : Within(k) \subseteq States
         /\ Within(0) = {current}
         /\ \A k \in Nat : \A t : t \in Within(k + 1) <=>
              t \in Within(k) \/ \E s \in Within(k) : Open(s) /\ t \in Targets(s)
<1> DEFINE Through == {s \in States : s = current \/ MayPass(s)}
           L == Levels(Through, States)
<1>1. /\ L \in [Nat -> SUBSET States] /\ L[0] = {current}
      /\ \A k \in Nat : L[k + 1] = L[k] \cup (States \cap UNION {Targets(s) : s \in L[k] \cap Through})
  <2> HIDE DEF Through
  <2> QED BY LevelFacts
<1>2. \A k \in Nat : Within(k) = L[k]
  BY DEF Within
<1>3. \A s \in States : s \in Through <=> Open(s)
  BY DEF Open
<1> HIDE DEF L, Through
<1>4. ASSUME NEW k \in Nat, NEW t
      PROVE  t \in Within(k + 1) <=>
               t \in Within(k) \/ \E s \in Within(k) : Open(s) /\ t \in Targets(s)
  <2>1. Within(k) = L[k] /\ Within(k + 1) = L[k + 1] /\ L[k] \subseteq States
    BY <1>1, <1>2
  <2>2. L[k + 1] = L[k] \cup (States \cap UNION {Targets(s) : s \in L[k] \cap Through})
    BY <1>1
  <2>3. \A s : Targets(s) \subseteq States
    BY TableFacts
  <2> QED BY <1>3, <2>1, <2>2, <2>3
<1> QED BY <1>1, <1>2, <1>4

\* Where a path leads is within its number of hops.
LEMMA LeadsWithin ==
  ASSUME InputOK, NEW k \in Nat, NEW o, NEW s, Leads(o, k, s)
  PROVE  s \in Within(k)
<1>1. /\ Len(o) = k
      /\ \A i \in 1..k : o[i] \in Targets(Source(o, i)) /\ (i < k => MayPass(o[i]))
  BY DEF Leads, ValidPath
<1> DEFINE S == {i \in Nat : i <= k => Source(o, i + 1) \in Within(i)}
<1>2. 0 \in S
  BY WithinFacts DEF Source
<1>3. ASSUME NEW i \in Nat, i \in S PROVE i + 1 \in S
  <2> SUFFICES ASSUME i + 1 <= k PROVE Source(o, (i + 1) + 1) \in Within(i + 1)
    OBVIOUS
  <2>1. Source(o, i + 1) \in Within(i)
    BY <1>3
  <2>2. Open(Source(o, i + 1))
    <3>1. CASE i = 0
      BY <3>1 DEF Source, Open
    <3>2. CASE i # 0
      <4>1. Source(o, i + 1) = o[i] /\ i \in 1..k /\ i < k
        BY <3>2 DEF Source
      <4> QED BY <1>1, <4>1 DEF Open
    <3> QED BY <3>1, <3>2
  <2>3. Source(o, (i + 1) + 1) = o[i + 1] /\ i + 1 \in 1..k
    BY DEF Source
  <2>4. o[i + 1] \in Targets(Source(o, i + 1))
    BY <1>1, <2>3
  <2> QED BY <2>1, <2>2, <2>3, <2>4, WithinFacts
<1> HIDE DEF S
<1>4. k \in S
  BY <1>2, <1>3, SetInduction
<1> QED BY <1>4 DEF S, Leads

\* Numbers of hops are numbers.
LEMMA DepthType ==
  ASSUME NEW p, NEW S, Valid(p, S), NEW s \in S
  PROVE  Depth(p, s) \in Nat
  BY DEF Valid, Depth

\* Up to the level that is being expanded everything in reach was seen, and
\* at no greater depth than it has to be.
LEMMA ReachedSeen ==
  ASSUME QueueInv, TreeInv, NEW p, Valid(p, seen), Levelled(p, seen, queue), NEW k \in Nat,
         \A i \in 1..Len(queue) : k <= Depth(p, queue[i]), NEW t \in Within(k)
  PROVE  t \in seen /\ Depth(p, t) <= k
<1> DEFINE S == {m \in Nat : m <= k => \A s \in Within(m) : s \in seen /\ Depth(p, s) <= m}
<1>1. 0 \in S
  <2>1. \A s \in Within(0) : s = current
    BY WithinFacts DEF QueueInv
  <2>2. Depth(p, current) = 0 /\ current \in seen
    BY DEF Depth, Way, QueueInv
  <2> QED BY <2>1, <2>2
<1>2. ASSUME NEW m \in Nat, m \in S PROVE m + 1 \in S
  <2> SUFFICES ASSUME m + 1 <= k, NEW s \in Within(m + 1)
               PROVE  s \in seen /\ Depth(p, s) <= m + 1
    OBVIOUS
  <2>1. \A r \in Within(m) : r \in seen /\ Depth(p, r) <= m
    BY <1>2
  <2>2. CASE s \in Within(m)
    <3>1. s \in seen /\ Depth(p, s) <= m /\ Depth(p, s) \in Nat
      BY <2>1, <2>2, DepthType
    <3> QED BY <3>1
  <2>3. CASE s \notin Within(m)
    <3>1. PICK r \in Within(m) : Open(r) /\ s \in Targets(r)
      BY <2>3, WithinFacts DEF QueueInv
    <3>2. r \in seen /\ Depth(p, r) <= m /\ Depth(p, r) \in Nat
      BY <2>1, DepthType
    <3>3. r \notin Range(queue)
      <4> SUFFICES ASSUME r \in Range(queue) PROVE FALSE
        OBVIOUS
      <4>1. PICK i \in 1..Len(queue) : queue[i] = r
        BY DEF Range, QueueInv
      <4>2. k <= Depth(p, r)
        BY <4>1
      <4> QED BY <3>2, <4>2
    <3>4. s \in seen
      BY <3>1, <3>2, <3>3 DEF TreeInv
    <3>5. Depth(p, s) <= Depth(p, r) + 1 /\ Depth(p, s) \in Nat
      BY <3>1, <3>2, <3>3, <3>4, DepthType DEF Levelled
    <3> QED BY <3>2, <3>4, <3>5
  <2> QED BY <2>2, <2>3
<1> HIDE DEF S
<1>3. k \in S
  BY <1>1, <1>2, SetInduction
<1> QED BY <1>3 DEF S

\* A turn of path_to at u: F is what it sees anew, Q the queue it leaves.
TurnAt(u, F, Q) ==
  /\ Len(queue) \in Nat \ {0} /\ u = queue[1] /\ u \in seen /\ Open(u)
  /\ F = Targets(u) \ seen
  /\ Range(Q) = (Range(queue) \ {u}) \cup Passable(F) /\ Len(Q) \in Nat
  /\ \A i \in 1..Len(Q) :
       \/ i < Len(queue) /\ i + 1 \in 1..Len(queue) /\ Q[i] = queue[i + 1]
       \/ i >= Len(queue) /\ Q[i] \in F /\ MayPass(Q[i])
  /\ \A i, j \in 1..Len(Q) : i >= Len(queue) /\ i < j => Order(Q[i]) < Order(Q[j])

\* What ExpandPath does is such a turn, and leaves a proper queue.
LEMMA TurnFacts ==
  ASSUME QueueInv, TreeInv, queue # <<>>
  PROVE  LET u == Head(queue)
             F == Fresh(u)
             Q == Tail(queue) \o Sorted(Passable(F))
         IN /\ TurnAt(u, F, Q) /\ F \in SUBSET (States \ seen)
            /\ Q \in Seq(seen \cup F) /\ \A i, j \in 1..Len(Q) : Q[i] = Q[j] => i = j
<1> DEFINE u == Head(queue)
           F == Fresh(u)
           G == Passable(F)
           Q == Tail(queue) \o Sorted(G)
<1>1. F = Targets(u) \ seen /\ F \in SUBSET (States \ seen) /\ G \in SUBSET (States \ seen) /\ G \subseteq F
  BY TableFacts DEF Fresh, Passable, QueueInv
<1>2. \A v \in G : v \in F /\ MayPass(v)
  BY DEF Passable, MayPass
<1> HIDE DEF F, G
<1>3. /\ Q \in Seq(seen \cup G) /\ Range(Q) = (Range(queue) \ {u}) \cup G
      /\ u = queue[1] /\ Len(queue) \in Nat \ {0} /\ Len(Q) \in Nat
      /\ \A i \in 1..Len(Q) :
           \/ i < Len(queue) /\ i + 1 \in 1..Len(queue) /\ Q[i] = queue[i + 1]
           \/ i >= Len(queue) /\ Q[i] \in G
      /\ \A i, j \in 1..Len(Q) : i >= Len(queue) /\ i < j => Order(Q[i]) < Order(Q[j])
      /\ \A i, j \in 1..Len(Q) : Q[i] = Q[j] => i = j
  BY <1>1, QueueTurn
<1> HIDE DEF Q, u
<1>4. u \in seen /\ Open(u)
  BY <1>3 DEF QueueInv, TreeInv
<1>5. Q \in Seq(seen \cup F)
  BY <1>1, <1>3
<1>6. TurnAt(u, F, Q)
  BY <1>1, <1>2, <1>3, <1>4 DEF TurnAt, G
<1> QED BY <1>1, <1>3, <1>5, <1>6 DEF Q, u, F, G

\* What p's ways are, seen from q's.
After(p, q, u, F) ==
  /\ Depth(q, u) \in Nat /\ Way(q, u) \in Seq(States)
  /\ \A s \in seen : Way(p, s) = Way(q, s) /\ Depth(p, s) = Depth(q, s) /\ Depth(q, s) \in Nat
  /\ \A v \in F :
       /\ Way(p, v) \in Seq(States) /\ Depth(p, v) = Depth(q, u) + 1
       /\ \A i \in 1..Depth(q, u) : Way(p, v)[i] = Way(q, u)[i]
       /\ Way(p, v)[Depth(q, u) + 1] = v

\* The ways after a turn, seen from the ways before it.
LEMMA WaysAfter ==
  ASSUME QueueInv, NEW u \in seen, NEW F \in SUBSET (States \ seen),
         NEW p, NEW q, Valid(q, seen), GoesOn(p, q, u, F)
  PROVE  After(p, q, u, F)
<1>1. Depth(q, u) \in Nat /\ Way(q, u) \in Seq(States)
  BY DepthType DEF Valid
<1>2. ASSUME NEW s \in seen PROVE Way(p, s) = Way(q, s) /\ Depth(p, s) = Depth(q, s) /\ Depth(q, s) \in Nat
  BY DepthType DEF GoesOn, Depth
<1>3. ASSUME NEW v \in F
      PROVE  /\ Way(p, v) \in Seq(States) /\ Depth(p, v) = Depth(q, u) + 1
             /\ \A i \in 1..Depth(q, u) : Way(p, v)[i] = Way(q, u)[i]
             /\ Way(p, v)[Depth(q, u) + 1] = v
  <2> DEFINE w == Way(q, u)
             a == Way(p, v)
  <2>1. a = Append(w, v) /\ w \in Seq(States) /\ v \in States
    BY <1>1 DEF GoesOn
  <2>2. Depth(q, u) = Len(w) /\ Depth(p, v) = Len(a)
    BY DEF Depth
  <2> HIDE DEF w, a
  <2>3. a \in Seq(States) /\ Len(a) = Len(w) + 1 /\ a[Len(w) + 1] = v /\ \A i \in 1..Len(w) : a[i] = w[i]
    BY <2>1
  <2> QED BY <2>2, <2>3 DEF w, a
<1> QED BY <1>1, <1>2, <1>3 DEF After

\* A turn lengthens the way to u by one hop, to each state it sees anew.
LEMMA ValidGrows ==
  ASSUME QueueInv, NEW u \in seen, Open(u), NEW F \in SUBSET (States \ seen), F \subseteq Targets(u),
         NEW p, NEW q, Valid(q, seen), GoesOn(p, q, u, F)
  PROVE  Valid(p, seen \cup F)
<1> DEFINE d == Depth(q, u)
           w == Way(q, u)
<1>1. /\ d \in Nat /\ w \in Seq(States) /\ d = Len(w)
      /\ \A s \in seen : Way(p, s) = Way(q, s) /\ Depth(p, s) = Depth(q, s)
      /\ \A v \in F : Way(p, v) \in Seq(States) /\ Depth(p, v) = d + 1
                      /\ (\A i \in 1..d : Way(p, v)[i] = w[i]) /\ Way(p, v)[d + 1] = v
  <2>1. d = Len(w)
    BY DEF Depth
  <2>2. After(p, q, u, F)
    BY WaysAfter
  <2> QED BY <2>1, <2>2 DEF After
<1>2. ASSUME NEW s \in seen
      PROVE  /\ Way(p, s) \in Seq(States) /\ ValidPath(Way(p, s))
             /\ s # current => Depth(p, s) \in Nat \ {0} /\ Way(p, s)[Depth(p, s)] = s
  BY <1>1 DEF Valid
<1>3. ValidPath(w) /\ (u # current => d \in Nat \ {0} /\ w[d] = u) /\ (u = current => d = 0)
  BY DEF Valid, Depth, Way
<1>4. Source(w, d + 1) = u
  BY <1>1, <1>3 DEF Source
<1> HIDE DEF d, w
<1>5. ASSUME NEW v \in F PROVE ValidPath(Way(p, v))
  <2> DEFINE a == Way(p, v)
  <2>1. /\ a \in Seq(States) /\ Len(a) = d + 1 /\ a[d + 1] = v
        /\ \A i \in 1..d : a[i] = w[i]
    BY <1>1 DEF Depth
  <2> HIDE DEF a
  <2>2. \A i \in 1..(d + 1) : Source(a, i) = Source(w, i)
    BY <1>1, <2>1 DEF Source
  <2>3. ASSUME NEW i \in 1..(d + 1) PROVE a[i] \in Targets(Source(a, i)) /\ (i < d + 1 => MayPass(a[i]))
    <3>1. CASE i = d + 1
      BY <1>1, <1>4, <2>1, <2>2, <3>1
    <3>2. CASE i # d + 1
      <4>1. i \in 1..d /\ i \in 1..Len(w)
        BY <1>1, <3>2
      <4>2. w[i] \in Targets(Source(w, i)) /\ (i < d => MayPass(w[i]))
        BY <1>1, <1>3, <4>1 DEF ValidPath
      <4>3. i = d => MayPass(w[i])
        BY <1>1, <1>3, <4>1 DEF Open
      <4> QED BY <1>1, <2>1, <2>2, <4>1, <4>2, <4>3
    <3> QED BY <3>1, <3>2
  <2> QED BY <2>1, <2>3 DEF ValidPath, a
<1>6. ASSUME NEW v \in F
      PROVE  /\ Way(p, v) \in Seq(States) /\ ValidPath(Way(p, v))
             /\ Depth(p, v) \in Nat \ {0} /\ Way(p, v)[Depth(p, v)] = v
  BY <1>1, <1>5
<1> QED BY <1>2, <1>6 DEF Valid

\* The states a turn sees anew are at the level after u's, at the queue's end.
LEMMA LevelledGrows ==
  ASSUME QueueInv, TreeInv, NEW u, NEW F, NEW Q, TurnAt(u, F, Q),
         NEW p, NEW q, After(p, q, u, F), Levelled(q, seen, queue)
  PROVE  Levelled(p, seen \cup F, Q)
<1> DEFINE d == Depth(q, u)
<1>0. /\ Len(queue) \in Nat \ {0} /\ u = queue[1] /\ u \in seen /\ Open(u) /\ F = Targets(u) \ seen
      /\ Range(Q) = (Range(queue) \ {u}) \cup Passable(F) /\ Len(Q) \in Nat
      /\ current \in seen /\ \A i \in 1..Len(queue) : queue[i] \in seen
  BY DEF TurnAt, QueueInv
<1>1. /\ d \in Nat /\ \A s \in seen : Depth(p, s) = Depth(q, s) /\ Depth(q, s) \in Nat
      /\ \A v \in F : Depth(p, v) = d + 1
  BY DEF After
<1>2. \A i \in 1..Len(Q) :
        \/ i < Len(queue) /\ i + 1 \in 1..Len(queue) /\ Q[i] = queue[i + 1]
        \/ i >= Len(queue) /\ Q[i] \in F
  BY DEF TurnAt
<1>3. \A s \in seen : Depth(q, s) <= d + 1
  BY <1>0 DEF Levelled
<1>4. \A i, j \in 1..Len(queue) : i < j => Depth(q, queue[i]) <= Depth(q, queue[j])
  BY DEF Levelled
<1>5. \A i \in 1..Len(queue) : d <= Depth(q, queue[i])
  BY <1>0, <1>1, <1>4
<1> HIDE DEF d
<1>6. \A s \in seen \cup F : Depth(p, s) \in Nat /\ Depth(p, s) <= d + 1
  BY <1>1, <1>3
<1>7. ASSUME NEW i \in 1..Len(Q) PROVE d <= Depth(p, Q[i]) /\ Depth(p, Q[i]) \in Nat
  <2>1. CASE Q[i] \in F
    BY <1>1, <2>1
  <2>2. CASE Q[i] \notin F
    BY <1>0, <1>1, <1>2, <1>5, <2>2
  <2> QED BY <2>1, <2>2
<1>8. ASSUME NEW s \in seen \cup F, Open(s), s \notin Range(Q), NEW t \in Targets(s)
      PROVE  Depth(p, t) <= Depth(p, s) + 1
  <2>1. s \in seen
    BY <1>0, <1>8 DEF Passable, MayPass, Open
  <2>2. CASE s = u
    <3>1. t \in seen \cup F
      BY <1>0, <2>2
    <3> QED BY <1>0, <1>1, <1>6, <2>2, <3>1 DEF d
  <2>3. CASE s # u
    <3>1. s \notin Range(queue)
      BY <1>0, <1>8, <2>3
    <3>2. t \in seen
      BY <1>8, <2>1, <3>1 DEF TreeInv
    <3>3. Depth(q, t) <= Depth(q, s) + 1
      BY <1>8, <2>1, <3>1 DEF Levelled
    <3> QED BY <1>1, <2>1, <3>2, <3>3
  <2> QED BY <2>2, <2>3
<1>9. ASSUME NEW i \in 1..Len(Q), NEW s \in seen \cup F PROVE Depth(p, s) <= Depth(p, Q[i]) + 1
  BY <1>1, <1>6, <1>7
<1>10. ASSUME NEW i \in 1..Len(Q), NEW j \in 1..Len(Q), i < j PROVE Depth(p, Q[i]) <= Depth(p, Q[j])
  <2>1. CASE j >= Len(queue)
    <3>1. Depth(p, Q[j]) = d + 1 /\ Q[i] \in seen \cup F
      <4>1. Q[j] \in F
        BY <1>0, <1>2, <2>1
      <4>2. Q[i] \in seen \cup F
        BY <1>0, <1>2
      <4> QED BY <1>1, <4>1, <4>2
    <3> QED BY <1>6, <3>1
  <2>2. CASE j < Len(queue)
    <3>1. /\ i + 1 \in 1..Len(queue) /\ Q[i] = queue[i + 1] /\ i + 1 < j + 1
          /\ j + 1 \in 1..Len(queue) /\ Q[j] = queue[j + 1]
      <4>1. i < Len(queue) /\ j < Len(queue) /\ i + 1 < j + 1
        BY <1>0, <1>10, <2>2
      <4>2. i + 1 \in 1..Len(queue) /\ Q[i] = queue[i + 1]
        BY <1>0, <1>2, <4>1
      <4>3. j + 1 \in 1..Len(queue) /\ Q[j] = queue[j + 1]
        BY <1>0, <1>2, <4>1
      <4> QED BY <4>1, <4>2, <4>3
    <3>2. Depth(q, queue[i + 1]) <= Depth(q, queue[j + 1])
      BY <1>4, <3>1
    <3> QED BY <1>0, <1>1, <3>1, <3>2
  <2> QED BY <1>0, <2>1, <2>2
<1> QED BY <1>8, <1>9, <1>10 DEF Levelled

\* What precedes b, precedes what b begins.
LEMMA PrecedesPrefix ==
  ASSUME NEW a, NEW b, NEW c, NEW e, NEW m \in Nat, NEW n \in Nat, m <= n,
         \A i \in 1..m : a[i] = c[i] /\ b[i] = e[i], Precedes(a, b, m)
  PROVE  Precedes(c, e, n)
<1>1. PICK i \in 1..m : (\A j \in 1..(i - 1) : a[j] = b[j]) /\ Order(a[i]) < Order(b[i])
  BY DEF Precedes
<1>2. i \in 1..n /\ a[i] = c[i] /\ b[i] = e[i]
  OBVIOUS
<1>3. \A j \in 1..(i - 1) : c[j] = e[j]
  BY <1>1
<1> QED BY <1>1, <1>2, <1>3 DEF Precedes

\* Precedes is transitive.
LEMMA PrecedesTrans ==
  ASSUME NEW m \in Nat, NEW a, NEW b, NEW c,
         \A i \in 1..m : Order(a[i]) \in Nat /\ Order(b[i]) \in Nat /\ Order(c[i]) \in Nat,
         Precedes(a, b, m), Precedes(b, c, m)
  PROVE  Precedes(a, c, m)
<1>1. PICK i \in 1..m : (\A j \in 1..(i - 1) : a[j] = b[j]) /\ Order(a[i]) < Order(b[i])
  BY DEF Precedes
<1>2. PICK k \in 1..m : (\A j \in 1..(k - 1) : b[j] = c[j]) /\ Order(b[k]) < Order(c[k])
  BY DEF Precedes
<1> DEFINE l == IF i <= k THEN i ELSE k
<1>3. l \in 1..m /\ \A j \in 1..(l - 1) : a[j] = c[j]
  BY <1>1, <1>2
<1>4. Order(a[l]) < Order(c[l])
  <2>1. CASE i < k
    BY <1>1, <1>2, <2>1
  <2>2. CASE i = k
    BY <1>1, <1>2, <2>2
  <2>3. CASE k < i
    BY <1>1, <1>2, <2>3
  <2> QED BY <2>1, <2>2, <2>3
<1> QED BY <1>3, <1>4 DEF Precedes

\* The states a turn sees anew come after those that are queued, by their ways.
LEMMA RankedGrows ==
  ASSUME QueueInv, NEW u, NEW F, NEW Q, TurnAt(u, F, Q),
         NEW p, NEW q, After(p, q, u, F), Levelled(q, seen, queue), Ranked(q, queue)
  PROVE  Ranked(p, Q)
<1> DEFINE d == Depth(q, u)
<1>0. /\ Len(queue) \in Nat \ {0} /\ u = queue[1] /\ u \in seen /\ Len(Q) \in Nat
      /\ \A i \in 1..Len(queue) : queue[i] \in seen
  BY DEF TurnAt, QueueInv
<1>1. /\ d \in Nat /\ \A s \in seen : Way(p, s) = Way(q, s) /\ Depth(p, s) = Depth(q, s) /\ Depth(q, s) \in Nat
      /\ \A v \in F : /\ Depth(p, v) = d + 1 /\ Way(p, v)[d + 1] = v
                      /\ \A i \in 1..d : Way(p, v)[i] = Way(q, u)[i]
  BY DEF After
<1>2. \A i \in 1..Len(Q) :
        \/ i < Len(queue) /\ i + 1 \in 1..Len(queue) /\ Q[i] = queue[i + 1]
        \/ i >= Len(queue) /\ Q[i] \in F
  BY DEF TurnAt
<1>3. \A i, j \in 1..Len(Q) : i >= Len(queue) /\ i < j => Order(Q[i]) < Order(Q[j])
  BY DEF TurnAt
<1>4. ASSUME NEW i \in 1..Len(queue), NEW j \in 1..Len(queue), i < j
      PROVE  /\ Depth(q, queue[j]) = Depth(q, queue[i]) =>
                  Precedes(Way(q, queue[i]), Way(q, queue[j]), Depth(q, queue[i]))
             /\ Depth(q, queue[j]) = Depth(q, queue[i]) + 1 =>
                  Precedes(Way(q, queue[j]), Way(q, queue[i]), Depth(q, queue[i]))
  BY <1>4 DEF Ranked
<1>5. \A s \in seen : Depth(q, s) <= d + 1
  BY <1>0 DEF Levelled
<1>6. \A i \in 2..Len(queue) : d <= Depth(q, queue[i])
  BY <1>0 DEF Levelled
<1> HIDE DEF d
<1>7. ASSUME NEW i \in 1..Len(Q), NEW j \in 1..Len(Q), i < j
      PROVE  /\ Depth(p, Q[j]) = Depth(p, Q[i]) => Precedes(Way(p, Q[i]), Way(p, Q[j]), Depth(p, Q[i]))
             /\ Depth(p, Q[j]) = Depth(p, Q[i]) + 1 => Precedes(Way(p, Q[j]), Way(p, Q[i]), Depth(p, Q[i]))
  <2>1. CASE j < Len(queue)
    <3>1. /\ i + 1 \in 1..Len(queue) /\ Q[i] = queue[i + 1] /\ i + 1 < j + 1
          /\ j + 1 \in 1..Len(queue) /\ Q[j] = queue[j + 1]
      <4>1. i < Len(queue) /\ j < Len(queue) /\ i + 1 < j + 1
        BY <1>0, <1>7, <2>1
      <4>2. i + 1 \in 1..Len(queue) /\ Q[i] = queue[i + 1]
        BY <1>0, <1>2, <4>1
      <4>3. j + 1 \in 1..Len(queue) /\ Q[j] = queue[j + 1]
        BY <1>0, <1>2, <4>1
      <4> QED BY <4>1, <4>2, <4>3
    <3>2. /\ Q[i] \in seen /\ Q[j] \in seen
          /\ Depth(q, Q[j]) = Depth(q, Q[i]) => Precedes(Way(q, Q[i]), Way(q, Q[j]), Depth(q, Q[i]))
          /\ Depth(q, Q[j]) = Depth(q, Q[i]) + 1 => Precedes(Way(q, Q[j]), Way(q, Q[i]), Depth(q, Q[i]))
      BY <1>0, <1>4, <3>1
    <3> QED BY <1>1, <3>2
  <2>2. CASE i < Len(queue) /\ j >= Len(queue)
    <3> DEFINE y == Q[i]
               v == Q[j]
    <3>1. /\ i + 1 \in 1..Len(queue) /\ y = queue[i + 1] /\ 1 < i + 1 /\ y \in seen
          /\ v \in F /\ 1 \in 1..Len(queue) /\ i + 1 \in 2..Len(queue)
      BY <1>0, <1>2, <2>2
    <3>2. /\ Depth(q, y) = d => Precedes(Way(q, u), Way(q, y), d)
          /\ Depth(q, y) = d + 1 => Precedes(Way(q, y), Way(q, u), d)
      BY <1>0, <1>4, <3>1 DEF d
    <3>3. Depth(q, y) \in Nat /\ d <= Depth(q, y) /\ Depth(q, y) <= d + 1
      BY <1>1, <1>5, <1>6, <3>1
    <3> HIDE DEF y, v
    <3>4. CASE Depth(q, y) = d
      <4>1. Precedes(Way(p, v), Way(p, y), d)
        <5>1. \A k \in 1..d : Way(q, u)[k] = Way(p, v)[k] /\ Way(q, y)[k] = Way(p, y)[k]
          BY <1>1, <3>1
        <5> QED BY <1>1, <3>2, <3>4, <5>1, PrecedesPrefix
      <4>2. Depth(p, y) = d /\ Depth(p, v) = d + 1 /\ d # d + 1
        BY <1>1, <3>1, <3>4
      <4> QED BY <4>1, <4>2 DEF y, v
    <3>5. CASE Depth(q, y) = d + 1
      <4>1. Precedes(Way(p, y), Way(p, v), d + 1)
        <5>1. \A k \in 1..d : Way(q, u)[k] = Way(p, v)[k] /\ Way(q, y)[k] = Way(p, y)[k]
          BY <1>1, <3>1
        <5>2. d + 1 \in Nat /\ d <= d + 1
          BY <1>1
        <5> QED BY <1>1, <3>2, <3>5, <5>1, <5>2, PrecedesPrefix
      <4>2. Depth(p, y) = d + 1 /\ Depth(p, v) = d + 1 /\ d + 1 # (d + 1) + 1
        BY <1>1, <3>1, <3>5
      <4> QED BY <4>1, <4>2 DEF y, v
    <3> QED BY <1>1, <3>3, <3>4, <3>5
  <2>3. CASE i >= Len(queue)
    <3> DEFINE x == Q[i]
               v == Q[j]
    <3>1. x \in F /\ v \in F /\ Order(x) < Order(v)
      BY <1>0, <1>2, <1>3, <1>7, <2>3
    <3> HIDE DEF x, v
    <3>2. Depth(p, x) = d + 1 /\ Depth(p, v) = d + 1 /\ d + 1 # (d + 1) + 1
      BY <1>1, <3>1
    <3>3. Precedes(Way(p, x), Way(p, v), d + 1)
      <4>1. \A k \in 1..((d + 1) - 1) : Way(p, x)[k] = Way(p, v)[k]
        BY <1>1, <3>1
      <4>2. Order(Way(p, x)[d + 1]) < Order(Way(p, v)[d + 1]) /\ d + 1 \in 1..(d + 1)
        BY <1>1, <3>1
      <4> QED BY <4>1, <4>2 DEF Precedes
    <3> QED BY <3>2, <3>3 DEF x, v
  <2> QED BY <1>0, <2>1, <2>2, <2>3
<1> QED BY <1>7 DEF Ranked

\* A path without its last hop is a path, to a state with that hop that may be passed.
LEMMA LeadsFrom ==
  ASSUME InputOK, NEW d \in Nat, NEW o, NEW v, Leads(o, d + 1, v)
  PROVE  /\ Leads([i \in 1..d |-> o[i]], d, Source(o, d + 1))
         /\ Open(Source(o, d + 1)) /\ v \in Targets(Source(o, d + 1)) /\ o[d + 1] = v
<1> DEFINE a == [i \in 1..d |-> o[i]]
<1>1. /\ o \in [1..(d + 1) -> States] /\ Len(o) = d + 1
      /\ \A i \in 1..(d + 1) : o[i] \in Targets(Source(o, i)) /\ (i < d + 1 => MayPass(o[i]))
  BY DEF Leads, ValidPath
<1>2. o[d + 1] = v
  BY DEF Leads, Source
<1>3. a \in [1..d -> States] /\ Len(a) = d /\ \A i \in 1..d : a[i] = o[i]
  BY <1>1
<1> HIDE DEF a
<1>4. \A i \in 1..(d + 1) : Source(a, i) = Source(o, i)
  BY <1>3 DEF Source
<1>5. ValidPath(a)
  BY <1>1, <1>3, <1>4 DEF ValidPath
<1>6. Leads(a, d, Source(o, d + 1))
  BY <1>3, <1>4, <1>5 DEF Leads
<1>7. Open(Source(o, d + 1))
  <2>1. CASE d = 0
    BY <2>1 DEF Source, Open
  <2>2. CASE d # 0
    <3>1. Source(o, d + 1) = o[d] /\ d \in 1..(d + 1) /\ d < d + 1
      BY <2>2 DEF Source
    <3> QED BY <1>1, <3>1 DEF Open
  <2> QED BY <2>1, <2>2
<1>8. v \in Targets(Source(o, d + 1))
  BY <1>1, <1>2
<1> QED BY <1>2, <1>6, <1>7, <1>8 DEF a

\* Nothing is seen anew that fewer hops reach.
LEMMA FreshBeyond ==
  ASSUME QueueInv, TreeInv, NEW u, NEW F, NEW Q, TurnAt(u, F, Q),
         NEW q, Valid(q, seen), Levelled(q, seen, queue), NEW t \in Within(Depth(q, u))
  PROVE  t \in seen /\ Depth(q, t) <= Depth(q, u)
<1>1. /\ Len(queue) \in Nat \ {0} /\ u = queue[1] /\ u \in seen
      /\ \A i \in 1..Len(queue) : queue[i] \in seen
  BY DEF TurnAt, QueueInv
<1>2. Depth(q, u) \in Nat
  BY <1>1, DepthType
<1>3. \A i \in 1..Len(queue) : Depth(q, u) <= Depth(q, queue[i])
  BY <1>1, <1>2 DEF Levelled
<1> QED BY <1>2, <1>3, ReachedSeen

\* The way to a state seen anew comes before every other as short.
LEMMA FirstGrows ==
  ASSUME QueueInv, TreeInv, NEW u, NEW F, NEW Q, TurnAt(u, F, Q), NEW p, NEW q, After(p, q, u, F),
         Valid(q, seen), Levelled(q, seen, queue), Ranked(q, queue), First(q, seen)
  PROVE  First(p, seen \cup F)
<1> DEFINE d == Depth(q, u)
<1>0. /\ Len(queue) \in Nat \ {0} /\ u = queue[1] /\ u \in seen /\ F = Targets(u) \ seen
      /\ \A i \in 1..Len(queue) : queue[i] \in seen
      /\ F \subseteq States /\ InputOK /\ seen \subseteq States
  BY TableFacts DEF TurnAt, QueueInv
<1>1. /\ d \in Nat /\ \A s \in seen : Way(p, s) = Way(q, s) /\ Depth(p, s) = Depth(q, s) /\ Depth(q, s) \in Nat
      /\ \A v \in F : /\ Depth(p, v) = d + 1 /\ Way(p, v)[d + 1] = v
                      /\ \A i \in 1..d : Way(p, v)[i] = Way(q, u)[i]
  BY DEF After
<1>2. ASSUME NEW s \in seen, NEW o, Leads(o, Depth(p, s), s) PROVE ~Precedes(o, Way(p, s), Depth(p, s))
  BY <1>1, <1>2 DEF First
<1>3. ASSUME NEW v \in F, NEW o, Leads(o, Depth(p, v), v), Precedes(o, Way(p, v), Depth(p, v)) PROVE FALSE
  <2> DEFINE w == Source(o, d + 1)
             a == [i \in 1..d |-> o[i]]
  <2>1. Leads(o, d + 1, v) /\ Precedes(o, Way(p, v), d + 1)
    BY <1>1, <1>3
  <2>2. Leads(a, d, w) /\ Open(w) /\ v \in Targets(w) /\ o[d + 1] = v
    BY <1>0, <1>1, <2>1, LeadsFrom
  <2>3. a \in [1..d -> States]
    BY <2>2 DEF Leads
  <2>4. \A i \in 1..d : a[i] = o[i]
    OBVIOUS
  <2> HIDE DEF w, a
  <2>5. w \in seen /\ Depth(q, w) <= d
    <3>1. w \in Within(d)
      BY <1>0, <1>1, <2>2, LeadsWithin
    <3> HIDE DEF d
    <3> QED BY <3>1, FreshBeyond DEF d
  <2>6. w \in Range(queue)
    BY <1>0, <2>2, <2>5 DEF TreeInv
  <2>7. PICK j \in 1..Len(queue) : queue[j] = w
    BY <2>6 DEF Range, QueueInv
  <2>8. Depth(q, w) = d
    <3>1. d <= Depth(q, w)
      <4>1. CASE j = 1
        BY <1>0, <1>1, <2>7, <4>1
      <4>2. CASE j # 1
        BY <1>0, <2>7, <4>2 DEF Levelled
      <4> QED BY <4>1, <4>2
    <3> QED BY <1>1, <2>5, <3>1
  <2>9. ~Precedes(a, Way(q, w), d)
    BY <2>2, <2>5, <2>8 DEF First
  <2>10. Precedes(a, Way(q, u), d)
    <3>1. PICK i \in 1..(d + 1) : /\ \A k \in 1..(i - 1) : o[k] = Way(p, v)[k]
                                  /\ Order(o[i]) < Order(Way(p, v)[i])
      BY <2>1 DEF Precedes
    <3>2. Order(v) \in Nat
      BY <1>0, OrderFacts
    <3>3. i # d + 1
      BY <1>1, <2>2, <3>1, <3>2
    <3>4. i \in 1..d
      BY <1>1, <3>3
    <3>5. \A k \in 1..(i - 1) : k \in 1..d /\ a[k] = Way(q, u)[k]
      BY <1>1, <2>4, <3>1, <3>4
    <3>6. Order(a[i]) < Order(Way(q, u)[i])
      BY <1>1, <2>4, <3>1, <3>4
    <3> QED BY <3>4, <3>5, <3>6 DEF Precedes
  <2>11. CASE j = 1
    BY <1>0, <2>7, <2>9, <2>10, <2>11
  <2>12. CASE j # 1
    <3>1. Precedes(Way(q, u), Way(q, w), d)
      <4>1. 1 \in 1..Len(queue) /\ 1 < j
        BY <1>0, <2>12
      <4> QED BY <1>0, <2>7, <2>8, <4>1 DEF Ranked
    <3>2. ASSUME NEW s \in seen, Depth(q, s) = d, NEW i \in 1..d PROVE Order(Way(q, s)[i]) \in Nat
      <4>1. Way(q, s) \in Seq(States) /\ Len(Way(q, s)) = d
        BY <3>2 DEF Valid, Depth
      <4>2. Way(q, s)[i] \in States
        BY <4>1
      <4> QED BY <1>0, <4>2, OrderFacts
    <3>3. \A i \in 1..d : Order(a[i]) \in Nat
      BY <1>0, <2>3, OrderFacts
    <3>4. \A i \in 1..d : Order(a[i]) \in Nat /\ Order(Way(q, u)[i]) \in Nat /\ Order(Way(q, w)[i]) \in Nat
      BY <1>0, <2>5, <2>8, <3>2, <3>3
    <3>5. Precedes(a, Way(q, w), d)
      <4> HIDE DEF d
      <4> QED BY <1>1, <2>10, <3>1, <3>4, PrecedesTrans
    <3> QED BY <2>9, <3>5
  <2> QED BY <2>11, <2>12
<1> QED BY <1>2, <1>3 DEF First

\* The ways of p are as they should be, and as short as they can be.
GoodWays(p, S, Q) == Valid(p, S) /\ Levelled(p, S, Q) /\ Ranked(p, Q) /\ First(p, S)

Beyond(p, F) == \A v \in F : v \notin Within(Depth(p, v) - 1) /\ Depth(p, v) \in Nat \ {0}

\* A turn leaves the ways as they should be, and what it sees anew is as near as it looks.
LEMMA TurnWays ==
  ASSUME QueueInv, TreeInv, WaysInv, NEW u, NEW F, NEW Q, TurnAt(u, F, Q), NEW p, Back(p, Grown(u, F))
  PROVE  GoodWays(p, seen \cup F, Q) /\ Beyond(p, F)
<1>1. /\ u \in seen /\ Open(u) /\ F = Targets(u) \ seen /\ F \in SUBSET (States \ seen) /\ F \subseteq Targets(u)
  BY TableFacts DEF TurnAt, QueueInv
<1>2. PICK q : Back(q, came_from) /\ GoesOn(p, q, u, F)
  BY <1>1, WaysGrow
<1>3. Valid(q, seen) /\ Levelled(q, seen, queue) /\ Ranked(q, queue) /\ First(q, seen)
  BY <1>2 DEF WaysInv
<1>4. After(p, q, u, F)
  BY <1>1, <1>2, <1>3, WaysAfter
<1>5. Valid(p, seen \cup F)
  BY <1>1, <1>2, <1>3, ValidGrows
<1>6. Levelled(p, seen \cup F, Q)
  BY <1>3, <1>4, LevelledGrows
<1>7. Ranked(p, Q)
  BY <1>3, <1>4, RankedGrows
<1>8. First(p, seen \cup F)
  BY <1>3, <1>4, FirstGrows
<1>9. Beyond(p, F)
  <2>1. ASSUME NEW v \in F PROVE v \notin Within(Depth(p, v) - 1) /\ Depth(p, v) \in Nat \ {0}
    <3>1. Depth(p, v) = Depth(q, u) + 1 /\ Depth(q, u) \in Nat
      BY <1>4 DEF After
    <3>2. v \notin Within(Depth(q, u))
      BY <1>1, <1>3, FreshBeyond
    <3>3. Depth(p, v) - 1 = Depth(q, u) /\ Depth(p, v) \in Nat \ {0}
      BY <3>1
    <3> QED BY <3>2, <3>3
  <2> QED BY <2>1 DEF Beyond
<1> QED BY <1>5, <1>6, <1>7, <1>8, <1>9 DEF GoodWays

-----------------------------------------------------------------------------
(***************************************************************************)
(* The steps of path_to.                                                   *)
(***************************************************************************)

\* What depends on the inputs alone stays as it is.
LEMMA Kept ==
  ASSUME UNCHANGED inputs
  PROVE  /\ InputOK' <=> InputOK
         /\ States' = States /\ table' = table /\ current' = current /\ target' = target
         /\ machine' = machine /\ walk' = walk
         /\ \A s : Targets(s)' = Targets(s)
         /\ \A s : Open(s)' <=> Open(s)
         /\ \A s : MayPass(s)' <=> MayPass(s)
         /\ \A s : Order(s)' = Order(s)
         /\ \A k : Within(k)' = Within(k)
         /\ ExitStates' = ExitStates
         /\ \A s : Terminal(s)' <=> Terminal(s)
<1> USE DEF inputs
<1>1. InputOK' <=> InputOK
  BY DEF InputOK, States
<1>2. States' = States /\ table' = table /\ current' = current /\ target' = target /\ machine' = machine /\ walk' = walk
  BY DEF States, table
<1>3. \A s : Targets(s)' = Targets(s)
  BY DEF Targets, table
<1>4. \A s : (Open(s)' <=> Open(s)) /\ (MayPass(s)' <=> MayPass(s))
  BY DEF Open, MayPass
<1>5. \A s : Order(s)' = Order(s)
  BY DEF Order, table
<1>6. ASSUME NEW k PROVE Within(k)' = Within(k)
  BY DEF Within, Levels, States, MayPass, Targets, table
<1>7. ExitStates' = ExitStates
  BY DEF ExitStates, Levels, States, Targets, table
<1>8. \A s : Terminal(s)' <=> Terminal(s)
  BY DEF Terminal, table
<1> QED BY <1>1, <1>2, <1>3, <1>4, <1>5, <1>6, <1>7, <1>8

\* So do the ways.
LEMMA WaysKept ==
  ASSUME UNCHANGED inputs, NEW p
  PROVE  /\ Back(p, came_from)' <=> Back(p, came_from')
         /\ \A s : Way(p, s)' = Way(p, s) /\ Depth(p, s)' = Depth(p, s)
         /\ \A o : ValidPath(o)' <=> ValidPath(o)
         /\ Valid(p, seen)' <=> Valid(p, seen')
         /\ Levelled(p, seen, queue)' <=> Levelled(p, seen', queue')
         /\ Ranked(p, queue)' <=> Ranked(p, queue')
         /\ First(p, seen)' <=> First(p, seen')
<1>1. Back(p, came_from)' <=> Back(p, came_from')
  BY DEF inputs, Back, States
<1>2. ASSUME NEW s PROVE Way(p, s)' = Way(p, s) /\ Depth(p, s)' = Depth(p, s)
  BY DEF inputs, Way, Depth
<1>3. ASSUME NEW o PROVE ValidPath(o)' <=> ValidPath(o)
  BY DEF inputs, ValidPath, MayPass, Source, Targets, table
<1>4. Valid(p, seen)' <=> Valid(p, seen')
  BY DEF inputs, Valid, Way, Depth, States, ValidPath, MayPass, Source, Targets, table
<1>5. Levelled(p, seen, queue)' <=> Levelled(p, seen', queue')
  BY DEF inputs, Levelled, Way, Depth, MayPass, Open, Targets, table
<1>6. Ranked(p, queue)' <=> Ranked(p, queue')
  BY DEF inputs, Ranked, Way, Depth, Precedes, Order, table
<1>7. First(p, seen)' <=> First(p, seen')
  BY DEF inputs, First, Leads, Way, Depth, Precedes, Order, States, ValidPath, MayPass, Source, Targets, table
<1> QED BY <1>1, <1>2, <1>3, <1>4, <1>5, <1>6, <1>7

\* A turn that does not meet the target lets the search go on.
LEMMA TurnGoesOn ==
  ASSUME QueueInv, TreeInv, WaysInv, ExpandPath, target \notin Fresh(Head(queue))
  PROVE  QueueInv' /\ TreeInv' /\ WaysInv'
<1> DEFINE u == Head(queue)
           F == Fresh(u)
           Q == Tail(queue) \o Sorted(Passable(F))
<1>1. /\ queue # <<>> /\ UNCHANGED inputs
      /\ came_from' = Grown(u, F) /\ seen' = seen \cup F /\ queue' = Q
  BY DEF ExpandPath, PathTurn, Grown
<1>2. /\ TurnAt(u, F, Q) /\ F \in SUBSET (States \ seen)
      /\ Q \in Seq(seen \cup F) /\ \A i, j \in 1..Len(Q) : Q[i] = Q[j] => i = j
  BY <1>1, TurnFacts
<1>3. target \notin F
  OBVIOUS
<1> HIDE DEF u, F, Q
<1>4. /\ States' = States /\ current' = current /\ target' = target /\ (InputOK' <=> InputOK)
      /\ \A s : Targets(s)' = Targets(s)
      /\ \A s : Open(s)' <=> Open(s)
  BY <1>1, Kept
<1>5. QueueInv'
  BY <1>1, <1>2, <1>4 DEF QueueInv
<1>6. /\ u \in seen /\ Open(u) /\ F = Targets(u) \ seen
      /\ Range(Q) = (Range(queue) \ {u}) \cup Passable(F)
      /\ \A i \in 1..Len(Q) :
           \/ i + 1 \in 1..Len(queue) /\ Q[i] = queue[i + 1]
           \/ Q[i] \in F /\ MayPass(Q[i])
  BY <1>2 DEF TurnAt
<1>7. TreeInv'
  <2>1. came_from' \in [States -> States] /\ came_from'[current] = current
    <3>1. current \notin F /\ u \in States /\ current \in States
      BY <1>2, <1>6 DEF QueueInv, InputOK
    <3> QED BY <1>1, <3>1 DEF Grown, TreeInv
  <2>2. \A s \in States \ seen' : came_from'[s] = current
    BY <1>1 DEF Grown, TreeInv
  <2>3. ASSUME NEW s \in seen' \ {current}
        PROVE  came_from'[s] \in seen' /\ Open(came_from'[s]) /\ s \in Targets(came_from'[s])
    <3>1. CASE s \in F
      <4>1. came_from'[s] = u
        BY <1>1, <1>2, <3>1 DEF Grown
      <4> QED BY <1>1, <1>6, <3>1, <4>1
    <3>2. CASE s \notin F
      <4>1. s \in seen \ {current} /\ s \in States
        BY <1>1, <3>2 DEF QueueInv
      <4>2. came_from'[s] = came_from[s]
        BY <1>1, <3>2, <4>1 DEF Grown
      <4> QED BY <1>1, <4>1, <4>2 DEF TreeInv
    <3> QED BY <3>1, <3>2
  <2>4. \A i \in 1..Len(queue') : Open(queue'[i])
    BY <1>1, <1>6 DEF TreeInv, Open
  <2>5. ASSUME NEW s \in seen', Open(s), s \notin Range(queue') PROVE Targets(s) \subseteq seen'
    <3>1. s \in seen
      <4>1. s \in F => s # current
        BY <1>2 DEF QueueInv
      <4> QED BY <1>1, <1>6, <2>5, <4>1 DEF Passable, MayPass, Open
    <3>2. CASE s = u
      BY <1>1, <1>6, <3>2
    <3>3. CASE s # u
      <4>1. s \notin Range(queue)
        BY <1>1, <1>6, <2>5, <3>3
      <4> QED BY <1>1, <2>5, <3>1, <4>1 DEF TreeInv
    <3> QED BY <3>2, <3>3
  <2>6. target \notin seen'
    BY <1>1, <1>3 DEF TreeInv
  <2>7. \E p : Back(p, came_from')
    BY <1>1, <1>2, <1>6, WaysGrow
  <2>8. \E p : Back(p, came_from)'
    <3>1. PICK p : Back(p, came_from')
      BY <2>7
    <3>2. Back(p, came_from)'
      BY <1>1, <3>1, WaysKept
    <3> QED BY <3>2
  <2> QED BY <1>4, <2>1, <2>2, <2>3, <2>4, <2>5, <2>6, <2>8 DEF TreeInv
<1>8. WaysInv'
  <2> SUFFICES ASSUME NEW p, Back(p, came_from)'
               PROVE  (Valid(p, seen) /\ Levelled(p, seen, queue) /\ Ranked(p, queue) /\ First(p, seen))'
    BY DEF WaysInv
  <2>1. Back(p, Grown(u, F))
    BY <1>1, WaysKept
  <2>2. GoodWays(p, seen', queue')
    BY <1>1, <1>2, <2>1, TurnWays
  <2> QED BY <1>1, <2>2, WaysKept DEF GoodWays
<1> QED BY <1>5, <1>7, <1>8

\* The path is as short as can be.
ShortPath(path) ==
  path[Len(path)] = target /\ ValidPath(path) /\ target \notin Within(Len(path) - 1)

\* No other as short comes before it.
FirstPath(path) ==
  LET k == Len(path) IN
  \A other \in [1..k -> DOMAIN table] :
    (k > 0 /\ other[k] = target /\ ValidPath(other)) =>
      ~\E i \in 1..k : (\A j \in 1..(i - 1) : other[j] = path[j]) /\ other[i] < path[i]

\* What a turn reads off the tree when it meets the target.
LEMMA TurnFinds ==
  ASSUME QueueInv, TreeInv, WaysInv, queue # <<>>, target \in Fresh(Head(queue))
  PROVE  LET path == Hops(Grown(Head(queue), Fresh(Head(queue)))) IN ShortPath(path) /\ FirstPath(path)
<1> DEFINE u == Head(queue)
           F == Fresh(u)
           Q == Tail(queue) \o Sorted(Passable(F))
           path == Hops(Grown(u, F))
<1>1. TurnAt(u, F, Q) /\ F \in SUBSET (States \ seen)
  BY TurnFacts
<1>2. target \in F
  OBVIOUS
<1> HIDE DEF u, F, Q
<1>3. u \in seen /\ current \in seen /\ InputOK
  BY <1>1 DEF TurnAt, QueueInv
<1>4. PICK p : Back(p, Grown(u, F)) /\ path = p[target]
  BY <1>1, <1>3, WaysGrow, HopsFacts
<1>5. GoodWays(p, seen \cup F, Q) /\ Beyond(p, F)
  BY <1>1, <1>4, TurnWays
<1>6. target # current /\ target \notin seen
  BY <1>1, <1>2, <1>3
<1>7. path = Way(p, target) /\ Len(path) = Depth(p, target)
  BY <1>4, <1>6 DEF Way, Depth
<1> HIDE DEF path
<1>8. /\ path \in Seq(States) /\ ValidPath(path) /\ Len(path) \in Nat \ {0} /\ path[Len(path)] = target
      /\ target \notin Within(Len(path) - 1)
  BY <1>2, <1>5, <1>6, <1>7 DEF GoodWays, Valid, Beyond
<1>9. ShortPath(path)
  BY <1>8 DEF ShortPath
<1> DEFINE k == Len(path)
<1>10. \A o : Leads(o, k, target) => ~Precedes(o, path, k)
  BY <1>2, <1>5, <1>7 DEF GoodWays, First
<1>11. ASSUME NEW other \in [1..k -> DOMAIN table], other[k] = target, ValidPath(other),
              NEW i \in 1..k, \A j \in 1..(i - 1) : other[j] = path[j], other[i] < path[i]
       PROVE  FALSE
  <2>1. k \in Nat \ {0} /\ \A j \in 1..k : path[j] \in States
    BY <1>8
  <2> HIDE DEF k
  <2>2. other \in [1..k -> States]
    BY <1>3, <1>11, TableFacts
  <2>3. Source(other, k + 1) = target
    BY <1>11, <2>1 DEF Source
  <2>4. Leads(other, k, target)
    BY <1>11, <2>2, <2>3 DEF Leads
  <2>5. Order(other[i]) < Order(path[i])
    <3>1. other[i] \in DOMAIN table /\ other[i] \in Nat /\ path[i] \in Nat /\ machine.n \in Nat
      BY <1>3, <1>11, <2>1, <2>2, TableFacts DEF States
    <3> QED BY <1>11, <3>1 DEF Order
  <2>6. Precedes(other, path, k)
    BY <1>11, <2>5 DEF Precedes
  <2> QED BY <1>10, <2>4, <2>6
<1>12. FirstPath(path)
  BY <1>11 DEF FirstPath
<1> QED BY <1>9, <1>12 DEF path, u, F

-----------------------------------------------------------------------------
(***************************************************************************)
(* unconditional_exit_reachable.                                           *)
(***************************************************************************)

\* Where at most k unconditional hops lead.
ExitLevel(k) == Levels(States, machine.unconditional)[k]

\* What leaves the queue has an unconditional way on, and no more hops lead
\* to what was seen than there are states in it.
ExitInv ==
  /\ \E k \in Nat : k < Cardinality(seen) /\ seen \subseteq ExitLevel(k)
  /\ \A s \in seen : s \notin Range(queue) =>
       /\ s \in DOMAIN table /\ ~Terminal(s)
       /\ Targets(s) \cap machine.unconditional \subseteq seen

\* The levels, hop by hop.
LEMMA ExitLevelFacts ==
  ASSUME InputOK
  PROVE  /\ \A k \in Nat : ExitLevel(k) \subseteq States
         /\ ExitLevel(0) = {current}
         /\ \A k \in Nat : \A t : t \in ExitLevel(k + 1) <=>
              \/ t \in ExitLevel(k)
              \/ t \in machine.unconditional /\ \E s \in ExitLevel(k) : t \in Targets(s)
         /\ ExitStates = ExitLevel(machine.n)
<1> DEFINE U == machine.unconditional
           L == Levels(States, U)
<1>1. /\ L \in [Nat -> SUBSET States] /\ L[0] = {current}
      /\ \A k \in Nat : L[k + 1] = L[k] \cup (U \cap UNION {Targets(s) : s \in L[k] \cap States})
  <2> HIDE DEF U
  <2> QED BY LevelFacts
<1>2. (\A k \in Nat : ExitLevel(k) = L[k]) /\ ExitStates = L[machine.n] /\ machine.n \in Nat
  BY TableFacts DEF ExitLevel, ExitStates
<1> HIDE DEF L
<1>3. ASSUME NEW k \in Nat, NEW t
      PROVE  t \in ExitLevel(k + 1) <=>
               \/ t \in ExitLevel(k)
               \/ t \in U /\ \E s \in ExitLevel(k) : t \in Targets(s)
  <2>1. ExitLevel(k) = L[k] /\ ExitLevel(k + 1) = L[k + 1] /\ L[k] \subseteq States
    BY <1>1, <1>2
  <2>2. L[k + 1] = L[k] \cup (U \cap UNION {Targets(s) : s \in L[k] \cap States})
    BY <1>1
  <2> QED BY <2>1, <2>2
<1> QED BY <1>1, <1>2, <1>3

\* More hops lead no less far.
LEMMA ExitLevelGrows ==
  ASSUME InputOK, NEW j \in Nat, NEW k \in Nat, j <= k
  PROVE  ExitLevel(j) \subseteq ExitLevel(k)
<1> DEFINE S == {i \in Nat : ExitLevel(j) \subseteq ExitLevel(j + i)}
<1>1. 0 \in S
  OBVIOUS
<1>2. ASSUME NEW i \in Nat, i \in S PROVE i + 1 \in S
  <2>1. ExitLevel(j + i) \subseteq ExitLevel((j + i) + 1) /\ (j + i) + 1 = j + (i + 1)
    BY ExitLevelFacts
  <2>2. ExitLevel(j) \subseteq ExitLevel(j + (i + 1))
    BY <1>2, <2>1
  <2> QED BY <2>2
<1>3. k - j \in Nat /\ j + (k - j) = k
  OBVIOUS
<1> HIDE DEF S
<1>4. k - j \in S
  BY <1>1, <1>2, <1>3, SetInduction
<1>5. ExitLevel(j) \subseteq ExitLevel(j + (k - j))
  BY <1>4 DEF S
<1> QED BY <1>3, <1>5

\* What was seen is where unconditional hops lead.
LEMMA SeenInExitStates ==
  ASSUME QueueInv, ExitInv
  PROVE  seen \subseteq ExitStates
<1>1. PICK k \in Nat : k < Cardinality(seen) /\ seen \subseteq ExitLevel(k)
  BY DEF ExitInv
<1>2. InputOK /\ seen \in SUBSET States
  BY DEF QueueInv
<1>3. /\ IsFiniteSet(seen) /\ Cardinality(seen) \in Nat /\ Cardinality(seen) <= machine.n
      /\ machine.n \in Nat
  BY <1>2, TableFacts, FS_Subset, FS_CardinalityType
<1>4. ExitLevel(k) \subseteq ExitLevel(machine.n)
  BY <1>1, <1>2, <1>3, ExitLevelGrows
<1> QED BY <1>1, <1>2, <1>4, ExitLevelFacts

\* When nothing is left to expand, everything there is was seen.
LEMMA ExitClosed ==
  ASSUME QueueInv, ExitInv, queue = <<>>
  PROVE  ExitStates \subseteq seen /\ \A s \in seen : ~Terminal(s)
<1>1. Range(queue) = {}
  BY DEF Range
<1>2. \A s \in seen : ~Terminal(s) /\ Targets(s) \cap machine.unconditional \subseteq seen
  BY <1>1 DEF ExitInv
<1>3. InputOK /\ current \in seen /\ machine.n \in Nat
  BY TableFacts DEF QueueInv
<1> DEFINE S == {k \in Nat : ExitLevel(k) \subseteq seen}
<1>4. 0 \in S
  BY <1>3, ExitLevelFacts
<1>5. ASSUME NEW k \in Nat, k \in S PROVE k + 1 \in S
  BY <1>2, <1>3, <1>5, ExitLevelFacts
<1> HIDE DEF S
<1>6. machine.n \in S
  BY <1>3, <1>4, <1>5, SetInduction
<1>7. ExitStates \subseteq seen
  BY <1>3, <1>6, ExitLevelFacts DEF S
<1> QED BY <1>2, <1>7

\* An empty list of successors is an empty set of targets.
LEMMA NoSuccessors ==
  ASSUME InputOK, NEW s
  PROVE  successors(s) = <<>> <=> Targets(s) = {}
<1>1. Targets(s) \in SUBSET States
  BY TableFacts
<1> QED BY <1>1, SortedFacts DEF successors

\* What a turn of unconditional_exit_reachable does to queue and seen.
LEMMA ExitTurn ==
  ASSUME QueueInv, ExitInv, ExpandExit
  PROVE  LET u == Head(queue) IN
         /\ QueueInv' /\ u \in seen
         /\ ~Terminal(u) /\ u \in DOMAIN table => ExitInv'
<1> DEFINE u == Head(queue)
           U == machine.unconditional
           F == Fresh(u) \cap U
           Q == Tail(queue) \o Sorted(F)
<1>1. queue # <<>> /\ UNCHANGED inputs /\ seen' = seen \cup F /\ queue' = Q
  BY DEF ExpandExit
<1>2. F = (Targets(u) \ seen) \cap U /\ F \in SUBSET (States \ seen)
  BY TableFacts DEF Fresh, QueueInv
<1> HIDE DEF F
<1>3. /\ Q \in Seq(seen \cup F) /\ Range(Q) = (Range(queue) \ {u}) \cup F
      /\ u = queue[1] /\ Len(queue) \in Nat \ {0}
      /\ \A i, j \in 1..Len(Q) : Q[i] = Q[j] => i = j
  BY <1>1, <1>2, QueueTurn
<1> HIDE DEF Q, u
<1>4. u \in seen
  BY <1>3 DEF QueueInv
<1>5. /\ States' = States /\ current' = current /\ machine' = machine /\ table' = table
      /\ InputOK' <=> InputOK
      /\ \A s : Targets(s)' = Targets(s)
      /\ \A s : Terminal(s)' <=> Terminal(s)
  BY <1>1, Kept
<1>6. QueueInv'
  BY <1>1, <1>2, <1>3, <1>5 DEF QueueInv
<1>7. \A k : ExitLevel(k)' = ExitLevel(k)
  <2>1. ASSUME NEW k PROVE ExitLevel(k)' = ExitLevel(k)
    BY <1>1 DEF inputs, ExitLevel, Levels, States, Targets, table
  <2> QED BY <2>1
<1>8. ASSUME ~Terminal(u), u \in DOMAIN table PROVE ExitInv'
  <2>1. PICK k \in Nat : k < Cardinality(seen) /\ seen \subseteq ExitLevel(k)
    BY DEF ExitInv
  <2>2. InputOK /\ seen \in SUBSET States /\ seen \cup F \in SUBSET States
    BY <1>2 DEF QueueInv
  <2>3. /\ IsFiniteSet(seen \cup F) /\ Cardinality(seen) \in Nat /\ Cardinality(seen \cup F) \in Nat
        /\ IsFiniteSet(seen)
    BY <2>2, TableFacts, FS_Subset, FS_CardinalityType
  <2>4. \E j \in Nat : j < Cardinality(seen') /\ seen' \subseteq ExitLevel(j)
    <3>1. CASE F = {}
      <4>1. seen' = seen
        BY <1>1, <3>1
      <4> QED BY <2>1, <4>1
    <3>2. CASE F # {}
      <4>1. seen \in SUBSET (seen \cup F) /\ seen # seen \cup F
        BY <1>2, <3>2
      <4>2. Cardinality(seen) < Cardinality(seen \cup F)
        <5>1. Cardinality(seen) <= Cardinality(seen \cup F) /\ Cardinality(seen) # Cardinality(seen \cup F)
          BY <2>3, <4>1, FS_Subset
        <5> QED BY <2>3, <5>1
      <4>3. k + 1 \in Nat /\ k + 1 < Cardinality(seen \cup F)
        BY <2>1, <2>3, <4>2
      <4>4. seen \cup F \subseteq ExitLevel(k + 1)
        BY <1>2, <1>4, <2>1, <2>2, ExitLevelFacts
      <4> QED BY <1>1, <4>3, <4>4
    <3> QED BY <3>1, <3>2
  <2>5. ASSUME NEW s \in seen', s \notin Range(queue')
        PROVE  s \in DOMAIN table /\ ~Terminal(s) /\ Targets(s) \cap U \subseteq seen'
    <3>1. s \in seen
      BY <1>1, <1>3, <2>5
    <3>2. CASE s = u
      BY <1>1, <1>2, <1>8, <3>2
    <3>3. CASE s # u
      <4>1. s \notin Range(queue)
        BY <1>1, <1>3, <2>5, <3>3
      <4> QED BY <1>1, <3>1, <4>1 DEF ExitInv
    <3> QED BY <3>2, <3>3
  <2> QED BY <1>5, <1>7, <2>4, <2>5 DEF ExitInv
<1> QED BY <1>4, <1>6, <1>8 DEF u

-----------------------------------------------------------------------------
(***************************************************************************)
(* The walks as a whole.                                                   *)
(***************************************************************************)
ResultInv == result \in {Running, Missing} \/ \E path : result = Found(path)

\* What path_to has returned, if it has.
PathInv ==
  walk = "path" =>
    /\ result.found /\ current # target => ShortPath(result.path)
    /\ result.found => FirstPath(result.path)
    /\ result.done /\ ~result.found => target \notin Within(machine.n)

WalkInv ==
  /\ QueueInv /\ ResultInv /\ PathInv /\ ExitIsSound
  /\ walk = "path" /\ ~result.done => TreeInv /\ WaysInv
  /\ walk = "exit" /\ ~result.done => ExitInv

\* The three kinds of result.
LEMMA ResultFacts ==
  ASSUME ResultInv
  PROVE  ~result.done => result = Running /\ ~result.found
  BY DEF ResultInv, Running, Missing, Found

\* The search starts with the way to current alone.
LEMMA SearchStarts ==
  ASSUME Init, current # target
  PROVE  QueueInv /\ TreeInv /\ WaysInv
<1>1. /\ InputOK /\ queue = <<current>> /\ seen = {current} /\ came_from = [s \in States |-> current]
      /\ current \in States
  BY DEF Init, InputOK
<1>2. /\ queue \in Seq(seen) /\ Len(queue) = 1 /\ queue[1] = current /\ Range(queue) = {current}
  <2>1. queue \in Seq(seen) /\ Len(queue) = 1 /\ queue[1] = current /\ DOMAIN queue = 1..1
    BY <1>1
  <2> QED BY <2>1 DEF Range
<1>3. QueueInv
  BY <1>1, <1>2 DEF QueueInv
<1>4. TreeInv
  <2> DEFINE p == [s \in States |-> <<s>>]
  <2>1. Back(p, came_from)
    BY <1>1 DEF Back
  <2>2. Open(current)
    BY DEF Open
  <2>3. came_from \in [States -> States] /\ came_from[current] = current /\ \A s \in States : came_from[s] = current
    BY <1>1
  <2> HIDE DEF p
  <2> QED BY <1>1, <1>2, <2>1, <2>2, <2>3 DEF TreeInv
<1>5. ASSUME NEW p
      PROVE  Valid(p, seen) /\ Levelled(p, seen, queue) /\ Ranked(p, queue) /\ First(p, seen)
  <2>1. Way(p, current) = <<>> /\ Depth(p, current) = 0
    BY DEF Way, Depth
  <2>2. ValidPath(<<>>)
    BY DEF ValidPath
  <2>3. Valid(p, seen)
    BY <1>1, <2>1, <2>2 DEF Valid
  <2>4. Levelled(p, seen, queue)
    BY <1>1, <1>2, <2>1 DEF Levelled
  <2>5. Ranked(p, queue)
    BY <1>2 DEF Ranked
  <2>6. First(p, seen)
    BY <1>1, <2>1 DEF First, Precedes
  <2> QED BY <2>3, <2>4, <2>5, <2>6
<1>6. WaysInv
  BY <1>5 DEF WaysInv
<1> QED BY <1>3, <1>4, <1>6

\* From an undeclared state nothing else is in reach.
LEMMA NoWayOn ==
  ASSUME InputOK, Targets(current) = {}, NEW k \in Nat
  PROVE  Within(k) = {current}
<1> DEFINE S == {m \in Nat : Within(m) = {current}}
<1>1. 0 \in S
  BY WithinFacts
<1>2. ASSUME NEW m \in Nat, m \in S PROVE m + 1 \in S
  <2>1. \A t : t \in Within(m + 1) <=> t = current
    BY <1>2, WithinFacts
  <2>2. Within(m + 1) \subseteq States
    BY WithinFacts
  <2> QED BY <2>1, <2>2
<1> HIDE DEF S
<1>3. k \in S
  BY <1>1, <1>2, SetInduction
<1> QED BY <1>3 DEF S

\* The early returns and the first state of the loops.
LEMMA WalkStarts ==
  ASSUME Init
  PROVE  WalkInv
<1>1. /\ InputOK /\ queue = <<current>> /\ seen = {current} /\ current \in States
      /\ walk = "exit" => target = current
  BY DEF Init, InputOK
<1>2. QueueInv
  <2>1. queue \in Seq(seen) /\ Len(queue) = 1 /\ queue[1] = current
    BY <1>1
  <2> QED BY <1>1, <2>1 DEF QueueInv
<1>3. \/ walk = "path" /\ current = target /\ result = Found(<<>>)
      \/ ~(walk = "path" /\ current = target) /\ current \notin DOMAIN table /\ result = Missing
      \/ ~(walk = "path" /\ current = target) /\ current \in DOMAIN table /\ result = Running
  BY DEF Init
<1>4. CASE walk = "path" /\ current = target /\ result = Found(<<>>)
  <2>1. result.done /\ result.found /\ result.path = <<>> /\ ResultInv
    BY <1>4 DEF Found, ResultInv
  <2>2. FirstPath(<<>>)
    BY DEF FirstPath
  <2>3. PathInv /\ ExitIsSound
    BY <1>4, <2>1, <2>2 DEF PathInv, ExitIsSound
  <2> QED BY <1>2, <1>4, <2>1, <2>3 DEF WalkInv
<1>5. CASE ~(walk = "path" /\ current = target) /\ current \notin DOMAIN table /\ result = Missing
  <2>1. result.done /\ ~result.found /\ ResultInv
    BY <1>5 DEF Missing, ResultInv
  <2>2. Targets(current) = {} /\ machine.n \in Nat
    BY <1>1, <1>5, TableFacts DEF Targets
  <2>3. Within(machine.n) = {current}
    BY <1>1, <2>2, NoWayOn
  <2>4. PathInv
    BY <1>5, <2>1, <2>3 DEF PathInv
  <2>5. ExitIsSound
    BY <1>1, <1>5, <2>1 DEF ExitIsSound
  <2> QED BY <1>2, <2>1, <2>4, <2>5 DEF WalkInv
<1>6. CASE ~(walk = "path" /\ current = target) /\ current \in DOMAIN table /\ result = Running
  <2>1. ~result.done /\ ~result.found /\ ResultInv
    BY <1>6 DEF Running, ResultInv
  <2>2. PathInv /\ ExitIsSound
    BY <2>1 DEF PathInv, ExitIsSound
  <2>3. walk = "path" => TreeInv /\ WaysInv
    BY <1>6, SearchStarts
  <2>4. ExitInv
    <3>1. Cardinality(seen) = 1
      BY <1>1, FS_Singleton
    <3>2. 0 \in Nat /\ 0 < Cardinality(seen) /\ seen \subseteq ExitLevel(0)
      BY <1>1, <3>1, ExitLevelFacts
    <3>3. \A s \in seen : s \in Range(queue)
      <4>1. DOMAIN queue = 1..1 /\ queue[1] = current
        BY <1>1
      <4> QED BY <1>1, <4>1 DEF Range
    <3> QED BY <3>2, <3>3 DEF ExitInv
  <2> QED BY <1>2, <2>1, <2>2, <2>3, <2>4 DEF WalkInv
<1> QED BY <1>3, <1>4, <1>5, <1>6

\* Whether a result is right depends on it and the inputs alone.
LEMMA ResultKept ==
  ASSUME UNCHANGED inputs
  PROVE  /\ ShortPath(result.path)' <=> ShortPath(result'.path)
         /\ FirstPath(result.path)' <=> FirstPath(result'.path)
<1>1. ShortPath(result.path)' <=> ShortPath(result'.path)
  BY DEF inputs, ShortPath, ValidPath, MayPass, Source, Targets, table, Within, Levels, States
<1>2. FirstPath(result.path)' <=> FirstPath(result'.path)
  BY DEF inputs, FirstPath, ValidPath, MayPass, Source, Targets, table
<1> QED BY <1>1, <1>2

\* A turn of path_to.
LEMMA ExpandPathStep ==
  ASSUME WalkInv, ExpandPath
  PROVE  WalkInv'
<1> DEFINE u == Head(queue)
           F == Fresh(u)
           path == Hops(Grown(u, F))
<1>1. /\ walk = "path" /\ ~result.done /\ queue # <<>> /\ UNCHANGED inputs
      /\ result' = IF target \in F THEN Found(path) ELSE result
      /\ seen' = seen \cup F
  BY DEF ExpandPath, PathTurn, Grown
<1>2. QueueInv /\ TreeInv /\ WaysInv /\ result = Running
  BY <1>1, ResultFacts DEF WalkInv
<1>3. walk' = "path" /\ target' = target
  BY <1>1, Kept
<1>4. CASE target \notin F
  <2>1. QueueInv' /\ TreeInv' /\ WaysInv'
    BY <1>2, <1>4, TurnGoesOn
  <2>2. ~result'.done /\ ~result'.found /\ ResultInv'
    BY <1>1, <1>2, <1>4 DEF Running, ResultInv
  <2> QED BY <1>3, <2>1, <2>2 DEF WalkInv, PathInv, ExitIsSound
<1>5. CASE target \in F
  <2>1. ShortPath(path) /\ FirstPath(path)
    BY <1>1, <1>2, <1>5, TurnFinds
  <2>2. QueueInv'
    <3>1. /\ TurnAt(u, F, queue') /\ F \in SUBSET (States \ seen)
          /\ queue' \in Seq(seen \cup F) /\ \A i, j \in 1..Len(queue') : queue'[i] = queue'[j] => i = j
      <4>1. queue' = Tail(queue) \o Sorted(Passable(F))
        BY DEF ExpandPath, PathTurn
      <4> HIDE DEF u, F
      <4> QED BY <1>1, <1>2, <4>1, TurnFacts DEF u, F
    <3>2. States' = States /\ current' = current /\ (InputOK' <=> InputOK)
      BY <1>1, Kept
    <3> HIDE DEF F
    <3> QED BY <1>1, <1>2, <3>1, <3>2 DEF QueueInv
  <2> HIDE DEF path, F
  <2>3. result'.done /\ result'.found /\ result'.path = path /\ ResultInv'
    BY <1>1, <1>5 DEF Found, ResultInv
  <2>4. ShortPath(result.path)' /\ FirstPath(result.path)'
    <3>1. ShortPath(result'.path) /\ FirstPath(result'.path)
      BY <2>1, <2>3
    <3> QED BY <1>1, <3>1, ResultKept
  <2>5. PathInv' /\ ExitIsSound'
    BY <1>3, <2>3, <2>4 DEF PathInv, ExitIsSound
  <2> QED BY <1>3, <2>2, <2>3, <2>5 DEF WalkInv
<1> QED BY <1>4, <1>5

\* A turn of unconditional_exit_reachable.
LEMMA ExpandExitStep ==
  ASSUME WalkInv, ExpandExit
  PROVE  WalkInv'
<1> DEFINE u == Head(queue)
<1>1. /\ walk = "exit" /\ ~result.done /\ queue # <<>> /\ UNCHANGED inputs
      /\ result' = IF u \notin DOMAIN table THEN Missing
                   ELSE IF successors(u) = <<>> THEN Found(<<>>)
                   ELSE result
  BY DEF ExpandExit
<1>2. QueueInv /\ ExitInv /\ result = Running /\ InputOK
  BY <1>1, ResultFacts DEF WalkInv, QueueInv
<1>3. /\ walk' = "exit" /\ States' = States /\ table' = table /\ ExitStates' = ExitStates
      /\ \A s : Terminal(s)' <=> Terminal(s)
  BY <1>1, Kept
<1>4. QueueInv' /\ u \in seen /\ (~Terminal(u) /\ u \in DOMAIN table => ExitInv')
  BY <1>2, ExitTurn
<1>5. u \in ExitStates /\ u \in States
  BY <1>2, <1>4, SeenInExitStates DEF QueueInv
<1>6. u \in DOMAIN table => (successors(u) = <<>> <=> Terminal(u))
  BY <1>2, NoSuccessors DEF Terminal, Targets
<1> HIDE DEF u
<1>7. CASE u \notin DOMAIN table
  <2>1. result'.done /\ ~result'.found /\ ResultInv'
    BY <1>1, <1>7 DEF Missing, ResultInv
  <2>2. DOMAIN table # States
    BY <1>5, <1>7
  <2>3. PathInv' /\ ExitIsSound'
    BY <1>3, <2>1, <2>2 DEF PathInv, ExitIsSound
  <2> QED BY <1>3, <1>4, <2>1, <2>3 DEF WalkInv
<1>8. CASE u \in DOMAIN table /\ Terminal(u)
  <2>1. result'.done /\ result'.found /\ ResultInv'
    BY <1>1, <1>6, <1>8 DEF Found, ResultInv
  <2>2. PathInv' /\ ExitIsSound'
    BY <1>3, <1>5, <1>8, <2>1 DEF PathInv, ExitIsSound
  <2> QED BY <1>3, <1>4, <2>1, <2>2 DEF WalkInv
<1>9. CASE u \in DOMAIN table /\ ~Terminal(u)
  <2>1. ~result'.done /\ ~result'.found /\ ResultInv'
    BY <1>1, <1>2, <1>6, <1>9 DEF Running, ResultInv
  <2>2. PathInv' /\ ExitIsSound'
    BY <1>3, <2>1 DEF PathInv, ExitIsSound
  <2> QED BY <1>3, <1>4, <1>9, <2>1, <2>2 DEF WalkInv
<1> QED BY <1>7, <1>8, <1>9

\* The end of either loop with nothing found.
LEMMA ExhaustedStep ==
  ASSUME WalkInv, Exhausted
  PROVE  WalkInv'
<1>1. ~result.done /\ queue = <<>> /\ result' = Missing /\ UNCHANGED <<inputs, queue, seen, came_from>>
  BY DEF Exhausted
<1>2. QueueInv /\ InputOK /\ machine.n \in Nat /\ UNCHANGED inputs
  BY <1>1, TableFacts DEF WalkInv, QueueInv
<1>3. /\ walk' = walk /\ target' = target /\ machine' = machine /\ States' = States /\ table' = table
      /\ current' = current /\ ExitStates' = ExitStates
      /\ (InputOK' <=> InputOK)
      /\ \A s : Terminal(s)' <=> Terminal(s)
      /\ \A k : Within(k)' = Within(k)
  BY <1>2, Kept
<1>4. QueueInv'
  BY <1>1, <1>2, <1>3 DEF QueueInv
<1>5. result'.done /\ ~result'.found /\ ResultInv'
  BY <1>1 DEF Missing, ResultInv
<1>6. ASSUME walk = "path" PROVE target \notin Within(machine.n)
  <2>1. TreeInv /\ WaysInv
    BY <1>1, <1>6 DEF WalkInv
  <2>2. PICK p : Back(p, came_from)
    BY <2>1 DEF TreeInv
  <2>3. Valid(p, seen) /\ Levelled(p, seen, queue)
    BY <2>1, <2>2 DEF WaysInv
  <2>4. \A i \in 1..Len(queue) : machine.n <= Depth(p, queue[i])
    BY <1>1
  <2>5. \A t \in Within(machine.n) : t \in seen
    BY <1>2, <2>1, <2>3, <2>4, ReachedSeen
  <2> QED BY <2>1, <2>5 DEF TreeInv
<1>7. ASSUME walk = "exit" PROVE \A s \in ExitStates : ~Terminal(s)
  <2>1. ExitInv
    BY <1>1, <1>7 DEF WalkInv
  <2> QED BY <1>1, <1>2, <2>1, ExitClosed
<1>8. target' \notin Within(machine.n)' \/ walk' # "path"
  <2>1. Within(machine.n)' = Within(machine.n)
    BY <1>2 DEF inputs, Within, Levels, States, MayPass, Targets, table
  <2> QED BY <1>3, <1>6, <2>1
<1>9. PathInv'
  BY <1>5, <1>8 DEF PathInv
<1>10. ExitIsSound'
  BY <1>3, <1>5, <1>7 DEF ExitIsSound
<1> QED BY <1>4, <1>5, <1>9, <1>10 DEF WalkInv

\* A step that changes nothing.
LEMMA WalkStutters ==
  ASSUME WalkInv, UNCHANGED vars
  PROVE  WalkInv'
<1>1. /\ UNCHANGED inputs /\ queue' = queue /\ seen' = seen /\ came_from' = came_from /\ result' = result
  BY DEF vars, inputs
<1>2. QueueInv' <=> QueueInv
  <2>1. States' = States /\ current' = current /\ (InputOK' <=> InputOK)
    BY <1>1, Kept
  <2> QED BY <1>1, <2>1 DEF QueueInv
<1>3. ResultInv' <=> ResultInv
  BY <1>1 DEF ResultInv
<1>4. PathInv' <=> PathInv
  <2>1. Within(machine.n)' = Within(machine.n)
    BY <1>1 DEF inputs, Within, Levels, States, MayPass, Targets, table
  <2>2. (ShortPath(result.path)' <=> ShortPath(result.path)) /\ (FirstPath(result.path)' <=> FirstPath(result.path))
    BY <1>1, ResultKept
  <2>3. walk' = walk /\ target' = target /\ current' = current
    BY <1>1, Kept
  <2> QED BY <1>1, <2>1, <2>2, <2>3 DEF PathInv
<1>5. ExitIsSound' <=> ExitIsSound
  <2>1. /\ walk' = walk /\ States' = States /\ table' = table /\ ExitStates' = ExitStates
        /\ \A s : Terminal(s)' <=> Terminal(s)
    BY <1>1, Kept
  <2> QED BY <1>1, <2>1 DEF ExitIsSound
<1>6. TreeInv' <=> TreeInv
  <2>1. /\ States' = States /\ current' = current /\ target' = target
        /\ \A s : Targets(s)' = Targets(s)
        /\ \A s : Open(s)' <=> Open(s)
    BY <1>1, Kept
  <2>2. (\E p : Back(p, came_from)') <=> \E p : Back(p, came_from)
    BY <1>1, WaysKept
  <2> QED BY <1>1, <2>1, <2>2 DEF TreeInv
<1>7. WaysInv' <=> WaysInv
  <2>1. ASSUME NEW p
        PROVE  /\ Back(p, came_from)' <=> Back(p, came_from)
               /\ (Valid(p, seen) /\ Levelled(p, seen, queue) /\ Ranked(p, queue) /\ First(p, seen))' <=>
                    Valid(p, seen) /\ Levelled(p, seen, queue) /\ Ranked(p, queue) /\ First(p, seen)
    BY <1>1, WaysKept
  <2> QED BY <2>1 DEF WaysInv
<1>8. ExitInv' <=> ExitInv
  <2>1. /\ table' = table /\ machine' = machine
        /\ \A s : Targets(s)' = Targets(s)
        /\ \A s : Terminal(s)' <=> Terminal(s)
    BY <1>1, Kept
  <2>2. \A k : ExitLevel(k)' = ExitLevel(k)
    <3>1. ASSUME NEW k PROVE ExitLevel(k)' = ExitLevel(k)
      BY <1>1 DEF inputs, ExitLevel, Levels, States, Targets, table
    <3> QED BY <3>1
  <2> QED BY <1>1, <2>1, <2>2 DEF ExitInv
<1> QED BY <1>1, <1>2, <1>3, <1>4, <1>5, <1>6, <1>7, <1>8 DEF WalkInv, inputs

\* The walks' invariant.
LEMMA WalkCorrect == Spec => []WalkInv
<1>1. Init => WalkInv
  BY WalkStarts
<1>2. WalkInv /\ [Next]_vars => WalkInv'
  BY ExpandPathStep, ExpandExitStep, ExhaustedStep, WalkStutters DEF Next
<1> QED BY <1>1, <1>2, PTL DEF Spec

\* For every table, path_to returns hops of the table that pass no park, end
\* at the target and are as few as any such hops can be.
THEOREM PathsShortest == Spec => []PathIsShortest
<1>1. WalkInv => PathIsShortest
  BY DEF WalkInv, PathInv, PathIsShortest, ShortPath
<1> QED BY <1>1, WalkCorrect, PTL

\* For every table, path_to returns None for no target that hops past parks reach.
THEOREM NonesUnreachable == Spec => []NoneMeansUnreachable
<1>1. WalkInv => NoneMeansUnreachable
  BY DEF WalkInv, PathInv, NoneMeansUnreachable
<1> QED BY <1>1, WalkCorrect, PTL

\* For every table, of the shortest ways path_to returns the one that the
\* table declares first, hop by hop.
THEOREM PathsFirst == Spec => []PathIsFirst
<1>1. WalkInv => PathIsFirst
  BY DEF WalkInv, PathInv, PathIsFirst, FirstPath
<1> QED BY <1>1, WalkCorrect, PTL

\* For every table, unconditional_exit_reachable certifies no exit that is not
\* there, and overlooks none where the table declares every state.
THEOREM ExitsSound == Spec => []ExitIsSound
<1>1. WalkInv => ExitIsSound
  BY DEF WalkInv
<1> QED BY <1>1, WalkCorrect, PTL

-----------------------------------------------------------------------------
(***************************************************************************)
(* The walks end.                                                          *)
(***************************************************************************)

\* A walk has at most as many turns to go as states are queued or not yet seen.
TurnsLeft == Len(queue) + Cardinality(States \ seen)

\* A step of a walk ends it or leaves it fewer turns.
Shortens == ~result.done /\ (result'.done \/ TurnsLeft' < TurnsLeft)

LEMMA TurnsLeftType ==
  ASSUME QueueInv
  PROVE  TurnsLeft \in Nat /\ Len(queue) \in Nat /\ IsFiniteSet(States \ seen) /\ Cardinality(States \ seen) \in Nat
<1>1. Len(queue) \in Nat
  BY DEF QueueInv
<1>2. IsFiniteSet(States)
  BY TableFacts DEF QueueInv
<1>3. IsFiniteSet(States \ seen) /\ Cardinality(States \ seen) \in Nat
  BY <1>2, FS_Difference, FS_CardinalityType
<1> QED BY <1>1, <1>3 DEF TurnsLeft

\* No more is queued than is seen anew, and one state leaves the queue.
LEMMA TurnShortens ==
  ASSUME QueueInv, queue # <<>>, NEW F \in SUBSET (States \ seen), NEW G \in SUBSET F, UNCHANGED inputs,
         seen' = seen \cup F, queue' = Tail(queue) \o Sorted(G)
  PROVE  TurnsLeft' < TurnsLeft
<1> DEFINE U == States \ seen
<1>1. Len(queue) \in Nat /\ IsFiniteSet(U) /\ Cardinality(U) \in Nat
  BY TurnsLeftType
<1>2. /\ IsFiniteSet(F) /\ IsFiniteSet(G) /\ Cardinality(F) \in Nat /\ Cardinality(G) \in Nat
      /\ Cardinality(G) <= Cardinality(F)
  BY <1>1, FS_Subset, FS_CardinalityType
<1>3. States' \ seen' = U \ F /\ U \cap F = F
  <2>1. States' = States
    BY Kept
  <2> QED BY <2>1
<1>4. Cardinality(U \ F) = Cardinality(U) - Cardinality(F)
  <2> HIDE DEF U
  <2> QED BY <1>1, <1>3, FS_Difference
<1>5. Sorted(G) \in Seq(States) /\ Len(Sorted(G)) = Cardinality(G)
  <2>1. Sorted(G) \in Seq(G) /\ G \in SUBSET States
    BY SortedFacts DEF QueueInv
  <2>2. DOMAIN Sorted(G) = 1..Cardinality(G)
    BY DEF Sorted
  <2> DEFINE b == Sorted(G)
             c == Cardinality(G)
  <2>3. b \in Seq(States) /\ DOMAIN b = 1..c /\ c \in Nat
    BY <1>2, <2>1, <2>2
  <2> HIDE DEF b, c
  <2>4. Len(b) = c
    BY <2>3
  <2> QED BY <2>3, <2>4 DEF b, c
<1>6. Len(queue') = Len(queue) - 1 + Cardinality(G) /\ Len(queue) \in Nat \ {0}
  <2>1. queue \in Seq(States)
    BY DEF QueueInv
  <2> DEFINE b == Sorted(G)
  <2> HIDE DEF b
  <2>2. Len(queue) \in Nat \ {0} /\ Len(Tail(queue) \o b) = Len(queue) - 1 + Len(b)
    BY <1>5, <2>1, TailThen DEF b
  <2> QED BY <1>5, <2>2 DEF b
<1>7. TurnsLeft' = Len(queue') + Cardinality(States' \ seen') /\ TurnsLeft = Len(queue) + Cardinality(U)
  BY DEF TurnsLeft
<1>8. TurnsLeft' = (Len(queue) - 1 + Cardinality(G)) + (Cardinality(U) - Cardinality(F))
  BY <1>3, <1>4, <1>6, <1>7
<1> HIDE DEF U
<1> QED BY <1>1, <1>2, <1>7, <1>8

\* For every table both walks end: a step is taken only while there is no
\* result, and each one gives the result or leaves fewer turns, of which there
\* are finitely many.
THEOREM WalksEnd == Spec => [](TurnsLeft \in Nat) /\ [][Shortens]_vars
<1>1. WalkInv => TurnsLeft \in Nat
  BY TurnsLeftType DEF WalkInv
<1>2. ASSUME WalkInv, Next PROVE Shortens
  <2>0. QueueInv
    BY <1>2 DEF WalkInv
  <2> DEFINE u == Head(queue)
             T == Fresh(u)
  <2>1. T \in SUBSET (States \ seen)
    BY <2>0, TableFacts DEF Fresh, QueueInv
  <2>2. CASE ExpandPath
    <3>1. /\ ~result.done /\ queue # <<>> /\ UNCHANGED inputs /\ seen' = seen \cup T
          /\ queue' = Tail(queue) \o Sorted(Passable(T))
      BY <2>2 DEF ExpandPath, PathTurn
    <3>2. Passable(T) \in SUBSET T
      BY DEF Passable
    <3> HIDE DEF T
    <3>3. TurnsLeft' < TurnsLeft
      BY <2>0, <2>1, <3>1, <3>2, TurnShortens
    <3> QED BY <3>1, <3>3 DEF Shortens
  <2>3. CASE ExpandExit
    <3> DEFINE F == T \cap machine.unconditional
    <3>1. /\ ~result.done /\ queue # <<>> /\ UNCHANGED inputs /\ seen' = seen \cup F
          /\ queue' = Tail(queue) \o Sorted(F)
      BY <2>3 DEF ExpandExit
    <3>2. F \in SUBSET (States \ seen) /\ F \in SUBSET F
      BY <2>1
    <3> HIDE DEF F
    <3>3. TurnsLeft' < TurnsLeft
      BY <2>0, <3>1, <3>2, TurnShortens
    <3> QED BY <3>1, <3>3 DEF Shortens
  <2>4. CASE Exhausted
    BY <2>4 DEF Exhausted, Missing, Shortens
  <2> QED BY <1>2, <2>2, <2>3, <2>4 DEF Next
<1>3. WalkInv /\ [Next]_vars => [Shortens]_vars
  BY <1>2
<1> QED BY <1>1, <1>3, WalkCorrect, PTL DEF Spec

=============================================================================
