------------------------ MODULE SemanticReplayProofs ------------------------
(***************************************************************************)
(* Theorems on the semantic runner, for every document, agent, verifier    *)
(* and policy: what it takes for a node to be completed, what the words of *)
(* the report stand for, and that the runner implements WorkflowSchedule.  *)
(***************************************************************************)
EXTENDS TraceReadingProofs

-----------------------------------------------------------------------------
(* A set of positions in their order.                                      *)
RankIn(S, i) == Cardinality({j \in S : j <= i})

(* Ranks below a bound are natural numbers, and a position more counts once*)
(* from there on.                                                          *)
LEMMA RankSteps ==
  ASSUME NEW n \in Nat, NEW S, S \subseteq 1..n
  PROVE  /\ Cardinality(S) \in Nat /\ RankIn(S, 0) = 0 /\ RankIn(S, n) = Cardinality(S)
         /\ \A i \in 0..n : RankIn(S, i) \in 0..Cardinality(S)
         /\ \A i \in 1..n : RankIn(S, i) = RankIn(S, i - 1) + (IF i \in S THEN 1 ELSE 0)
<1> DEFINE low(i) == {j \in S : j <= i}
<1>1. /\ low(0) = {} /\ low(n) = S
      /\ \A i \in 0..n : low(i) \subseteq 1..i /\ low(i) \subseteq S
      /\ \A i \in 1..n : low(i) = IF i \in S THEN low(i - 1) \cup {i} ELSE low(i - 1)
  <2>1. \A j \in S : j \in Nat /\ 1 <= j /\ j <= n /\ ~(j <= 0)
    OBVIOUS
  <2>2. low(0) = {} /\ low(n) = S
    BY <2>1, Zenon
  <2>3. ASSUME NEW i \in 0..n PROVE low(i) \subseteq 1..i /\ low(i) \subseteq S
    <3>1. ASSUME NEW j \in low(i) PROVE j \in 1..i /\ j \in S
      BY <2>1
    <3> QED
      BY <3>1, Zenon
  <2>4. ASSUME NEW i \in 1..n
        PROVE  low(i) = IF i \in S THEN low(i - 1) \cup {i} ELSE low(i - 1)
    <3>1. \A j \in S : j <= i <=> j <= i - 1 \/ j = i
      BY <2>1
    <3> QED
      BY <3>1
  <2> QED
    BY <2>2, <2>3, <2>4
<1>2. \A i : RankIn(S, i) = Cardinality(low(i))
  BY DEF RankIn
<1> HIDE DEF low
<1>3. Cardinality(S) \in Nat /\ \A i \in 0..n : Cardinality(low(i)) \in 0..Cardinality(S)
  <2>1. Cardinality(S) \in Nat
        /\ \A T : T \subseteq S => Cardinality(T) <= Cardinality(S) /\ Cardinality(T) \in Nat
    BY Counting
  <2> QED
    BY <1>1, <2>1
<1>4. ASSUME NEW i \in 1..n
      PROVE  Cardinality(low(i)) = Cardinality(low(i - 1)) + (IF i \in S THEN 1 ELSE 0)
  <2>1. i - 1 \in Nat /\ i - 1 \in 0..n /\ (i - 1) + 1 = i
    OBVIOUS
  <2>2. low(i - 1) \subseteq 1..(i - 1)
    BY <1>1, <2>1
  <2>3. Cardinality(low(i - 1)) \in Nat 
        /\ Cardinality(low(i - 1) \cup {(i - 1) + 1}) = Cardinality(low(i - 1)) + 1
    BY <2>1, <2>2, Counting
  <2>4. low(i) = IF i \in S THEN low(i - 1) \cup {i} ELSE low(i - 1)
    BY <1>1
  <2>5. CASE i \in S
    BY <2>1, <2>3, <2>4, <2>5
  <2>6. CASE i \notin S
    BY <2>1, <2>3, <2>4, <2>6
  <2> QED
    BY <2>5, <2>6
<1> QED
  BY <1>1, <1>2, <1>3, <1>4, FS_EmptySet

(* Position finds each of them, by its rank.                               *)
LEMMA PositionFacts ==
  ASSUME NEW n \in Nat, NEW S, S \subseteq 1..n
  PROVE  /\ Cardinality(S) \in Nat
         /\ \A i, j \in 0..n : i <= j => RankIn(S, i) <= RankIn(S, j)
         /\ \A i \in 0..n, j \in S : i < j => RankIn(S, i) < RankIn(S, j)
         /\ \A i \in S : RankIn(S, i) \in 1..Cardinality(S) /\ Position(S, RankIn(S, i)) = i
         /\ \A k \in 1..Cardinality(S) : Position(S, k) \in S /\ RankIn(S, Position(S, k)) = k
<1>1. /\ Cardinality(S) \in Nat /\ RankIn(S, 0) = 0 /\ RankIn(S, n) = Cardinality(S)
      /\ \A i \in 0..n : RankIn(S, i) \in 0..Cardinality(S)
      /\ \A i \in 1..n : RankIn(S, i) = RankIn(S, i - 1) + (IF i \in S THEN 1 ELSE 0)
  BY RankSteps
<1>2. ASSUME NEW i \in 0..n, NEW j \in 0..n, i <= j PROVE RankIn(S, i) <= RankIn(S, j)
  <2> DEFINE bad == {m \in 0..n : i <= m /\ ~(RankIn(S, i) <= RankIn(S, m))}
  <2>1. ASSUME bad # {} PROVE FALSE
    <3>1. PICK m \in bad : \A k \in bad : m <= k
      <4>1. bad \subseteq Nat
        OBVIOUS
      <4> HIDE DEF bad
      <4> QED
        BY <2>1, <4>1, LeastNatural
    <3>2. m # i
      BY <1>1, <3>1
    <3>3. m - 1 \in 0..n /\ i <= m - 1 /\ m \in 1..n
      BY <3>1, <3>2
    <3>4. m - 1 \notin bad
      BY <3>1, <3>3
    <3> QED
      BY <1>1, <3>1, <3>3, <3>4
  <2> QED
    BY <1>2, <2>1
<1>3. ASSUME NEW i \in 0..n, NEW j \in S, i < j PROVE RankIn(S, i) < RankIn(S, j)
  <2>1. j \in 1..n /\ j - 1 \in 0..n /\ i <= j - 1
    BY <1>3
  <2> QED
    BY <1>1, <1>2, <2>1
<1>4. ASSUME NEW i \in S PROVE RankIn(S, i) \in 1..Cardinality(S)
  <2>1. 0 \in 0..n /\ i \in 0..n /\ 0 < i
    OBVIOUS
  <2> QED
    BY <1>1, <1>3, <2>1
<1>5. ASSUME NEW i \in S, NEW j \in S, RankIn(S, i) = RankIn(S, j) PROVE i = j
  <2>1. i \in 0..n /\ j \in 0..n /\ (i < j \/ j < i \/ i = j)
    OBVIOUS
  <2> QED
    BY <1>1, <1>3, <1>5, <2>1
<1>6. ASSUME NEW k \in 1..Cardinality(S) PROVE \E i \in S : RankIn(S, i) = k
  <2> DEFINE reached == {m \in 0..n : k <= RankIn(S, m)}
  <2>1. PICK m \in reached : \A j \in reached : m <= j
    <3>1. n \in reached /\ reached \subseteq Nat
      BY <1>1
    <3> HIDE DEF reached
    <3> QED
      BY <3>1, LeastNatural
  <2>2. m \in 1..n /\ m - 1 \in 0..n /\ m - 1 \notin reached
    BY <1>1, <2>1
  <2> QED
    BY <1>1, <2>1, <2>2
<1>7. \A k : Position(S, k) = CHOOSE i \in S : RankIn(S, i) = k
  BY DEF Position, RankIn
<1>8. ASSUME NEW i \in S PROVE Position(S, RankIn(S, i)) = i
  BY <1>5, <1>7
<1>9. ASSUME NEW k \in 1..Cardinality(S) PROVE Position(S, k) \in S /\ RankIn(S, Position(S, k)) = k
  BY <1>6, <1>7
<1> QED
  BY <1>1, <1>2, <1>3, <1>4, <1>8, <1>9

(* A position at the end is the last of them, and leaves the others as they*)
(* were.                                                                   *)
LEMMA PositionGrows ==
  ASSUME NEW n \in Nat, NEW S, S \subseteq 1..n
  PROVE  /\ Cardinality(S \cup {n + 1}) = Cardinality(S) + 1
         /\ Position(S \cup {n + 1}, Cardinality(S) + 1) = n + 1
         /\ \A k \in 1..Cardinality(S) : Position(S \cup {n + 1}, k) = Position(S, k)
         /\ \A i \in 0..n : RankIn(S \cup {n + 1}, i) = RankIn(S, i)
<1> DEFINE T == S \cup {n + 1}
<1>1. T \subseteq 1..(n + 1) /\ n + 1 \in Nat /\ n + 1 \in T /\ S \subseteq T
  OBVIOUS
<1>2. Cardinality(T) = Cardinality(S) + 1 /\ Cardinality(S) \in Nat
  BY Counting
<1>3. ASSUME NEW i \in 0..n PROVE RankIn(T, i) = RankIn(S, i)
  <2>1. {j \in T : j <= i} = {j \in S : j <= i}
    OBVIOUS
  <2> QED
    BY <2>1 DEF RankIn
<1> HIDE DEF T
<1>4. RankIn(T, n + 1) = Cardinality(T)
  BY <1>1, RankSteps
<1>5. /\ \A i \in T : Position(T, RankIn(T, i)) = i
      /\ \A k \in 1..Cardinality(T) : Position(T, k) \in T /\ RankIn(T, Position(T, k)) = k
  BY <1>1, PositionFacts
<1>6. Position(T, Cardinality(S) + 1) = n + 1
  BY <1>1, <1>2, <1>4, <1>5
<1>7. ASSUME NEW k \in 1..Cardinality(S) PROVE Position(T, k) = Position(S, k)
  <2>1. Position(S, k) \in S /\ RankIn(S, Position(S, k)) = k
    BY PositionFacts
  <2>2. Position(S, k) \in T /\ Position(S, k) \in 0..n
    <3>1. \A j \in S : j \in 0..n
      OBVIOUS
    <3> QED
      BY <1>1, <2>1, <3>1
  <2>3. RankIn(T, Position(S, k)) = k
    BY <1>3, <2>1, <2>2
  <2> QED
    BY <1>5, <2>2, <2>3
<1> QED
  BY <1>2, <1>3, <1>6, <1>7 DEF T

-----------------------------------------------------------------------------
(* Things with a measure, and those of them whose measure is at most m.    *)
AtMost(A, f, m) == {a \in A : f[a] <= m}

(* Two sets are as large as one another when a function pairs them off.    *)
LEMMA SameCount ==
  ASSUME NEW A, NEW B, IsFiniteSet(B), NEW f \in [A -> B],
         \A a, b \in A : f[a] = f[b] => a = b, \A b \in B : \E a \in A : f[a] = b
  PROVE  IsFiniteSet(A) /\ Cardinality(A) = Cardinality(B)
<1>1. f \in Injection(A, B) /\ f \in Surjection(A, B)
  BY DEF Injection, Surjection, IsInjective
<1> QED
  BY <1>1, FS_Injection

(* Two lists correspond by f: it takes every place to one, and misses none. *)
Corresponding(f, n, m) ==
  /\ f \in [1..n -> 1..m] /\ \A i, j \in 1..n : f[i] = f[j] => i = j
  /\ \A k \in 1..m : \E i \in 1..n : f[i] = k

(* Lists that correspond to one another are as long as one another.        *)
LEMMA SameLength ==
  ASSUME NEW n \in Nat, NEW m \in Nat, NEW f, Corresponding(f, n, m) PROVE n = m
<1>1. IsFiniteSet(1..m) /\ Cardinality(1..m) = m /\ Cardinality(1..n) = n
  BY FS_Interval
<1>2. Cardinality(1..n) = Cardinality(1..m)
  BY <1>1, SameCount DEF Corresponding
<1> QED
  BY <1>1, <1>2

(* Counting by a measure: as many things as there are values, one of them  *)
(* at every rank, and the rank grows with the measure.                     *)
LEMMA Measured ==
  ASSUME NEW n \in Nat, NEW A, NEW f \in [A -> 1..n], \A a, b \in A : f[a] = f[b] => a = b
  PROVE  /\ IsFiniteSet(A) /\ Cardinality(A) \in Nat
         /\ \A a \in A : Cardinality(AtMost(A, f, f[a])) \in 1..Cardinality(A)
         /\ \A a, b \in A : f[a] < f[b] =>
              Cardinality(AtMost(A, f, f[a])) < Cardinality(AtMost(A, f, f[b]))
         /\ \A k \in 1..Cardinality(A) : \E a \in A : Cardinality(AtMost(A, f, f[a])) = k
<1> DEFINE S == {f[a] : a \in A}
<1>1. S \subseteq 1..n
  OBVIOUS
<1>2. IsFiniteSet(S)
  <2>1. IsFiniteSet(1..n)
    BY FS_Interval
  <2> HIDE DEF S
  <2> QED
    BY <1>1, <2>1, FS_Subset
<1>3. IsFiniteSet(A) /\ Cardinality(A) = Cardinality(S)
  <2>1. f \in [A -> S] /\ \A s \in S : \E a \in A : f[a] = s
    OBVIOUS
  <2> HIDE DEF S
  <2> QED
    BY <1>2, <2>1, SameCount
<1>4. ASSUME NEW m \in 1..n PROVE Cardinality(AtMost(A, f, m)) = RankIn(S, m)
  <2> DEFINE B == AtMost(A, f, m)
             T == {j \in S : j <= m}
             g == [a \in B |-> f[a]]
  <2>1. /\ g \in [B -> T] /\ \A a, b \in B : g[a] = g[b] => a = b
        /\ \A s \in T : \E a \in B : g[a] = s
    BY DEF AtMost
  <2>2. IsFiniteSet(T)
    <3>1. T \subseteq S
      OBVIOUS
    <3> HIDE DEF T, S
    <3> QED
      BY <1>2, <3>1, FS_Subset
  <2>3. RankIn(S, m) = Cardinality(T)
    BY DEF RankIn
  <2> HIDE DEF B, T, g, S
  <2> QED
    BY <2>1, <2>2, <2>3, SameCount DEF B
<1>5. \A a \in A : f[a] \in S /\ f[a] \in 1..n /\ f[a] \in 0..n
  OBVIOUS
<1>6. \A s \in S : \E a \in A : f[a] = s
  OBVIOUS
<1> HIDE DEF S
<1>7. /\ Cardinality(S) \in Nat
      /\ \A i \in 0..n, j \in S : i < j => RankIn(S, i) < RankIn(S, j)
      /\ \A i \in S : RankIn(S, i) \in 1..Cardinality(S)
      /\ \A k \in 1..Cardinality(S) : Position(S, k) \in S /\ RankIn(S, Position(S, k)) = k
  BY <1>1, PositionFacts
<1>8. ASSUME NEW k \in 1..Cardinality(A)
      PROVE  \E a \in A : Cardinality(AtMost(A, f, f[a])) = k
  <2>1. PICK a \in A : f[a] = Position(S, k)
    BY <1>3, <1>6, <1>7
  <2> QED
    BY <1>3, <1>4, <1>5, <1>7, <2>1
<1> QED
  BY <1>3, <1>4, <1>5, <1>7, <1>8

-----------------------------------------------------------------------------
(* The compiler's groups of calls, by their first requests.                *)
LEMMA CallsGrouped ==
  ASSUME NEW events, NEW n \in Nat, DOMAIN events = 1..n
  PROVE  /\ \A c \in Grouped(events) :
              /\ FirstRequest(events, c) \in RequestsOf(events, c)
              /\ FirstRequest(events, c) \in 1..n
              /\ \A j \in RequestsOf(events, c) : FirstRequest(events, c) <= j
         /\ \A c, d \in Grouped(events) :
              FirstRequest(events, c) = FirstRequest(events, d) => c = d
         /\ IsFiniteSet(Grouped(events)) /\ Cardinality(Grouped(events)) \in Nat
         /\ \A c \in Grouped(events) : Index(events, c) \in 1..Cardinality(Grouped(events))
         /\ \A c, d \in Grouped(events) :
              FirstRequest(events, c) < FirstRequest(events, d)
                => Index(events, c) < Index(events, d)
         /\ \A k \in 1..Cardinality(Grouped(events)) :
              CallAt(events, k) \in Grouped(events) /\ Index(events, CallAt(events, k)) = k
<1> DEFINE A == Grouped(events)
           f == [c \in A |-> FirstRequest(events, c)]
<1>1. ASSUME NEW c \in A
      PROVE  /\ FirstRequest(events, c) \in RequestsOf(events, c)
             /\ FirstRequest(events, c) \in 1..n
             /\ \A j \in RequestsOf(events, c) : FirstRequest(events, c) <= j
  <2>1. RequestsOf(events, c) # {} /\ RequestsOf(events, c) \subseteq 1..n
    BY DEF Grouped, RequestsOf
  <2>2. RequestsOf(events, c) \subseteq Nat
    BY <2>1
  <2>3. \E i \in RequestsOf(events, c) : \A j \in RequestsOf(events, c) : i <= j
    BY <2>1, <2>2, LeastNatural
  <2> QED
    BY <2>1, <2>3 DEF FirstRequest
<1>2. ASSUME NEW c \in A, NEW d \in A, FirstRequest(events, c) = FirstRequest(events, d)
      PROVE  c = d
  <2>1. c \in Calls /\ d \in Calls
    BY DEF Grouped
  <2>2. SameCall(events[FirstRequest(events, c)], c) /\ SameCall(events[FirstRequest(events, c)], d)
    BY <1>1, <1>2 DEF RequestsOf
  <2> QED
    BY <2>1, <2>2, CallsAssumption DEF SameCall
<1>3. f \in [A -> 1..n] /\ \A c, d \in A : f[c] = f[d] => c = d
  BY <1>1, <1>2
<1>4. \A c \in A : f[c] = FirstRequest(events, c)
  OBVIOUS
<1>5. \A c \in A : Index(events, c) = Cardinality(AtMost(A, f, f[c]))
  <2>1. ASSUME NEW c \in A
        PROVE  {d \in A : FirstRequest(events, d) <= FirstRequest(events, c)} = AtMost(A, f, f[c])
    BY DEF AtMost
  <2> QED
    BY <2>1 DEF Index
<1> HIDE DEF f
<1>6. /\ IsFiniteSet(A) /\ Cardinality(A) \in Nat
      /\ \A c \in A : Index(events, c) \in 1..Cardinality(A)
      /\ \A c, d \in A : f[c] < f[d] => Index(events, c) < Index(events, d)
      /\ \A k \in 1..Cardinality(A) : \E c \in A : Index(events, c) = k
  <2> HIDE DEF A
  <2> QED
    BY <1>3, <1>5, Measured
<1>7. \A k \in 1..Cardinality(A) : CallAt(events, k) \in A /\ Index(events, CallAt(events, k)) = k
  BY <1>6 DEF CallAt
<1> QED
  BY <1>1, <1>2, <1>4, <1>6, <1>7

-----------------------------------------------------------------------------
(* The way back from an event to the nearest calls before it.              *)
Back(f, events, i) ==
  UNION {IF NodeCalls(events, p) # {} THEN NodeCalls(events, p) ELSE f[p] : p \in events[i].parents}
IsNearest(f, events, to) == f = [i \in 1..to |-> Back(f, events, i)]
Earlier(events, n) ==
  DOMAIN events = 1..n /\ \A i \in 1..n : events[i].parents \subseteq 1..(i - 1)

(* It is defined at every event, since parents come first.                 *)
LEMMA NearestExists ==
  ASSUME NEW events, NEW n \in Nat, Earlier(events, n)
  PROVE  \E f : IsNearest(f, events, n)
<1> DEFINE S == {m \in 0..n : \E f : IsNearest(f, events, m)}
<1>1. 0 \in S
  <2> DEFINE none == [i \in 1..0 |-> {}]
  <2>1. \A f : [i \in 1..0 |-> Back(f, events, i)] = none
    OBVIOUS
  <2>2. IsNearest(none, events, 0)
    BY <2>1 DEF IsNearest
  <2> QED
    BY <2>2
<1>2. ASSUME NEW m \in 0..n, m # n, m \in S PROVE m + 1 \in S
  <2>1. PICK f : IsNearest(f, events, m)
    BY <1>2
  <2> DEFINE g == [i \in 1..(m + 1) |-> IF i = m + 1 THEN Back(f, events, m + 1) ELSE f[i]]
             h == [i \in 1..(m + 1) |-> Back(g, events, i)]
  <2>2. ASSUME NEW i \in 1..(m + 1) PROVE g[i] = h[i]
    <3>1. \A p \in events[i].parents : p \in 1..(m + 1) /\ p # m + 1
      <4>1. i \in 1..n
        BY <1>2
      <4>2. \A p \in events[i].parents : p \in 1..(i - 1)
        BY <4>1 DEF Earlier
      <4> QED
        BY <4>2
    <3>2. \A p \in events[i].parents : g[p] = f[p]
      BY <3>1
    <3> HIDE DEF g
    <3>3. Back(g, events, i) = Back(f, events, i)
      BY <3>2 DEF Back
    <3>4. h[i] = Back(g, events, i)
      OBVIOUS
    <3>5. g[i] = Back(f, events, i)
      <4>1. CASE i = m + 1
        BY <4>1 DEF g
      <4>2. CASE i # m + 1
        <5>1. i \in 1..m /\ g[i] = f[i]
          BY <4>2 DEF g
        <5>2. f[i] = Back(f, events, i)
          BY <2>1, <5>1 DEF IsNearest
        <5> QED
          BY <5>1, <5>2
      <4> QED
        BY <4>1, <4>2
    <3> QED
      BY <3>3, <3>4, <3>5
  <2>3. g = h
    BY <2>2
  <2> HIDE DEF g
  <2>4. IsNearest(g, events, m + 1)
    BY <2>3 DEF IsNearest
  <2>5. m + 1 \in 0..n
    BY <1>2
  <2> QED
    BY <2>4, <2>5
<1>3. n \in S
  <2> HIDE DEF S
  <2>1. \A i \in 0..n : i \in S
    BY <1>1, <1>2, Climb
  <2> QED
    BY <2>1
<1> QED
  BY <1>3

(* Dependencies goes that way, and comes only to calls of the trace.       *)
LEMMA NearestFacts ==
  ASSUME NEW events, NEW n \in Nat, Earlier(events, n)
  PROVE  \E f : /\ \A i \in 1..n : f[i] = Back(f, events, i) /\ f[i] \subseteq Grouped(events)
                /\ \A c : Dependencies(events, c)
                            = (UNION {f[i] : i \in RequestsOf(events, c)}) \ {c}
<1> DEFINE f == CHOOSE f : f = [i \in DOMAIN events |->
                  UNION {IF NodeCalls(events, p) # {} THEN NodeCalls(events, p) ELSE f[p]
                           : p \in events[i].parents}]
<1>1. IsNearest(f, events, n)
  <2>1. \E g : IsNearest(g, events, n)
    BY NearestExists, Zenon
  <2>2. DOMAIN events = 1..n
    BY DEF Earlier
  <2>3. \E g : g = [i \in DOMAIN events |->
                  UNION {IF NodeCalls(events, p) # {} THEN NodeCalls(events, p) ELSE g[p]
                           : p \in events[i].parents}]
    BY <2>1, <2>2, Zenon DEF IsNearest, Back
  <2>4. f = [i \in DOMAIN events |->
                  UNION {IF NodeCalls(events, p) # {} THEN NodeCalls(events, p) ELSE f[p]
                           : p \in events[i].parents}]
    BY <2>3, Zenon
  <2> HIDE DEF f
  <2> QED
    BY <2>2, <2>4, Zenon DEF IsNearest, Back
<1>2. \A c : Dependencies(events, c) = (UNION {f[i] : i \in RequestsOf(events, c)}) \ {c}
  BY Zenon DEF Dependencies
<1> HIDE DEF f
<1>3. \A i \in 1..n : f[i] = Back(f, events, i)
  BY <1>1 DEF IsNearest
<1> DEFINE astray == {i \in 1..n : ~(f[i] \subseteq Grouped(events))}
<1>4. ASSUME astray # {} PROVE FALSE
  <2>1. PICK m \in astray : \A j \in astray : m <= j
    <3>1. astray \subseteq Nat
      OBVIOUS
    <3> HIDE DEF astray
    <3> QED
      BY <1>4, <3>1, LeastNatural
  <2>2. ASSUME NEW p \in events[m].parents PROVE p \in 1..n /\ f[p] \subseteq Grouped(events)
    <3>1. p \in 1..(m - 1) /\ m \in 1..n
      BY <2>1 DEF Earlier
    <3>2. p \in 1..n /\ p < m
      BY <3>1
    <3> QED
      BY <2>1, <3>2
  <2>3. \A p : NodeCalls(events, p) \subseteq Grouped(events)
    BY DEF NodeCalls
  <2>4. Back(f, events, m) \subseteq Grouped(events)
    BY <2>2, <2>3 DEF Back
  <2> QED
    BY <1>3, <2>1, <2>4
<1> QED
  BY <1>2, <1>3, <1>4

(* The dependencies of a compiled node are listed one by one.              *)
LEMMA DependenciesListed ==
  ASSUME NEW events, NEW n \in Nat, Earlier(events, n), NEW call
  PROVE  /\ Dependencies(events, call) \subseteq Grouped(events)
         /\ IsFiniteSet(Dependencies(events, call))
         /\ Cardinality(Dependencies(events, call)) \in Nat
         /\ \A k \in 1..Cardinality(Dependencies(events, call)) :
              \E c \in Dependencies(events, call) :
                Cardinality({d \in Dependencies(events, call) : SortsBefore(events, d, c)}) = k
<1> DEFINE A == Dependencies(events, call)
           G == Grouped(events)
           N == Cardinality(G)
           f == [c \in A |-> IF c.kind = "model" THEN Index(events, c) ELSE Index(events, c) + N]
<1>1. A \subseteq G
  <2>1. PICK g : /\ \A i \in 1..n : g[i] = Back(g, events, i) /\ g[i] \subseteq Grouped(events)
                 /\ \A c : Dependencies(events, c)
                             = (UNION {g[i] : i \in RequestsOf(events, c)}) \ {c}
    BY NearestFacts
  <2>2. RequestsOf(events, call) \subseteq 1..n
    BY DEF RequestsOf, Earlier
  <2> QED
    BY <2>1, <2>2
<1>2. /\ N \in Nat
      /\ \A c \in G : FirstRequest(events, c) \in 1..n /\ Index(events, c) \in 1..N
      /\ \A c, d \in G : FirstRequest(events, c) = FirstRequest(events, d) => c = d
      /\ \A c, d \in G : FirstRequest(events, c) < FirstRequest(events, d)
                           => Index(events, c) < Index(events, d)
  BY CallsGrouped DEF Earlier
<1>3. \A c \in A : /\ c \in G /\ (c.kind = "model" \/ c.kind = "tool")
                   /\ f[c] = IF c.kind = "model" THEN Index(events, c) ELSE Index(events, c) + N
  <2>1. \A c \in G : c \in Calls
    BY DEF Grouped
  <2>2. \A c \in Calls : c.kind = "model" \/ c.kind = "tool"
    BY CallsAssumption
  <2> QED
    BY <1>1, <2>1, <2>2
<1> HIDE DEF G, N, f, A
<1>4. \A c, d \in G : Index(events, c) = Index(events, d) => c = d
  <2>1. ASSUME NEW c \in G, NEW d \in G, Index(events, c) = Index(events, d) PROVE c = d
    <3>1. FirstRequest(events, c) = FirstRequest(events, d)
      BY <1>2, <2>1
    <3> QED
      BY <1>2, <3>1
  <2> QED
    BY <2>1
<1>5. /\ f \in [A -> 1..(N + N)] /\ N + N \in Nat
      /\ \A c, d \in A : f[c] = f[d] => c = d
      /\ \A c, d \in A : SortsBefore(events, d, c) <=> f[d] <= f[c]
  <2>1. ASSUME NEW c \in A
        PROVE f[c] \in 1..(N + N) /\ Index(events, c) \in 1..N
    BY <1>2, <1>3
  <2>2. f \in [A -> 1..(N + N)]
    BY <2>1 DEF f
  <2>3. ASSUME NEW c \in A, NEW d \in A
        PROVE (f[c] = f[d] => c = d) /\ (SortsBefore(events, d, c) <=> f[d] <= f[c])
    <3>1. Index(events, c) \in 1..N /\ Index(events, d) \in 1..N
      BY <2>1
    <3>2. Index(events, c) = Index(events, d) => c = d
      BY <1>3, <1>4
    <3>3. CASE c.kind = d.kind
      BY <1>2, <1>3, <3>1, <3>2, <3>3 DEF SortsBefore
    <3>4. CASE c.kind # d.kind
      BY <1>2, <1>3, <3>1, <3>4 DEF SortsBefore
    <3> QED
      BY <3>3, <3>4
  <2> QED
    BY <1>2, <2>2, <2>3
<1>6. \A c \in A : {d \in A : SortsBefore(events, d, c)} = AtMost(A, f, f[c])
  BY <1>5 DEF AtMost
<1>7. /\ IsFiniteSet(A) /\ Cardinality(A) \in Nat
      /\ \A k \in 1..Cardinality(A) : \E c \in A : Cardinality(AtMost(A, f, f[c])) = k
  BY <1>5, Measured
<1> QED
  BY <1>1, <1>6, <1>7 DEF A, G

(* A compiled document has the form of one.                                *)
LEMMA GeneratedTyped ==
  ASSUME NEW events, NEW n \in Nat, Earlier(events, n), Grouped(events) # {}
  PROVE  Generated(events) \in Workflow
<1> DEFINE size == Cardinality(Grouped(events))
<1>1. \A k \in 1..size : CallAt(events, k) \in Grouped(events)
  BY CallsGrouped DEF Earlier
<1>2. size \in Nat \ {0}
  <2>1. PICK c : c \in Grouped(events)
    OBVIOUS
  <2>2. size \in Nat /\ Index(events, c) \in 1..size
    BY <2>1, CallsGrouped DEF Earlier
  <2> QED
    BY <2>2
<1>3. ASSUME NEW call \in Grouped(events) PROVE CompiledNode(events, call) \in Node
  <2>1. \A c \in Grouped(events) : c.key[1] \in STRING /\ c.sideEffect \in Effects
    <3>1. \A c \in Grouped(events) :
            c.key \in Seq(STRING) /\ Len(c.key) = 1 /\ c.sideEffect \in Effects
      BY CallsAssumption DEF Grouped
    <3> QED
      BY <3>1
  <2>2. SortedDependencies(events, call) \in Seq([of : STRING, on : DOMAIN Wanted])
    <3> DEFINE all == Dependencies(events, call)
               before(c) == Cardinality({d \in all : SortsBefore(events, d, c)})
               at(k) == CHOOSE c \in all : before(c) = k
    <3>1. /\ all \subseteq Grouped(events) /\ Cardinality(all) \in Nat
          /\ \A k \in 1..Cardinality(all) : \E c \in all : before(c) = k
      BY DependenciesListed
    <3>2. ASSUME NEW k \in 1..Cardinality(all) PROVE at(k).key[1] \in STRING
      <4>1. at(k) \in all
        BY <3>1
      <4> HIDE DEF at, all
      <4> QED
        BY <2>1, <3>1, <4>1
    <3>3. "success" \in DOMAIN Wanted
      BY DEF Wanted
    <3>4. SortedDependencies(events, call)
            = [k \in 1..Cardinality(all) |-> [of |-> at(k).key[1], on |-> "success"]]
      BY DEF SortedDependencies
    <3> DEFINE size2 == Cardinality(all)
               ids == [k \in 1..size2 |-> at(k).key[1]]
    <3>5. ids \in [1..size2 -> STRING] /\ size2 \in Nat
      BY <3>1, <3>2
    <3>6. SortedDependencies(events, call)
            = [k \in 1..size2 |-> [of |-> ids[k], on |-> "success"]]
      BY <3>4
    <3> HIDE DEF ids, size2
    <3> DEFINE D == [of : STRING, on : DOMAIN Wanted]
    <3>7. \A k \in 1..size2 : [of |-> ids[k], on |-> "success"] \in D
      BY <3>3, <3>5
    <3> HIDE DEF D
    <3>8. [k \in 1..size2 |-> [of |-> ids[k], on |-> "success"]] \in Seq(D)
      BY <3>5, <3>7
    <3> QED
      BY <3>6, <3>8 DEF D
  <2>3. Cardinality(RequestsOf(events, call)) \in Nat \ {0}
    <3>1. RequestsOf(events, call) \subseteq 1..n /\ RequestsOf(events, call) # {}
      BY DEF RequestsOf, Grouped, Earlier
    <3>2. IsFiniteSet(RequestsOf(events, call))
      BY <3>1, FS_Interval, FS_Subset
    <3> QED
      BY <3>1, <3>2, FS_EmptySet, FS_CardinalityType
  <2>4. <<>> \in Seq(STRING)
    OBVIOUS
  <2> DEFINE deps == SortedDependencies(events, call)
             asked == Cardinality(RequestsOf(events, call))
             kind == IF call.kind = "model" THEN "agent_task" ELSE "tool_call"
             ends == IF \E i \in ResponsesOf(events, call) : events[i].type = "completed"
                     THEN "stop" ELSE "continue"
             id == call.key[1]
             none == <<>>
             Lists == Seq(STRING)
             Waits == Seq([of : STRING, on : DOMAIN Wanted])
             When == {"", "false"} \cup STRING
             Tries == Nat \ {0}
             Ends == {"stop", "continue"}
  <2>5. id \in STRING /\ call.sideEffect \in Effects /\ kind \in NodeKinds
        /\ ends \in Ends /\ "" \in When
    BY <2>1 DEF NodeKinds
  <2>6. CompiledNode(events, call)
          = [id |-> id, kind |-> kind, deps |-> deps, when |-> "", absent |-> FALSE,
             sideEffect |-> call.sideEffect, needsApproval |-> FALSE, attempts |-> asked, onFailure |-> ends, verifiers |-> none]
    BY DEF CompiledNode
  <2>7. deps \in Waits /\ asked \in Tries /\ none \in Lists
    BY <2>2, <2>3, <2>4
  <2>8. Node = [id : STRING, kind : NodeKinds, deps : Waits, when : When, absent : BOOLEAN,
                sideEffect : Effects, needsApproval : BOOLEAN, attempts : Tries, onFailure : Ends, verifiers : Lists]
    BY DEF Node
  <2> HIDE DEF deps, asked, kind, ends, id, none, Lists, Waits, When, Tries, Ends
  <2>9. [id |-> id, kind |-> kind, deps |-> deps, when |-> "", absent |-> FALSE,
         sideEffect |-> call.sideEffect, needsApproval |-> FALSE, attempts |-> asked, onFailure |-> ends, verifiers |-> none]
          \in [id : STRING, kind : NodeKinds, deps : Waits, when : When, absent : BOOLEAN,
               sideEffect : Effects, needsApproval : BOOLEAN, attempts : Tries, onFailure : Ends, verifiers : Lists]
    BY <2>5, <2>7
  <2> QED
    BY <2>6, <2>8, <2>9, Zenon
<1> DEFINE nodes == [k \in 1..size |-> CompiledNode(events, CallAt(events, k))]
<1>4. nodes \in Seq(Node)
  <2>1. \A k \in 1..size : CompiledNode(events, CallAt(events, k)) \in Node
    BY <1>1, <1>3
  <2> HIDE DEF size
  <2> QED
    BY <1>2, <2>1
<1>5. CompiledNode(events, CallAt(events, size)).id \in STRING
  <2>1. size \in 1..size
    BY <1>2
  <2> QED
    BY <1>1, <1>3, <2>1 DEF Node
<1>6. Generated(events) = [nodes |-> nodes, verifiers |-> {},
                           outputs |-> {CompiledNode(events, CallAt(events, size)).id}]
  BY DEF Generated
<1> HIDE DEF nodes, size
<1> QED
  BY <1>4, <1>5, <1>6 DEF Workflow

-----------------------------------------------------------------------------
(* Which runner there is, and what it has not done yet.  Barren: nothing   *)
(* has come of the document, because its run has not begun or was refused. *)
Unstarted ==
  results = <<>> /\ cursor = 1 /\ ~progressed /\ attempt = 0 /\ checking = NotChecking
Decided(e) == e.type = "decision.recorded"
Barren ==
  /\ Unstarted /\ executed = <<>> /\ job = Idle /\ runStatus # "running"
  /\ report.process # "matched" /\ report.result # "equivalent"
  /\ \A p \in DOMAIN log : ~Decided(log[p])

SemanticRuns == mode = "semantic" /\ runStatus = "running"

RunnerInv ==
  /\ workflow \in Workflow /\ mode \in {"none", "semantic", "mock", "verified"}
  /\ runStatus = "none" =>
       job = Idle /\ executed = <<>> /\ log = <<>> /\ report = NoReport /\ Unstarted
  /\ mode = "none" => runStatus = "none"
  /\ mode # "semantic" => workflow = NoWorkflow /\ Unstarted /\ report = NoReport
  /\ mode # "semantic" => \A p \in DOMAIN log : Decided(log[p]) => log[p].value # "completed"
  /\ mode = "semantic" => Barren \/ ValidWorkflow(workflow)
  /\ runStatus = "running" => report = NoReport

(* A session starts without any of it.                                     *)
LEMMA RunnerStarts ==
  ASSUME Init PROVE RunnerInv
<1>1. NoWorkflow \in Workflow
  <2>1. <<>> \in Seq(Node)
    OBVIOUS
  <2> QED
    BY <2>1 DEF NoWorkflow, Workflow
<1> QED
  BY <1>1 DEF Init, PolicyInit, SemanticInit, RunnerInv, Unstarted

(* The caller's choice of a runner.                                        *)
LEMMA NewRunnerKeeps ==
  ASSUME TraceInv, PolicyInv, RunnerInv, NewRunner PROVE RunnerInv'
<1>1. /\ mode = "none" /\ runStatus = "none" /\ job = Idle /\ executed = <<>> /\ log = <<>>
      /\ Unstarted /\ report = NoReport
  BY DEF NewRunner, RunnerInv
<1>2. /\ UNCHANGED <<runStatus, job, executed, log>>
      /\ UNCHANGED <<results, cursor, progressed, attempt, checking, report>>
  BY DEF NewRunner, NewSemanticRunner, semanticVars, policyVars
<1>3. Barren' /\ Unstarted'
  BY <1>1, <1>2 DEF Barren, Unstarted, NoReport
<1>4. CASE UNCHANGED semanticVars /\ mode' \in {"mock", "verified"}
  <2>1. UNCHANGED <<workflow, results, cursor, progressed, attempt, checking, report>>
    BY <1>4 DEF semanticVars
  <2>2. Unstarted'
    BY <1>1, <2>1 DEF Unstarted
  <2>3. workflow \in Workflow /\ workflow = NoWorkflow
    BY <1>1 DEF RunnerInv
  <2>4. \A p \in DOMAIN log' : FALSE
    BY <1>1, <1>2
  <2> QED
    BY <1>1, <1>2, <1>4, <2>1, <2>2, <2>3, <2>4 DEF RunnerInv
<1>5. CASE mode' = "semantic" /\ workflow' \in Workflow
  BY <1>1, <1>2, <1>3, <1>5 DEF RunnerInv
<1>6. CASE mode' = "semantic" /\ NewSemanticRunner(Workflows)
  BY <1>5, <1>6, SemanticAssumption DEF NewSemanticRunner
<1>7. CASE /\ mode' = "semantic" /\ CompilerDiagnostic = "none"
           /\ NewSemanticRunner({Generated(Events)})
  <2>1. Executable /\ Grouped(Events) # {}
    BY <1>7 DEF CompilerDiagnostic, Executable
  <2>2. Len(lines) \in Nat /\ Earlier(Events, Len(lines))
    BY <2>1, ValidEvents DEF Executable, Earlier
  <2>3. Generated(Events) \in Workflow
    BY <2>1, <2>2, GeneratedTyped
  <2> QED
    BY <1>5, <1>7, <2>3 DEF NewSemanticRunner
<1> QED
  BY <1>4, <1>6, <1>7 DEF NewRunner

(* The events of a run, and the decisions among them.                      *)
LEMMA EventTypes ==
  /\ \A type, parents : RunEvent(type, parents).type = type
  /\ \A type, call, value, parents : CallEvent(type, call, value, parents).type = type
  /\ \A operation, path, value, parents :
       StateEvent(operation, path, value, parents).type = "state.changed"
  /\ \A type, action, value, parents :
       /\ EventOf(type, action, value, parents).type = type
       /\ EventOf(type, action, value, parents).value = value
BY DEF RunEvent, CallEvent, StateEvent, EventOf

(* A decision of the policy is one of four words.                          *)
LEMMA DecisionWords ==
  ASSUME NEW action, NEW needsApproval
  PROVE  Evaluate(action, needsApproval) \in Decisions
BY DEF Evaluate, Decisions

(* The log is extended by events of which every one is fine.               *)
LEMMA LogGrows ==
  ASSUME NEW s, NEW e, IsSeq(s), NEW Fine, \A p \in DOMAIN s : s[p] \in Fine, e \in Fine
  PROVE  \A p \in DOMAIN Append(s, e) : Append(s, e)[p] \in Fine
BY SeqFacts, AppendFacts DEF Extends

(* A trace runner never says that it has completed a node.                 *)
LEMMA TraceLogKeeps ==
  ASSUME PolicyInv, MockStep \/ VerifiedStep \/ AppendRefused,
         \A p \in DOMAIN log : Decided(log[p]) => log[p].value # "completed"
  PROVE  \A p \in DOMAIN log' : Decided(log'[p]) => log'[p].value # "completed"
<1> DEFINE Fine(e) == Decided(e) => e.value # "completed"
<1>0. IsSeq(log)
  BY DEF PolicyInv
<1>1. ASSUME NEW e, log' = Append(log, e), Fine(e) PROVE \A p \in DOMAIN log' : Fine(log'[p])
  <2>1. /\ DOMAIN log = 1..Len(log) /\ DOMAIN log' = 1..(Len(log) + 1) /\ Len(log) \in Nat
        /\ log'[Len(log) + 1] = e /\ \A p \in 1..Len(log) : log'[p] = log[p]
    BY <1>0, <1>1, SeqFacts, AppendFacts DEF Extends
  <2> QED
    BY <1>1, <2>1
<1>2. ASSUME log' = log PROVE \A p \in DOMAIN log' : Fine(log'[p])
  BY <1>2
<1>3. ASSUME NEW d, NEW e, log' = <<d, e>> \/ log' = <<d>>, Fine(d), Fine(e)
      PROVE  \A p \in DOMAIN log' : Fine(log'[p])
  <2>1. CASE log' = <<d, e>>
    <3>1. DOMAIN log' = {1, 2} /\ log'[1] = d /\ log'[2] = e
      BY <2>1
    <3> QED
      BY <1>3, <3>1
  <2>2. CASE log' = <<d>>
    <3>1. DOMAIN log' = {1} /\ log'[1] = d
      BY <2>2
    <3> QED
      BY <1>3, <3>1
  <2> QED
    BY <1>3, <2>1, <2>2
<1>4. /\ \A type, parents : type # "decision.recorded" => Fine(RunEvent(type, parents))
      /\ \A type, call, value, parents :
           type # "decision.recorded" => Fine(CallEvent(type, call, value, parents))
      /\ \A operation, path, value, parents : Fine(StateEvent(operation, path, value, parents))
      /\ \A action, value, parents :
           value \in Decisions => Fine(EventOf("decision.recorded", action, value, parents))
  BY EventTypes DEF Decided, Decisions
<1>5. ASSUME FailAtStart PROVE \A p \in DOMAIN log' : Fine(log'[p])
  <2>1. log' = <<RunEvent("run.started", {}), RunEvent("run.failed", {1})>>
    BY <1>5 DEF FailAtStart
  <2> HIDE DEF Fine
  <2> QED
    BY <1>3, <1>4, <2>1
<1>6. ASSUME NEW status \in {"completed", "failed"}, EndRun(status)
      PROVE  \A p \in DOMAIN log' : Fine(log'[p])
  <2>1. log' = Append(log, RunEvent(Ending[status], Latest)) /\ Ending[status] # "decision.recorded"
    BY <1>6 DEF EndRun, Ending
  <2> HIDE DEF Fine
  <2> QED
    BY <1>1, <1>4, <2>1
<1>7. ASSUME NEW approvals, StartRun(approvals) PROVE \A p \in DOMAIN log' : Fine(log'[p])
  <2>1. log' = <<RunEvent("run.started", {})>>
    BY <1>7 DEF StartRun
  <2> HIDE DEF Fine
  <2> QED
    BY <1>3, <1>4, <2>1
<1>8. ASSUME RecordDecision PROVE \A p \in DOMAIN log' : Fine(log'[p])
  <2>1. PICK parents : log' = Append(log, EventOf("decision.recorded", job.action,
                                 Evaluate(job.action, job.needsApproval), parents))
    BY <1>8, Zenon DEF RecordDecision
  <2> HIDE DEF Fine
  <2> QED
    BY <1>1, <1>4, <2>1, DecisionWords
<1>9. ASSUME StartMock \/ StartVerified PROVE \A p \in DOMAIN log' : Fine(log'[p])
  <2>1. CASE StartMock
    BY <1>5, <1>7, <2>1 DEF StartMock, RefuseSource
  <2>2. CASE StartVerified
    <3>1. \/ FailAtStart \/ log' = <<RunEvent("run.started", {})>>
          \/ log' = <<RunEvent("run.started", {}), RunEvent("checkpoint.created", {1})>>
      BY <2>2 DEF StartVerified, RefuseSource
    <3> HIDE DEF Fine
    <3> QED
      BY <1>3, <1>4, <1>5, <3>1
  <2> QED
    BY <1>9, <2>1, <2>2
<1>10. ASSUME MirrorState \/ MirrorRequest \/ MockAnswered \/ LiveAnswered
       PROVE  \A p \in DOMAIN log' : Fine(log'[p])
  <2>1. \/ log' = log
        \/ \E operation, path, value, parents :
             log' = Append(log, StateEvent(operation, path, value, parents))
        \/ \E type, call, value, parents :
             /\ log' = Append(log, CallEvent(type, call, value, parents))
             /\ type \in {"requested", "completed", "failed"}
    <3>1. CASE MirrorState
      BY <3>1, Zenon DEF MirrorState
    <3>2. CASE MirrorRequest
      BY <3>2 DEF MirrorRequest
    <3>3. ASSUME NEW value, AppendResponse(value)
          PROVE  \E type, call, v, parents :
                   /\ log' = Append(log, CallEvent(type, call, v, parents))
                   /\ type \in {"requested", "completed", "failed"}
      BY <3>3 DEF AppendResponse
    <3> QED
      BY <1>10, <3>1, <3>2, <3>3 DEF MockAnswered, LiveAnswered
  <2> HIDE DEF Fine
  <2> QED
    BY <1>1, <1>2, <1>4, <2>1
<1>11. ASSUME FinishMock \/ FinishVerified PROVE \A p \in DOMAIN log' : Fine(log'[p])
  <2>1. \/ EndRun("failed") \/ EndRun("completed") \/ log' = log
        \/ log' = log \o <<RunEvent("checkpoint.created", Latest),
                           RunEvent("run.completed", {Len(log) + 1})>>
    BY <1>11 DEF FinishMock, FinishVerified, FailMock
  <2>2. CASE log' = log \o <<RunEvent("checkpoint.created", Latest),
                             RunEvent("run.completed", {Len(log) + 1})>>
    <3> DEFINE one == RunEvent("checkpoint.created", Latest)
               two == RunEvent("run.completed", {Len(log) + 1})
    <3>1. Fine(one) /\ Fine(two)
      BY <1>4
    <3>2. PICK S : log \in Seq(S)
      BY <1>0 DEF IsSeq
    <3> HIDE DEF one, two
    <3>3. log' = log \o <<one, two>>
      BY <2>2 DEF one, two
    <3>4. \A p \in DOMAIN log' : \/ p \in DOMAIN log /\ log'[p] = log[p]
                                 \/ log'[p] = one \/ log'[p] = two
      BY <3>2, <3>3
    <3> QED
      BY <3>1, <3>4
  <2> QED
    BY <1>2, <1>6, <2>1, <2>2
<1>12. ASSUME UNCHANGED log PROVE \A p \in DOMAIN log' : Fine(log'[p])
  BY <1>12
<1> HIDE DEF Fine
<1>13. \A p \in DOMAIN log' : Fine(log'[p])
  BY <1>8, <1>9, <1>10, <1>11, <1>12
     DEF MockStep, VerifiedStep, AppendRefused, RecorderRefuses, PassEvent, policyVars,
         SubmitRecorded, SubmitLive, OperateRecorded, OperateLive, Operate, MirrorThrows
<1> QED
  BY <1>13 DEF Fine

-----------------------------------------------------------------------------
(* The results of the nodes, as a list rs of them.                         *)
SettledIn(rs) == {rs[i].node : i \in DOMAIN rs}
StatusIn(rs, id) ==
  IF id \in SettledIn(rs)
  THEN rs[CHOOSE i \in DOMAIN rs : rs[i].node = id].status ELSE "open"
Distinct(rs) == \A i, j \in DOMAIN rs : rs[i].node = rs[j].node => i = j
Result(w) == [node : Ids(w), status : Statuses, attempts : Nat]

ResultsInv == results \in Seq(Result(workflow)) /\ Distinct(results)

(* StatusOf and Settled read the list there is.                            *)
LEMMA StatusReads ==
  /\ Settled = SettledIn(results) /\ \A id : StatusOf(id) = StatusIn(results, id)
  /\ Settled' = SettledIn(results') /\ \A id : StatusOf(id)' = StatusIn(results', id)
BY DEF Settled, StatusOf, SettledIn, StatusIn

(* A node has the status of its one result.                                *)
LEMMA StatusFacts ==
  ASSUME NEW w, NEW rs \in Seq(Result(w)), Distinct(rs)
  PROVE  /\ \A i \in DOMAIN rs : /\ StatusIn(rs, rs[i].node) = rs[i].status
                                 /\ rs[i].node \in SettledIn(rs) /\ rs[i].node \in Ids(w)
                                 /\ rs[i].status \in Statuses
         /\ \A id \in SettledIn(rs) : StatusIn(rs, id) \in Statuses
         /\ \A id : id \notin SettledIn(rs) <=> StatusIn(rs, id) = "open"
<1>1. ASSUME NEW i \in DOMAIN rs
      PROVE  /\ StatusIn(rs, rs[i].node) = rs[i].status
             /\ rs[i].node \in SettledIn(rs) /\ rs[i].node \in Ids(w)
             /\ rs[i].status \in Statuses
  <2> DEFINE c == CHOOSE j \in DOMAIN rs : rs[j].node = rs[i].node
  <2>1. c \in DOMAIN rs /\ rs[c].node = rs[i].node
    OBVIOUS
  <2>2. c = i
    BY <2>1 DEF Distinct
  <2>3. rs[i].node \in SettledIn(rs)
    BY DEF SettledIn
  <2>4. rs[i] \in Result(w)
    OBVIOUS
  <2>5. StatusIn(rs, rs[i].node) = rs[c].status
    BY <2>3 DEF StatusIn
  <2> QED
    BY <2>2, <2>3, <2>4, <2>5 DEF Result
<1>2. ASSUME NEW id \in SettledIn(rs) PROVE StatusIn(rs, id) \in Statuses
  <2>1. PICK i \in DOMAIN rs : id = rs[i].node
    BY DEF SettledIn
  <2> QED
    BY <1>1, <2>1
<1>3. "open" \notin Statuses
  BY DEF Statuses
<1> QED
  BY <1>1, <1>2, <1>3 DEF StatusIn

(* What has settled stays as it is when results are added.                 *)
LEMMA StatusKept ==
  ASSUME NEW w, NEW rs \in Seq(Result(w)), Distinct(rs),
         NEW more \in Seq(Result(w)), Distinct(more), Extends(rs, more)
  PROVE  /\ SettledIn(rs) \subseteq SettledIn(more)
         /\ \A id \in SettledIn(rs) : StatusIn(more, id) = StatusIn(rs, id)
         /\ \A i \in DOMAIN rs : i \in DOMAIN more /\ more[i] = rs[i]
<1>1. \A i \in DOMAIN rs : i \in DOMAIN more /\ more[i] = rs[i]
  BY DEF Extends
<1>2. ASSUME NEW id \in SettledIn(rs)
      PROVE  id \in SettledIn(more) /\ StatusIn(more, id) = StatusIn(rs, id)
  <2>1. PICK i \in DOMAIN rs : id = rs[i].node
    BY DEF SettledIn
  <2>2. i \in DOMAIN more /\ id = more[i].node
    BY <1>1, <2>1
  <2> QED
    BY <1>1, <2>1, <2>2, StatusFacts
<1> QED
  BY <1>1, <1>2

(* A node that settles gets its status, and no other one.                  *)
LEMMA StatusAppended ==
  ASSUME NEW w, NEW rs \in Seq(Result(w)), Distinct(rs),
         NEW e \in Result(w), e.node \notin SettledIn(rs)
  PROVE  /\ Append(rs, e) \in Seq(Result(w)) /\ Distinct(Append(rs, e))
         /\ Extends(rs, Append(rs, e))
         /\ SettledIn(Append(rs, e)) = SettledIn(rs) \cup {e.node}
         /\ \A id : StatusIn(Append(rs, e), id)
                      = IF id = e.node THEN e.status ELSE StatusIn(rs, id)
<1> DEFINE more == Append(rs, e)
           n == Len(rs)
<1>1. /\ more \in Seq(Result(w)) /\ DOMAIN more = 1..(n + 1) /\ n \in Nat /\ DOMAIN rs = 1..n
      /\ more[n + 1] = e /\ \A i \in 1..n : more[i] = rs[i]
      /\ Len(more) = n + 1
  OBVIOUS
<1> HIDE DEF more, n
<1>2. \A i \in 1..n : rs[i].node \in SettledIn(rs)
  BY <1>1 DEF SettledIn
<1>3. Distinct(more)
  <2>1. ASSUME NEW i \in 1..(n + 1), NEW j \in 1..(n + 1), more[i].node = more[j].node
        PROVE  i = j
    <3>1. i \in 1..n \/ i = n + 1
      BY <1>1
    <3>2. j \in 1..n \/ j = n + 1
      BY <1>1
    <3> QED
      BY <1>1, <1>2, <2>1, <3>1, <3>2 DEF Distinct
  <2> QED
    BY <1>1, <2>1 DEF Distinct
<1>4. SettledIn(more) = SettledIn(rs) \cup {e.node}
  BY <1>1 DEF SettledIn
<1>5. Extends(rs, more)
  BY <1>1 DEF Extends, IsSeq, n
<1>6. \A id \in SettledIn(rs) : StatusIn(more, id) = StatusIn(rs, id)
  BY <1>1, <1>3, <1>5, StatusKept
<1>7. StatusIn(more, e.node) = e.status
  <2>1. n + 1 \in DOMAIN more
    BY <1>1
  <2> QED
    BY <1>1, <1>3, <2>1, StatusFacts
<1>8. ASSUME NEW id, id \notin SettledIn(rs), id # e.node
      PROVE  StatusIn(more, id) = StatusIn(rs, id)
  BY <1>4, <1>8 DEF StatusIn
<1> QED
  BY <1>1, <1>3, <1>4, <1>5, <1>6, <1>7, <1>8 DEF more

(* The nodes that are left are all blocked.                                *)
LEMMA RestBlocked ==
  ASSUME workflow \in Workflow, ValidWorkflow(workflow), ResultsInv
  PROVE  /\ BlockedRest \in Seq(Result(workflow)) /\ Distinct(BlockedRest)
         /\ Extends(results, BlockedRest)
         /\ SettledIn(BlockedRest) = Ids(workflow)
         /\ \A id \in Ids(workflow) \ Settled : StatusIn(BlockedRest, id) = "blocked"
         /\ Pending # {} => \E i \in DOMAIN BlockedRest : BlockedRest[i].status = "blocked"
<1> DEFINE R == Result(workflow)
           c == Cardinality(Pending)
           at(k) == Position(Pending, k)
           rest == [k \in 1..c |-> [node |-> workflow.nodes[at(k)].id, status |-> "blocked",
                                    attempts |-> 0]]
           n == Len(results)
<1>1. Len(workflow.nodes) \in Nat /\ DOMAIN workflow.nodes = 1..Len(workflow.nodes)
  BY DEF Workflow
<1>2. Pending \subseteq 1..Len(workflow.nodes)
  BY <1>1 DEF Pending
<1>3. /\ c \in Nat
      /\ \A k \in 1..c : at(k) \in Pending /\ RankIn(Pending, at(k)) = k
      /\ \A i \in Pending : RankIn(Pending, i) \in 1..c /\ at(RankIn(Pending, i)) = i
  <2> HIDE DEF Pending
  <2> QED
    BY <1>1, <1>2, PositionFacts
<1>4. \A k \in 1..c : at(k) \in DOMAIN workflow.nodes /\ workflow.nodes[at(k)].id \notin Settled
  BY <1>3 DEF Pending
<1>5. \A k \in 1..c : workflow.nodes[at(k)].id \in Ids(workflow)
  BY <1>4 DEF Ids
<1>6. ASSUME NEW k \in 1..c, NEW m \in 1..c, workflow.nodes[at(k)].id = workflow.nodes[at(m)].id
      PROVE  k = m
  <2>1. at(k) = at(m)
    BY <1>4, <1>6 DEF ValidWorkflow
  <2> QED
    BY <1>3, <2>1
<1>7. \A k \in 1..c : rest[k] \in R /\ rest[k].node = workflow.nodes[at(k)].id
                      /\ rest[k].status = "blocked"
  BY <1>5 DEF Result, Statuses
<1>8. BlockedRest = results \o rest
  BY DEF BlockedRest
<1>9. results \in Seq(R) /\ Distinct(results) /\ n \in Nat /\ DOMAIN results = 1..n
  BY DEF ResultsInv
<1>10. rest \in Seq(R) /\ Len(rest) = c
  <2>1. rest \in [1..c -> R]
    BY <1>7
  <2> HIDE DEF R, c, at
  <2> QED
    BY <1>3, <2>1
<1> HIDE DEF R, rest, at, c, n
<1>11. /\ BlockedRest \in Seq(R) /\ DOMAIN BlockedRest = 1..(n + c) /\ Len(BlockedRest) = n + c
       /\ \A i \in 1..n : BlockedRest[i] = results[i]
       /\ \A k \in 1..c : n + k \in DOMAIN BlockedRest /\ BlockedRest[n + k] = rest[k]
  <2>1. Len(results) = n
    BY DEF n
  <2>2. LET s == results \o rest
        IN  /\ s \in Seq(R) /\ Len(s) = Len(results) + Len(rest)
            /\ DOMAIN s = 1..(Len(results) + Len(rest))
            /\ \A i \in 1..Len(results) : s[i] = results[i]
            /\ \A k \in 1..Len(rest) :
                 Len(results) + k \in DOMAIN s /\ s[Len(results) + k] = rest[k]
    BY <1>9, <1>10
  <2> QED
    BY <1>8, <1>10, <2>1, <2>2
<1>12. \A i \in 1..(n + c) : i \in 1..n \/ (i - n \in 1..c /\ i = n + (i - n))
  BY <1>3, <1>9
<1>13. \A i \in 1..n : results[i].node \in Settled
  BY <1>9 DEF Settled
<1>18. \A i \in 1..(n + c) : i \in 1..n => BlockedRest[i].node \in Settled
  BY <1>11, <1>13
<1>19. ASSUME NEW i \in 1..(n + c), i - n \in 1..c, i = n + (i - n)
       PROVE  BlockedRest[i].node \notin Settled
  BY <1>4, <1>7, <1>11, <1>19
<1>14. Distinct(BlockedRest)
  <2>1. ASSUME NEW i \in 1..(n + c), NEW j \in 1..(n + c), BlockedRest[i].node = BlockedRest[j].node
        PROVE  i = j
    <3>1. CASE i \in 1..n /\ j \in 1..n
      BY <1>9, <1>11, <2>1, <3>1 DEF Distinct
    <3>2. CASE i \in 1..n /\ j - n \in 1..c /\ j = n + (j - n)
      BY <1>18, <1>19, <2>1, <3>2
    <3>3. CASE j \in 1..n /\ i - n \in 1..c /\ i = n + (i - n)
      BY <1>18, <1>19, <2>1, <3>3
    <3>4. CASE i - n \in 1..c /\ i = n + (i - n) /\ j - n \in 1..c /\ j = n + (j - n)
      <4>1. rest[i - n].node = rest[j - n].node
        BY <1>11, <2>1, <3>4
      <4>2. i - n = j - n
        BY <1>6, <1>7, <3>4, <4>1
      <4> QED
        BY <3>4, <4>2
    <3> QED
      BY <1>12, <3>1, <3>2, <3>3, <3>4
  <2> QED
    BY <1>11, <2>1 DEF Distinct
<1>15. Extends(results, BlockedRest)
  BY <1>3, <1>9, <1>11 DEF Extends, IsSeq, n
<1>16. ASSUME NEW id \in Ids(workflow) \ Settled
       PROVE  id \in SettledIn(BlockedRest) /\ StatusIn(BlockedRest, id) = "blocked"
  <2>1. PICK i \in DOMAIN workflow.nodes : workflow.nodes[i].id = id
    BY DEF Ids
  <2>2. i \in Pending
    BY <2>1 DEF Pending
  <2>3. PICK k \in 1..c : at(k) = i
    BY <1>3, <2>2
  <2>4. n + k \in DOMAIN BlockedRest
    BY <1>3, <1>9, <1>11
  <2>5. BlockedRest[n + k].node = id /\ BlockedRest[n + k].status = "blocked"
    BY <1>7, <1>11, <2>1, <2>3
  <2> QED
    BY <1>11, <1>14, <2>4, <2>5, StatusFacts DEF R
<1>17. SettledIn(BlockedRest) = Ids(workflow)
  <2>1. \A i \in DOMAIN BlockedRest : BlockedRest[i].node \in Ids(workflow)
    BY <1>11, <1>14, StatusFacts DEF R
  <2>2. ASSUME NEW id \in Ids(workflow) PROVE id \in SettledIn(BlockedRest)
    <3>1. CASE id \in Settled
      <4>1. id \in SettledIn(results)
        BY <3>1, StatusReads
      <4> QED
        BY <1>9, <1>11, <1>14, <1>15, <4>1, StatusKept DEF R
    <3> QED
      BY <1>16, <3>1
  <2> QED
    BY <2>1, <2>2 DEF SettledIn
<1>20. Pending # {} => \E i \in DOMAIN BlockedRest : BlockedRest[i].status = "blocked"
  <2>1. ASSUME NEW i \in Pending
        PROVE  \E j \in DOMAIN BlockedRest : BlockedRest[j].status = "blocked"
    <3>1. PICK k \in 1..c : at(k) = i
      BY <1>3
    <3>2. n + k \in DOMAIN BlockedRest /\ BlockedRest[n + k].status = "blocked"
      BY <1>7, <1>11
    <3> QED
      BY <3>2
  <2> QED
    BY <2>1
<1> QED
  BY <1>11, <1>14, <1>15, <1>16, <1>17, <1>20 DEF R

-----------------------------------------------------------------------------
(* What the semantic runner is at.  WorkInv: outside a node nothing is     *)
(* submitted or checked; inside, the agent's action is, or a verifier's.   *)
WorkInv ==
  SemanticRuns =>
    /\ cursor \in Nat \ {0} /\ attempt \in Nat
    /\ attempt = 0 => job = Idle /\ checking = NotChecking
    /\ attempt > 0 =>
         /\ cursor \in DOMAIN workflow.nodes /\ Current.id \notin Settled
         /\ ~checking.on => /\ checking = NotChecking
                            /\ job.step # "idle" /\ job.action = AgentAction(Current, attempt)
         /\ checking.on =>
              /\ DOMAIN checking = {"on", "left", "rejected"} /\ checking.left \in Seq(STRING)
              /\ \/ job = Idle
                 \/ /\ job.step # "idle" /\ checking.left # <<>>
                    /\ job.action = VerifierAction(Current, Head(checking.left), attempt)

(* The pieces of an action and of a decision.                              *)
LEMMA ActionParts ==
  /\ \A node, n : /\ AgentAction(node, n).kind = "agent" /\ AgentAction(node, n).key = <<node.id>>
                  /\ AgentAction(node, n).target = node.id /\ AgentAction(node, n).attempt = n
  /\ \A node, v, n : /\ VerifierAction(node, v, n).kind = "verifier"
                     /\ VerifierAction(node, v, n).key = <<node.id, v>>
                     /\ VerifierAction(node, v, n).attempt = n
  /\ Idle.step = "idle" /\ Idle.outcome = "none"
  /\ \A a, b, c : /\ Submitted(a, b, c).step = "deciding" /\ Submitted(a, b, c).action = a
                  /\ Submitted(a, b, c).request = c
  /\ \A x, y, z : <<x>> # <<y, z>> /\ (<<x>> = <<y>> => x = y)
<1>1. \A x, y, z : <<x>> # <<y, z>> /\ (<<x>> = <<y>> => x = y)
  <2>1. \A x, y, z : Len(<<x>>) = 1 /\ Len(<<y, z>>) = 2 /\ <<x>>[1] = x
    OBVIOUS
  <2> QED
    BY <2>1
<1> QED
  BY <1>1 DEF AgentAction, VerifierAction, Idle, Submitted

(* The moves of the runner at work.                                        *)
Elsewhere == UNCHANGED <<mode, workflow, agent, inputsValid, report>>
Settles(status, n) ==
  /\ cursor \in DOMAIN workflow.nodes /\ Current.id \notin Settled
  /\ Settle(status, n) /\ attempt' = 0 /\ job' = Idle /\ checking' = NotChecking
  /\ UNCHANGED <<runStatus, executed>>
Blocks ==
  /\ Settles("blocked", 0) /\ attempt = 0 /\ ~Stopped /\ DependencyState(Current) = "blocked"
  /\ UNCHANGED <<log, diagnostics>>
Skips ==
  /\ Settles("skipped", 0) /\ attempt = 0 /\ ~Stopped /\ DependencyState(Current) = "ready"
  /\ UNCHANGED <<log, diagnostics>>
Fails ==
  /\ attempt > 0 /\ Settles("failed", attempt) /\ UNCHANGED log
  /\ \E code : diagnostics' = diagnostics \cup {code}
Completes ==
  /\ attempt > 0 /\ Settles("completed", attempt) /\ UNCHANGED diagnostics
  /\ checking.on /\ checking.left = <<>> /\ ~checking.rejected
  /\ log' = Append(log, [RunEvent("decision.recorded", Latest) EXCEPT
                           !.key = <<Current.id>>, !.value = "completed"])
Asks ==
  /\ cursor \in DOMAIN workflow.nodes /\ Current.id \notin Settled
  /\ attempt = 0 => ~Stopped /\ DependencyState(Current) = "ready"
  /\ attempt < Current.attempts /\ attempt' = attempt + 1 /\ checking' = NotChecking
  /\ job' = Submitted(AgentAction(Current, attempt + 1), Current.needsApproval, 0)
  /\ UNCHANGED <<runStatus, log, executed, results, cursor, progressed, diagnostics>>
TakesAnswer ==
  /\ attempt > 0 /\ ~checking.on /\ job.step = "returned" /\ job.outcome \in {"good", "bad"}
  /\ checking' = [on |-> TRUE, left |-> Current.verifiers, rejected |-> job.outcome = "bad"]
  /\ job' = Idle
  /\ UNCHANGED <<runStatus, log, executed, results, cursor, progressed, attempt, diagnostics>>
Checks ==
  /\ CheckNext \/ VerifierAnswered
  /\ attempt > 0 /\ checking.on /\ checking.left # <<>>
Works ==
  \/ RecordDecision /\ UNCHANGED semanticVars
  \/ OperateSemantic

(* Every step of the runner at work is one of them, or an action of its own*)
(* that moves over the document or ends the run.                           *)
LEMMA SemanticMoves ==
  ASSUME WorkInv, SemanticRuns, workflow \in Workflow, SemanticStep, UNCHANGED mode
  PROVE  \/ PassOver \/ EndPass \/ StopRest \/ Finish \/ Works
         \/ Elsewhere /\ (Blocks \/ Skips \/ Fails \/ Completes \/ Asks \/ TakesAnswer)
         \/ Checks
<1>0. /\ cursor \in Nat \ {0} /\ attempt \in Nat
      /\ attempt = 0 => job = Idle /\ checking = NotChecking
      /\ attempt > 0 =>
           /\ cursor \in DOMAIN workflow.nodes /\ Current.id \notin Settled
           /\ ~checking.on => checking = NotChecking /\ job.action.kind = "agent"
           /\ checking.on =>
                \/ job = Idle
                \/ checking.left # <<>> /\ job.action.kind = "verifier"
      /\ runStatus = "running" /\ ~NotChecking.on /\ (job = Idle => job.step = "idle")
      /\ attempt # 0 => attempt > 0
  BY ActionParts DEF WorkInv, NotChecking, SemanticRuns
<1>1. DOMAIN workflow.nodes = 1..Len(workflow.nodes) /\ Len(workflow.nodes) \in Nat
  BY DEF Workflow
<1>2. CASE StartSemantic
  <2>1. runStatus = "none"
    BY <1>2 DEF StartSemantic, StartRun, FailAtStart
  <2> QED
    BY <1>0, <2>1
<1>3. CASE BlockOrSkip
  <2>1. cursor \in DOMAIN workflow.nodes /\ Current.id \notin Settled /\ attempt = 0 /\ ~Stopped
    BY <1>0, <1>1, <1>3 DEF BlockOrSkip, Visiting, Scheduling
  <2>2. /\ Elsewhere /\ UNCHANGED <<runStatus, executed, log, job, attempt, checking, diagnostics>>
        /\ job = Idle /\ checking = NotChecking
    BY <1>0, <1>3, <2>1 DEF BlockOrSkip, policyVars, Elsewhere
  <2> QED
    BY <1>3, <2>1, <2>2 DEF BlockOrSkip, Blocks, Skips, Settles
<1>4. CASE BeginNode
  <2>1. cursor \in DOMAIN workflow.nodes /\ Current.id \notin Settled /\ attempt = 0 /\ ~Stopped
    BY <1>0, <1>1, <1>4 DEF BeginNode, Visiting, Scheduling
  <2>2. attempt < Current.attempts
    <3>1. Current \in Node
      BY <2>1 DEF Current, Workflow
    <3>2. Current.attempts \in Nat \ {0}
      BY <3>1 DEF Node
    <3> QED
      BY <2>1, <3>2
  <2> QED
    BY <1>0, <1>4, <2>1, <2>2 DEF BeginNode, Asks, Elsewhere
<1>5. ASSUME TryAgain, attempt > 0, checking' = NotChecking, job.step = "returned" \/ checking.on,
             UNCHANGED <<log, runStatus, executed>>
      PROVE  Fails \/ Asks
  <2>1. CASE attempt < Current.attempts /\ attempt' = attempt + 1
             /\ job' = Submitted(AgentAction(Current, attempt + 1), Current.needsApproval, 0)
             /\ UNCHANGED <<results, cursor, progressed, diagnostics>>
    BY <1>0, <1>5, <2>1 DEF Asks
  <2>2. CASE FailNode("SUCCESS_CONDITION_FAILED")
    BY <1>0, <1>5, <2>2 DEF FailNode, Fails, Settles
  <2> QED
    BY <1>5, <2>1, <2>2 DEF TryAgain
<1>6. CASE AgentAnswered
  <2>1. /\ job.step = "returned" /\ job.action.kind = "agent" /\ Elsewhere
        /\ UNCHANGED <<log, runStatus, executed>>
    BY <1>6 DEF AgentAnswered, Elsewhere
  <2>2. attempt > 0 /\ checking = NotChecking /\ ~checking.on
    BY <1>0, <2>1
  <2>3. CASE FailNode("POLICY_BLOCKED") /\ UNCHANGED checking
    BY <1>0, <2>1, <2>2, <2>3 DEF FailNode, Fails, Settles
  <2>4. CASE TryAgain /\ UNCHANGED checking
    BY <1>5, <2>1, <2>2, <2>4
  <2>5. CASE /\ job.outcome \in {"good", "bad"}
             /\ checking' = [on |-> TRUE, left |-> Current.verifiers,
                             rejected |-> job.outcome = "bad"]
             /\ job' = Idle /\ UNCHANGED <<results, cursor, progressed, attempt, diagnostics>>
    BY <2>1, <2>2, <2>5 DEF TakesAnswer
  <2> QED
    BY <1>6, <2>1, <2>3, <2>4, <2>5 DEF AgentAnswered
<1>7. CASE CheckNext
  <2>1. checking.on /\ checking.left # <<>>
    BY <1>7 DEF CheckNext
  <2>2. attempt > 0
    BY <1>0, <2>1
  <2> QED
    BY <1>7, <2>1, <2>2 DEF Checks
<1>8. CASE VerifierAnswered
  <2>1. job.step = "returned" /\ job.action.kind = "verifier"
    BY <1>8 DEF VerifierAnswered
  <2>2. attempt > 0 /\ checking.on /\ checking.left # <<>>
    BY <1>0, <2>1
  <2> QED
    BY <1>8, <2>2 DEF Checks
<1>9. CASE Conclude
  <2>1. /\ checking.on /\ job.step = "idle" /\ checking.left = <<>> /\ checking' = NotChecking
        /\ Elsewhere /\ UNCHANGED <<runStatus, executed>>
    BY <1>9 DEF Conclude, Elsewhere
  <2>2. attempt > 0 /\ job = Idle
    BY <1>0, <2>1
  <2>3. CASE /\ ~checking.rejected
             /\ log' = Append(log, [RunEvent("decision.recorded", Latest) EXCEPT
                                      !.key = <<Current.id>>, !.value = "completed"])
             /\ Settle("completed", attempt) /\ attempt' = 0 /\ UNCHANGED <<job, diagnostics>>
    BY <1>0, <2>1, <2>2, <2>3 DEF Completes, Settles
  <2>4. CASE TryAgain /\ UNCHANGED log
    BY <1>5, <2>1, <2>2, <2>4
  <2> QED
    BY <1>9, <2>1, <2>3, <2>4 DEF Conclude
<1> QED
  BY <1>2, <1>3, <1>4, <1>6, <1>7, <1>8, <1>9 DEF SemanticStep, Works

(* Each of them is made in a run, and leaves the document alone.           *)
LEMMA MovesStay ==
  ASSUME WorkInv, SemanticRuns, workflow \in Workflow, SemanticStep, UNCHANGED mode
  PROVE  /\ UNCHANGED <<mode, workflow, agent, inputsValid>>
         /\ \/ Finish /\ runStatus' \in {"completed", "failed"}
            \/ UNCHANGED <<runStatus, report>>
<1>1. CASE Finish
  BY <1>1 DEF Finish, EndRun
<1>2. CASE PassOver \/ EndPass \/ StopRest
  BY <1>2 DEF PassOver, EndPass, StopRest, policyVars
<1>3. CASE Works
  BY <1>3 DEF Works, RecordDecision, OperateSemantic, Operate, semanticVars
<1>4. CASE Elsewhere /\ (Blocks \/ Skips \/ Fails \/ Completes \/ Asks \/ TakesAnswer)
  BY <1>4 DEF Elsewhere, Blocks, Skips, Fails, Completes, Asks, TakesAnswer, Settles
<1>5. CASE Checks
  BY <1>5 DEF Checks, CheckNext, VerifierAnswered
<1> QED
  BY <1>1, <1>2, <1>3, <1>4, <1>5, SemanticMoves

(* A run that is over does nothing more.                                   *)
LEMMA RunOver ==
  ASSUME SemanticStep \/ SemanticThrows, runStatus # "running" PROVE StartSemantic
BY DEF SemanticStep, SemanticThrows, StartSemantic, PassOver, BlockOrSkip, BeginNode, Visiting,
       Scheduling, RecordDecision, OperateSemantic, Operate, AgentAnswered, CheckNext,
       VerifierAnswered, Conclude, EndPass, StopRest, Finish, OperationThrows, RecorderRefuses

(* Starting a run: nothing of it has happened, or nothing ever will.       *)
LEMMA StartKeeps ==
  ASSUME RunnerInv, mode = "semantic", StartSemantic, UNCHANGED mode
  PROVE  /\ RunnerInv' /\ Unstarted /\ UNCHANGED <<workflow, executed>> /\ executed = <<>>
         /\ Unstarted' /\ job' = Idle
         /\ Barren' \/ (log' = <<RunEvent("run.started", {})>> /\ report' = NoReport)
<1>1. /\ runStatus = "none" /\ job = Idle /\ executed = <<>> /\ report = NoReport
      /\ UNCHANGED <<job, executed, workflow, results, cursor, progressed, attempt, checking>>
  BY DEF StartSemantic, StartRun, FailAtStart, RunnerInv
<1>2. NoReport.process # "matched" /\ NoReport.result # "equivalent"
  BY DEF NoReport
<1>3. Unstarted
  BY <1>1 DEF RunnerInv
<1>4. Unstarted'
  BY <1>1, <1>3 DEF Unstarted
<1>5. CASE Refusal = "none"
  <2>1. ValidWorkflow(workflow)
    BY <1>5 DEF Refusal
  <2>2. ValidWorkflow(workflow)'
    BY <1>1, <2>1
  <2>3. /\ runStatus' = "running" /\ report' = report
        /\ log' = <<RunEvent("run.started", {})>>
    BY <1>5 DEF StartSemantic, StartRun
  <2> QED
    BY <1>1, <1>3, <1>4, <2>2, <2>3 DEF RunnerInv
<1>6. CASE Refusal # "none"
  <2>1. /\ runStatus' = "failed"
        /\ log' = <<RunEvent("run.started", {}), RunEvent("run.failed", {1})>>
        /\ report' = [process |-> "diverged", result |-> "not_equivalent"]
    BY <1>6 DEF StartSemantic, FailAtStart
  <2>2. \A p \in DOMAIN log' : ~Decided(log'[p])
    <3>1. DOMAIN log' = {1, 2} /\ log'[1] = RunEvent("run.started", {})
          /\ log'[2] = RunEvent("run.failed", {1})
      BY <2>1
    <3> QED
      BY <3>1, EventTypes DEF Decided
  <2>3. Barren'
    BY <1>1, <1>4, <2>1, <2>2 DEF Barren
  <2> QED
    BY <1>1, <1>3, <1>4, <2>1, <2>3 DEF RunnerInv
<1> QED
  BY <1>5, <1>6

(* Every step keeps what is known of the runner.                           *)
LEMMA SemanticKeepsRunner ==
  ASSUME RunnerInv, WorkInv, mode = "semantic", UNCHANGED mode, SemanticStep \/ SemanticThrows
  PROVE  RunnerInv'
<1>1. CASE runStatus # "running"
  BY <1>1, RunOver, StartKeeps
<1>2. CASE SemanticRuns
  <2>1. ValidWorkflow(workflow) /\ report = NoReport /\ workflow \in Workflow
    BY <1>2 DEF RunnerInv, Barren, SemanticRuns
  <2>2. CASE SemanticStep
    <3>1. UNCHANGED workflow /\ runStatus' \in {"running", "completed", "failed"}
          /\ (runStatus' = "running" => report' = report)
      BY <1>2, <2>1, <2>2, MovesStay DEF SemanticRuns
    <3>2. ValidWorkflow(workflow)'
      BY <2>1, <3>1
    <3> QED
      BY <2>1, <3>1, <3>2 DEF RunnerInv
  <2>3. CASE SemanticThrows
    <3>1. UNCHANGED semanticVars /\ runStatus' = "rejected"
      BY <2>3 DEF SemanticThrows, OperationThrows, RecorderRefuses
    <3>2. ValidWorkflow(workflow)' /\ UNCHANGED <<workflow, report>>
      BY <2>1, <3>1 DEF semanticVars
    <3> QED
      BY <2>1, <3>1, <3>2 DEF RunnerInv
  <2> QED
    BY <2>2, <2>3
<1> QED
  BY <1>1, <1>2 DEF SemanticRuns

(* A run that a trace runner goes on with has begun; and one that has not  *)
(* begun or is over only begins.                                           *)
LEMMA TraceRuns ==
  ASSUME MockStep \/ VerifiedStep \/ AppendRefused
  PROVE  /\ runStatus' # "none"
         /\ runStatus # "running" => StartMock \/ StartVerified
<1>1. CASE StartMock \/ StartVerified
  BY <1>1 DEF StartMock, StartVerified, StartRun, RefuseSource, FailAtStart
<1>2. CASE MirrorState \/ MirrorRequest \/ PassEvent \/ SubmitRecorded \/ SubmitLive
  BY <1>2 DEF MirrorState, MirrorRequest, PassEvent, SubmitRecorded, SubmitLive, AtEvent,
              policyVars
<1>3. CASE RecordDecision \/ OperateRecorded \/ OperateLive \/ MockAnswered \/ LiveAnswered
  BY <1>3 DEF RecordDecision, OperateRecorded, OperateLive, Operate, MockAnswered, LiveAnswered
<1>4. CASE FinishMock \/ MirrorThrows \/ FinishVerified \/ AppendRefused
  BY <1>4 DEF FinishMock, MirrorThrows, FinishVerified, AppendRefused, RecorderRefuses, LoopLeft,
              FailMock, EndRun
<1> QED
  BY <1>1, <1>2, <1>3, <1>4 DEF MockStep, VerifiedStep

(* So do the steps of the runners that walk a trace.                       *)
LEMMA TraceKeepsRunner ==
  ASSUME PolicyInv, RunnerInv, mode \in {"mock", "verified"}, UNCHANGED <<mode, semanticVars>>,
         MockStep \/ VerifiedStep \/ AppendRefused
  PROVE  RunnerInv'
<1>1. /\ workflow' = NoWorkflow /\ workflow' \in Workflow /\ Unstarted' /\ report' = NoReport
      /\ mode' \in {"mock", "verified"}
  BY DEF RunnerInv, Unstarted, semanticVars
<1>2. \A p \in DOMAIN log' : Decided(log'[p]) => log'[p].value # "completed"
  BY TraceLogKeeps DEF RunnerInv
<1>3. runStatus' # "none"
  BY TraceRuns
<1> QED
  BY <1>1, <1>2, <1>3 DEF RunnerInv

(* Whatever happens in a session.                                          *)
LEMMA RunnerKept ==
  ASSUME TraceInv, PolicyInv, RunnerInv, WorkInv, [Next]_vars PROVE RunnerInv'
<1>1. CASE NewRunner
  BY <1>1, NewRunnerKeeps
<1>2. CASE mode = "semantic" /\ (SemanticStep \/ SemanticThrows) /\ UNCHANGED mode
  BY <1>2, SemanticKeepsRunner
<1>3. CASE /\ mode \in {"mock", "verified"} /\ UNCHANGED <<mode, semanticVars>>
           /\ MockStep \/ VerifiedStep \/ AppendRefused
  BY <1>3, TraceKeepsRunner
<1>4. CASE UNCHANGED <<mode, policyVars, semanticVars>>
  BY <1>4 DEF RunnerInv, Unstarted, Barren, policyVars, semanticVars
<1> QED
  BY <1>1, <1>2, <1>3, <1>4 DEF Next, RunnerStep, vars

-----------------------------------------------------------------------------
(* LastInv: what has come back is what was executed last.  CheckingInv: the*)
(* agent's answer under check is the last one for this node, and unless it *)
(* is rejected it was good, and every verifier that is not still to be     *)
(* asked has accepted it at this attempt.                                  *)
LastInv ==
  SemanticRuns /\ job.step = "returned" /\ job.outcome # "blocked" =>
    /\ executed # <<>> /\ executed[Len(executed)].action = job.action
    /\ executed[Len(executed)].outcome = job.outcome

Owed(left, v) == \E k \in DOMAIN left : left[k] = v
CheckingInv ==
  SemanticRuns /\ checking.on =>
    \E i \in DOMAIN executed :
      /\ executed[i].action = AgentAction(Current, attempt)
      /\ \A j \in DOMAIN executed : j > i => executed[j].action.key # <<Current.id>>
      /\ ~checking.rejected => executed[i].outcome = "good"
      /\ ~checking.rejected =>
           \A v \in DOMAIN Current.verifiers :
             \/ Owed(checking.left, Current.verifiers[v])
             \/ \E j \in DOMAIN executed :
                  /\ j > i /\ executed[j].action.key = <<Current.id, Current.verifiers[v]>>
                  /\ executed[j].action.attempt = attempt
                  /\ executed[j].outcome = "completed"

(* DoneInv: what the log calls completed has a result.  CountInv: as long  *)
(* as every result is one of a first attempt that completed, the agent has *)
(* run once for every result, in their order, and for the node at work.    *)
Completion(e) == Decided(e) /\ e.value = "completed"
DoneInv ==
  \A p \in DOMAIN log : Completion(log[p]) =>
    \E k \in DOMAIN results : log[p].key = <<results[k].node>>

Ran == attempt > 0 /\ (checking.on \/ (job.step = "returned" /\ job.outcome # "blocked"))
AllFirst == \A i \in DOMAIN results : results[i].status = "completed" /\ results[i].attempts = 1
CountInv ==
  SemanticRuns /\ AllFirst /\ attempt <= 1 =>
    /\ Cardinality(AgentRuns) = Len(results) + (IF Ran THEN 1 ELSE 0)
    /\ \A i \in AgentRuns :
         executed[i].action.target = IF RankIn(AgentRuns, i) <= Len(results)
                                     THEN results[RankIn(AgentRuns, i)].node ELSE Current.id

(* OutcomeInv: without diagnostics no node has failed, and one is blocked  *)
(* only behind others that have settled.  PassInv: what a pass without     *)
(* progress has gone over is settled or waits.                             *)
OutcomeInv ==
  mode = "semantic" /\ diagnostics = {} =>
    \A i \in DOMAIN results :
      /\ results[i].status # "failed"
      /\ results[i].status = "blocked" =>
           \E of \in DependsOn(workflow, results[i].node) : of \in Settled
WaitsFor(node) == \E d \in DOMAIN node.deps : StatusOf(node.deps[d].of) = "open"
PassInv ==
  SemanticRuns /\ ~progressed =>
    \A i \in DOMAIN workflow.nodes : i < cursor =>
      workflow.nodes[i].id \in Settled \/ WaitsFor(workflow.nodes[i])

SemInv ==
  /\ ResultsInv /\ WorkInv /\ LastInv /\ CheckingInv /\ DoneInv /\ CountInv
  /\ OutcomeInv /\ PassInv /\ CompletionVerified /\ ReportMeans

(* All of it holds as long as no document is being worked on.              *)
Quiet ==
  /\ workflow \in Workflow /\ Unstarted
  /\ report.process # "matched" /\ report.result # "equivalent"
  /\ mode = "semantic" => executed = <<>> /\ job = Idle
  /\ \A p \in DOMAIN log : ~Completion(log[p])

(* Nothing that is claimed of the runner needs a document at work.         *)
LEMMA QuietHolds == Quiet => SemInv
<1> SUFFICES ASSUME Quiet PROVE SemInv
  OBVIOUS
<1>0. /\ results = <<>> /\ cursor = 1 /\ attempt = 0 /\ checking = NotChecking
      /\ DOMAIN results = {} /\ Len(results) = 0 /\ ~checking.on
      /\ mode = "semantic" => job = Idle /\ job.step = "idle" /\ AgentRuns = {}
  BY ActionParts DEF Quiet, Unstarted, NotChecking, AgentRuns
<1>1. ResultsInv
  BY <1>0 DEF ResultsInv, Distinct
<1>2. WorkInv
  BY <1>0 DEF WorkInv, SemanticRuns
<1>3. LastInv /\ CheckingInv
  BY <1>0 DEF LastInv, CheckingInv, SemanticRuns
<1>4. DoneInv /\ CompletionVerified /\ ReportMeans
  BY DEF Quiet, DoneInv, CompletionVerified, ReportMeans, Completion, Decided
<1>5. CountInv
  BY <1>0, FS_EmptySet DEF CountInv, SemanticRuns, Ran
<1>6. OutcomeInv /\ PassInv
  <2>1. DOMAIN workflow.nodes = 1..Len(workflow.nodes)
    BY DEF Quiet, Workflow
  <2>2. OutcomeInv
    BY <1>0 DEF OutcomeInv
  <2>3. \A i \in DOMAIN workflow.nodes : ~(i < cursor)
    BY <1>0, <2>1
  <2> QED
    BY <2>2, <2>3 DEF PassInv
<1> QED
  BY <1>1, <1>2, <1>3, <1>4, <1>5, <1>6 DEF SemInv

(* After a step as well.                                                   *)
LEMMA QuietHoldsNext == Quiet' => SemInv'
BY QuietHolds, PTL

-----------------------------------------------------------------------------
(* What the moves of the runner at work do to each part of it.             *)
Work ==
  /\ PolicyInv /\ AuditInv /\ RunnerInv /\ SemInv
  /\ SemanticRuns /\ SemanticStep /\ UNCHANGED mode

(* What is known then.                                                     *)
LEMMA WorkFacts ==
  ASSUME Work
  PROVE  /\ workflow \in Workflow /\ ValidWorkflow(workflow) /\ report = NoReport
         /\ DOMAIN workflow.nodes = 1..Len(workflow.nodes) /\ Len(workflow.nodes) \in Nat
         /\ \A i \in DOMAIN workflow.nodes : workflow.nodes[i] \in Node
         /\ results \in Seq(Result(workflow)) /\ Distinct(results)
         /\ IsSeq(log) /\ IsSeq(executed) /\ JobShape(job)
         /\ mode = "semantic" /\ mode' = "semantic" /\ runStatus = "running"
         /\ workflow' = workflow
         /\ Ids(workflow)' = Ids(workflow) /\ Result(workflow)' = Result(workflow)
<1>1. /\ workflow \in Workflow /\ ValidWorkflow(workflow) /\ report = NoReport
      /\ mode = "semantic" /\ mode' = "semantic" /\ runStatus = "running"
  BY DEF Work, RunnerInv, SemanticRuns, Barren
<1>2. workflow' = workflow
  BY <1>1, MovesStay DEF Work, SemInv
<1>3. workflow.nodes \in Seq(Node)
  BY <1>1 DEF Workflow
<1>4. /\ DOMAIN workflow.nodes = 1..Len(workflow.nodes) /\ Len(workflow.nodes) \in Nat
      /\ \A i \in DOMAIN workflow.nodes : workflow.nodes[i] \in Node
  BY <1>3
<1>5. results \in Seq(Result(workflow)) /\ Distinct(results)
  BY DEF Work, SemInv, ResultsInv
<1>6. IsSeq(log) /\ IsSeq(executed) /\ JobShape(job)
  BY DEF Work, PolicyInv
<1>7. Ids(workflow)' = Ids(workflow) /\ Result(workflow)' = Result(workflow)
  BY <1>2
<1> QED
  BY <1>1, <1>2, <1>4, <1>5, <1>6, <1>7

(* The moves, and where they are made.                                     *)
LEMMA WorkMoves ==
  ASSUME Work
  PROVE  /\ \/ PassOver \/ EndPass \/ StopRest \/ Finish \/ Works
            \/ Elsewhere /\ (Blocks \/ Skips \/ Fails \/ Completes \/ Asks \/ TakesAnswer)
            \/ Checks
         /\ \/ Finish /\ runStatus' \in {"completed", "failed"}
            \/ UNCHANGED <<runStatus, report>>
BY WorkFacts, SemanticMoves, MovesStay DEF Work, SemInv

(* What a node at work or a pass is at.                                    *)
LEMMA WorkStands ==
  ASSUME Work
  PROVE  /\ cursor \in Nat \ {0} /\ attempt \in Nat
         /\ attempt = 0 => job = Idle /\ checking = NotChecking /\ job.step = "idle" /\ ~checking.on
         /\ attempt > 0 =>
              /\ cursor \in DOMAIN workflow.nodes /\ Current.id \notin Settled
              /\ Current \in Node /\ Current.id \in Ids(workflow)
              /\ ~checking.on => /\ checking = NotChecking
                                 /\ job.step # "idle" /\ job.action = AgentAction(Current, attempt)
              /\ checking.on =>
                   /\ DOMAIN checking = {"on", "left", "rejected"} /\ checking.left \in Seq(STRING)
                   /\ \/ job = Idle
                      \/ /\ job.step # "idle" /\ checking.left # <<>>
                         /\ job.action = VerifierAction(Current, Head(checking.left), attempt)
<1>1. SemanticRuns /\ WorkInv
  BY DEF Work, SemInv
<1>2. attempt > 0 => Current \in Node /\ Current.id \in Ids(workflow)
  BY <1>1, WorkFacts DEF WorkInv, Current, Ids
<1>3. ~NotChecking.on
  BY DEF NotChecking
<1> QED
  BY <1>1, <1>2, <1>3, ActionParts DEF WorkInv

(* The agent's actions are the same afterwards.                            *)
LEMMA ActionsStay ==
  ASSUME Work
  PROVE  workflow' = workflow /\ \A node, n : AgentAction(node, n)' = AgentAction(node, n)
<1>1. workflow' = workflow /\ agent' = agent
  BY WorkFacts, MovesStay DEF Work, SemInv
<1> QED
  BY <1>1 DEF AgentAction

(* A node that settles.                                                    *)
LEMMA SettlesFacts ==
  ASSUME Work, NEW status \in Statuses, NEW n \in Nat, Settles(status, n)
  PROVE  /\ results' \in Seq(Result(workflow)) /\ Distinct(results') /\ Extends(results, results')
         /\ Len(results') = Len(results) + 1 /\ Len(results) \in Nat
         /\ DOMAIN results' = 1..(Len(results) + 1) /\ DOMAIN results = 1..Len(results)
         /\ results'[Len(results) + 1] = [node |-> Current.id, status |-> status, attempts |-> n]
         /\ \A i \in 1..Len(results) : results'[i] = results[i]
         /\ Settled' = Settled \cup {Current.id}
         /\ \A id : StatusOf(id)' = IF id = Current.id THEN status ELSE StatusOf(id)
         /\ Current.id \in Ids(workflow) /\ Current.id \notin Settled
         /\ cursor \in DOMAIN workflow.nodes /\ cursor \in Nat /\ cursor' = cursor + 1
<1> DEFINE e == [node |-> Current.id, status |-> status, attempts |-> n]
<1>1. /\ cursor \in DOMAIN workflow.nodes /\ cursor' = cursor + 1 /\ Current.id \notin Settled
      /\ results' = Append(results, e)
  BY DEF Settles, Settle
<1>2. Current.id \in Ids(workflow) /\ cursor \in Nat
  BY <1>1, WorkFacts DEF Ids, Current
<1>3. e \in Result(workflow) /\ e.node = Current.id /\ e.status = status
  BY <1>2 DEF Result
<1>4. e.node \notin SettledIn(results)
  BY <1>1, <1>3, StatusReads
<1> HIDE DEF e
<1>5. results \in Seq(Result(workflow)) /\ Distinct(results)
  BY WorkFacts
<1>6. /\ results' \in Seq(Result(workflow)) /\ Distinct(results') /\ Extends(results, results')
      /\ SettledIn(results') = SettledIn(results) \cup {e.node}
      /\ \A id : StatusIn(results', id) = IF id = e.node THEN e.status ELSE StatusIn(results, id)
  BY <1>1, <1>3, <1>4, <1>5, StatusAppended
<1>7. /\ Len(results') = Len(results) + 1 /\ Len(results) \in Nat
      /\ DOMAIN results' = 1..(Len(results) + 1) /\ DOMAIN results = 1..Len(results)
      /\ results'[Len(results) + 1] = e /\ \A i \in 1..Len(results) : results'[i] = results[i]
  BY <1>1, <1>3, <1>5
<1> QED
  BY <1>1, <1>2, <1>3, <1>6, <1>7, StatusReads DEF e

(* Results are those of nodes of the document, one each, and only added to.*)
LEMMA ResultsMove ==
  ASSUME Work
  PROVE  /\ results' \in Seq(Result(workflow)) /\ Distinct(results') /\ Extends(results, results')
         /\ \/ UNCHANGED results
            \/ results' = BlockedRest /\ Scheduling /\ Pending # {} /\ (EndPass \/ StopRest)
            \/ Elsewhere /\ (Blocks \/ Skips \/ Fails \/ Completes)
<1>1. results \in Seq(Result(workflow)) /\ Distinct(results) /\ Extends(results, results)
  BY WorkFacts, SeqFacts DEF IsSeq
<1>2. CASE UNCHANGED results
  BY <1>1, <1>2
<1>3. CASE results' = BlockedRest /\ Scheduling /\ Pending # {} /\ (EndPass \/ StopRest)
  <2>1. ResultsInv
    BY DEF Work, SemInv
  <2>2. /\ BlockedRest \in Seq(Result(workflow)) /\ Distinct(BlockedRest)
        /\ Extends(results, BlockedRest)
    BY <2>1, WorkFacts, RestBlocked
  <2> HIDE DEF BlockedRest
  <2> QED
    BY <1>3, <2>2
<1>4. ASSUME Elsewhere, Blocks \/ Skips \/ Fails \/ Completes
      PROVE  results' \in Seq(Result(workflow)) /\ Distinct(results') /\ Extends(results, results')
  <2>1. PICK status \in Statuses, n \in Nat : Settles(status, n)
    <3>1. /\ "blocked" \in Statuses /\ "skipped" \in Statuses
          /\ "failed" \in Statuses /\ "completed" \in Statuses
      BY DEF Statuses
    <3> QED
      BY <1>4, <3>1, WorkStands DEF Blocks, Skips, Fails, Completes
  <2> QED
    BY <2>1, SettlesFacts
<1>5. CASE PassOver \/ Finish \/ Works \/ Checks \/ Asks \/ TakesAnswer
  <2>1. UNCHANGED results
    BY <1>5 DEF PassOver, Finish, Works, OperateSemantic, semanticVars, Checks, CheckNext,
                VerifierAnswered, Asks, TakesAnswer
  <2> QED
    BY <1>2, <2>1
<1>6. CASE EndPass \/ StopRest
  <2>1. UNCHANGED results \/ (results' = BlockedRest /\ Scheduling /\ Pending # {})
    BY <1>6 DEF EndPass, StopRest
  <2> QED
    BY <1>2, <1>3, <1>6, <2>1
<1> QED
  BY <1>4, <1>5, <1>6, WorkMoves

(* ResultsInv is kept.                                                     *)
LEMMA ResultsKept == ASSUME Work PROVE ResultsInv'
BY ResultsMove, WorkFacts DEF ResultsInv, Distinct

(* What has settled before has settled after, the same way.                *)
LEMMA SettledKept ==
  ASSUME Work
  PROVE  /\ \A id \in Settled : id \in Settled' /\ StatusOf(id)' = StatusOf(id)
         /\ \A i \in DOMAIN results : i \in DOMAIN results' /\ results'[i] = results[i]
         /\ \A id : id \in Settled <=> StatusOf(id) # "open"
         /\ \A id : id \in Settled' <=> StatusOf(id)' # "open"
         /\ DOMAIN results = 1..Len(results) /\ Len(results) \in Nat
<1>1. /\ results \in Seq(Result(workflow)) /\ Distinct(results)
      /\ results' \in Seq(Result(workflow)) /\ Distinct(results') /\ Extends(results, results')
  BY ResultsMove, WorkFacts
<1>2. /\ SettledIn(results) \subseteq SettledIn(results')
      /\ \A id \in SettledIn(results) : StatusIn(results', id) = StatusIn(results, id)
      /\ \A i \in DOMAIN results : i \in DOMAIN results' /\ results'[i] = results[i]
  BY <1>1, StatusKept
<1>3. \A id : id \in SettledIn(results) <=> StatusIn(results, id) # "open"
  BY <1>1, StatusFacts
<1>4. \A id : id \in SettledIn(results') <=> StatusIn(results', id) # "open"
  BY <1>1, StatusFacts
<1> QED
  BY <1>1, <1>2, <1>3, <1>4, StatusReads

(* WorkInv is kept.                                                        *)
LEMMA WorkKept == ASSUME Work PROVE WorkInv'
<1> SUFFICES ASSUME SemanticRuns' PROVE WorkInv'
  BY DEF WorkInv
<1>0. runStatus' = "running" /\ ~Finish
  BY DEF SemanticRuns, Finish, EndRun
<1>1. workflow' = workflow /\ \A node, n : AgentAction(node, n)' = AgentAction(node, n)
  BY ActionsStay
<1>2. ASSUME attempt' = 0, job' = Idle, checking' = NotChecking, cursor' \in Nat \ {0}
      PROVE  WorkInv'
  BY <1>2 DEF WorkInv
<1>3. CASE PassOver \/ EndPass \/ StopRest
  <2>1. attempt = 0 /\ UNCHANGED <<attempt, job, checking>> /\ cursor' \in Nat \ {0}
    BY <1>3, WorkStands DEF PassOver, EndPass, StopRest, Scheduling, policyVars
  <2> QED
    BY <1>2, <2>1, WorkStands
<1>4. CASE Blocks \/ Skips \/ Fails \/ Completes
  <2>1. attempt' = 0 /\ job' = Idle /\ checking' = NotChecking /\ cursor' = cursor + 1
    BY <1>4 DEF Blocks, Skips, Fails, Completes, Settles, Settle
  <2> QED
    BY <1>2, <2>1, WorkStands
<1>5. CASE Asks
  <2>1. /\ attempt' = attempt + 1 /\ attempt' \in Nat /\ attempt' > 0 /\ checking' = NotChecking
        /\ cursor' = cursor /\ results' = results /\ workflow' = workflow
        /\ job'.step # "idle" /\ job'.action = AgentAction(Current, attempt')
        /\ cursor \in DOMAIN workflow.nodes /\ Current.id \notin Settled
    BY <1>5, WorkStands, WorkFacts, ActionParts DEF Asks
  <2>2. Current' = Current /\ Settled' = Settled
    BY <2>1 DEF Current, Settled
  <2>3. ~checking'.on
    BY <2>1 DEF NotChecking
  <2>4. AgentAction(Current, attempt)' = AgentAction(Current, attempt')
    BY <1>1, <2>2
  <2> QED
    BY <2>1, <2>2, <2>3, <2>4, WorkStands DEF WorkInv
<1>6. ASSUME attempt > 0, UNCHANGED <<cursor, attempt, results, workflow>>,
             ~checking'.on => /\ checking' = NotChecking
                              /\ job'.step # "idle" /\ job'.action = AgentAction(Current, attempt),
             checking'.on =>
                /\ DOMAIN checking' = {"on", "left", "rejected"}
                /\ checking'.left \in Seq(STRING)
                /\ \/ job' = Idle
                   \/ /\ job'.step # "idle" /\ checking'.left # <<>>
                      /\ job'.action = VerifierAction(Current, Head(checking'.left), attempt)
      PROVE  WorkInv'
  <2>1. Current' = Current /\ Settled' = Settled
    BY <1>6 DEF Current, Settled
  <2>2. /\ AgentAction(Current, attempt)' = AgentAction(Current, attempt)
        /\ VerifierAction(Current, Head(checking.left), attempt)'
             = VerifierAction(Current, Head(checking'.left), attempt)
    BY <1>1, <1>6, <2>1 DEF VerifierAction
  <2> QED
    BY <1>6, <2>1, <2>2, WorkStands DEF WorkInv
<1>7. CASE TakesAnswer
  <2>1. /\ attempt > 0 /\ UNCHANGED <<cursor, attempt, results, workflow>> /\ job' = Idle
        /\ checking'.on = TRUE /\ checking'.left = Current.verifiers
        /\ DOMAIN checking' = {"on", "left", "rejected"}
    BY <1>7, WorkFacts DEF TakesAnswer
  <2>2. Current.verifiers \in Seq(STRING)
    BY <2>1, WorkStands DEF Node
  <2> QED
    BY <1>6, <2>1, <2>2
<1>8. CASE Checks
  <2>1. /\ attempt > 0 /\ checking.on /\ checking.left # <<>> /\ checking.left \in Seq(STRING)
        /\ UNCHANGED <<cursor, attempt, results, workflow>>
        /\ DOMAIN checking = {"on", "left", "rejected"}
    BY <1>8, WorkStands, WorkFacts DEF Checks, CheckNext, VerifierAnswered
  <2>2. Tail(checking.left) \in Seq(STRING)
    BY <2>1, HeadTailProperties
  <2>3. CASE /\ UNCHANGED checking
             /\ job' = Submitted(VerifierAction(Current, Head(checking.left), attempt), FALSE, 0)
    <3>1. /\ checking'.on /\ checking'.left = checking.left
          /\ DOMAIN checking' = {"on", "left", "rejected"}
          /\ job'.step = "deciding"
          /\ job'.action = VerifierAction(Current, Head(checking.left), attempt)
      BY <2>1, <2>3 DEF Submitted
    <3> QED
      BY <1>6, <2>1, <3>1
  <2>4. CASE /\ checking' = [checking EXCEPT !.left = Tail(checking.left), !.rejected = TRUE]
             /\ UNCHANGED job /\ job.step = "idle"
    <3>1. job = Idle
      BY <2>1, <2>4, WorkStands
    <3>2. /\ checking'.on /\ checking'.left = Tail(checking.left)
          /\ DOMAIN checking' = {"on", "left", "rejected"}
      BY <2>1, <2>4
    <3> QED
      BY <1>6, <2>1, <2>2, <2>4, <3>1, <3>2
  <2>5. CASE /\ job' = Idle
             /\ checking' = [checking EXCEPT !.left = Tail(checking.left),
                               !.rejected = checking.rejected \/ job.outcome # "completed"]
    <3>1. /\ checking'.on /\ checking'.left = Tail(checking.left)
          /\ DOMAIN checking' = {"on", "left", "rejected"}
      BY <2>1, <2>5
    <3> QED
      BY <1>6, <2>1, <2>2, <2>5, <3>1
  <2> QED
    BY <1>8, <2>3, <2>4, <2>5 DEF Checks, CheckNext, VerifierAnswered
<1>9. CASE Works
  <2>1. /\ UNCHANGED <<cursor, attempt, results, workflow, checking>>
        /\ job'.action = job.action /\ job'.step # "idle" /\ job.step # "idle"
    <3>1. CASE RecordDecision /\ UNCHANGED semanticVars
      <4>1. /\ UNCHANGED semanticVars
            /\ \/ job' = [job EXCEPT !.step = "operating"]
               \/ job' = [job EXCEPT !.step = "returned", !.outcome = "blocked"]
            /\ job.step = "deciding"
        BY <3>1, Zenon DEF RecordDecision
      <4>2. JobShape(job)
        BY WorkFacts
      <4>3. job'.action = job.action /\ job'.step # "idle" /\ job.step # "idle"
        BY <4>1, <4>2 DEF JobShape
      <4>4. UNCHANGED <<cursor, attempt, results, workflow, checking>>
        BY <4>1 DEF semanticVars
      <4> QED
        BY <4>3, <4>4
    <3>2. CASE OperateSemantic
      <4>1. PICK outcome : job' = [job EXCEPT !.step = "returned", !.outcome = outcome]
        BY <3>2, Zenon DEF OperateSemantic, Operate
      <4> QED
        <5>1. JobShape(job)
          BY WorkFacts
        <5>2. job'.action = job.action /\ job'.step # "idle" /\ job.step # "idle"
          BY <3>2, <4>1, <5>1 DEF JobShape, OperateSemantic, Operate
        <5>3. UNCHANGED <<cursor, attempt, results, workflow, checking>>
          BY <3>2 DEF OperateSemantic, semanticVars
        <5> QED
          BY <5>2, <5>3
    <3> QED
      BY <1>9, <3>1, <3>2 DEF Works
  <2>2. attempt > 0
    BY <2>1, WorkStands
  <2>3. job # Idle
    BY <2>1, ActionParts
  <2> QED
    BY <1>6, <2>1, <2>2, <2>3, WorkStands
<1> QED
  BY <1>0, <1>3, <1>4, <1>5, <1>7, <1>8, <1>9, WorkMoves

(* What has been executed stays so, and what comes back has been.          *)
LEMMA ExecutedMove ==
  ASSUME Work
  PROVE  /\ DOMAIN executed = 1..Len(executed) /\ Len(executed) \in Nat
         /\ \/ UNCHANGED executed /\ ~OperateSemantic
            \/ /\ OperateSemantic /\ job.step = "operating" /\ attempt > 0
               /\ DOMAIN executed' = 1..(Len(executed) + 1) /\ Len(executed') = Len(executed) + 1
               /\ executed'[Len(executed) + 1].action = job.action
               /\ executed'[Len(executed) + 1].after = Len(log)
               /\ executed'[Len(executed) + 1].outcome = job'.outcome
               /\ \A i \in 1..Len(executed) : executed'[i] = executed[i]
               /\ job'.action = job.action /\ job'.step = "returned"
               /\ UNCHANGED semanticVars /\ log' = log
               /\ job.action.kind = "agent" =>
                    job'.outcome \in {"good", "bad", "failed", "undefined"}
               /\ job.action.kind # "agent" => job'.outcome \in {"completed", "failed"}
<1>1. DOMAIN executed = 1..Len(executed) /\ Len(executed) \in Nat
  BY WorkFacts, SeqFacts
<1>2. CASE OperateSemantic
  <2>1. PICK outcome \in (IF job.action.kind = "agent"
                          THEN {"good", "bad", "failed", "undefined"}
                          ELSE {"completed", "failed"}) :
          /\ executed' = Append(executed, Execution(outcome))
          /\ job' = [job EXCEPT !.step = "returned", !.outcome = outcome]
    BY <1>2, Zenon DEF OperateSemantic, Operate
  <2>2. /\ job.step = "operating"
        /\ UNCHANGED semanticVars /\ log' = log
    BY <1>2 DEF OperateSemantic, Operate
  <2>3. /\ Execution(outcome).action = job.action /\ Execution(outcome).after = Len(log)
        /\ Execution(outcome).outcome = outcome
    BY DEF Execution
  <2>4. /\ DOMAIN executed' = 1..(Len(executed) + 1) /\ Len(executed') = Len(executed) + 1
        /\ executed'[Len(executed) + 1] = Execution(outcome)
        /\ \A i \in 1..Len(executed) : executed'[i] = executed[i]
    BY <1>1, <2>1, WorkFacts, AppendFacts, SeqFacts DEF Extends
  <2>5. job'.action = job.action /\ job'.step = "returned" /\ job'.outcome = outcome
    BY <2>1, WorkFacts DEF JobShape
  <2>6. attempt > 0
    BY <2>2, WorkStands
  <2> QED
    BY <1>1, <1>2, <2>1, <2>2, <2>3, <2>4, <2>5, <2>6
<1>3. CASE ~OperateSemantic
  <2>1. UNCHANGED executed
    BY <1>3, WorkMoves DEF PassOver, EndPass, StopRest, Finish, policyVars, Works, RecordDecision,
       Blocks, Skips, Fails, Completes, Asks, TakesAnswer, Settles, Checks, CheckNext,
       VerifierAnswered
  <2> QED
    BY <1>1, <1>3, <2>1
<1> QED
  BY <1>2, <1>3

(* LastInv is kept.                                                        *)
LEMMA LastKept == ASSUME Work PROVE LastInv'
<1>1. CASE OperateSemantic
  <2>1. /\ Len(executed') = Len(executed) + 1 /\ Len(executed) \in Nat
        /\ executed'[Len(executed) + 1].action = job.action /\ job'.action = job.action
        /\ executed'[Len(executed) + 1].outcome = job'.outcome
    BY <1>1, ExecutedMove
  <2>2. executed' # <<>>
    <3>1. Len(<<>>) = 0
      OBVIOUS
    <3> QED
      BY <2>1, <3>1
  <2> QED
    BY <2>1, <2>2 DEF LastInv
<1>2. CASE UNCHANGED <<executed, job>>
  BY <1>2, WorkFacts DEF LastInv, Work, SemInv, SemanticRuns
<1>3. CASE job'.step # "returned" \/ job'.outcome = "blocked"
  BY <1>3 DEF LastInv
<1>4. UNCHANGED executed \/ OperateSemantic
  BY ExecutedMove
<1>5. OperateSemantic \/ UNCHANGED job \/ job'.step # "returned" \/ job'.outcome = "blocked"
  <2>1. CASE RecordDecision
    BY <2>1, WorkFacts DEF RecordDecision, JobShape
  <2>2. CASE PassOver \/ EndPass \/ StopRest \/ Finish
    BY <2>2 DEF PassOver, EndPass, StopRest, Finish, policyVars
  <2>3. CASE Blocks \/ Skips \/ Fails \/ Completes \/ TakesAnswer
    BY <2>3, ActionParts DEF Blocks, Skips, Fails, Completes, TakesAnswer, Settles
  <2>4. CASE Asks \/ Checks
    BY <2>4, ActionParts DEF Asks, Checks, CheckNext, VerifierAnswered, Submitted
  <2> QED
    BY <2>1, <2>2, <2>3, <2>4, WorkMoves DEF Works
<1> QED
  BY <1>1, <1>2, <1>3, <1>4, <1>5

(* CheckingInv is kept.                                                    *)
LEMMA CheckingKept == ASSUME Work PROVE CheckingInv'
<1> SUFFICES ASSUME SemanticRuns', checking'.on PROVE CheckingInv'
  BY DEF CheckingInv
<1> DEFINE n == Len(executed)
<1>0. /\ n \in Nat /\ DOMAIN executed = 1..n /\ SemanticRuns
      /\ workflow' = workflow /\ \A node, k : AgentAction(node, k)' = AgentAction(node, k)
      /\ attempt \in Nat
  BY ExecutedMove, ActionsStay, WorkStands DEF Work
<1>1. CASE TakesAnswer
  <2>1. /\ ~checking.on /\ job.step = "returned" /\ job.outcome \in {"good", "bad"}
        /\ UNCHANGED <<executed, cursor, attempt>> /\ attempt > 0
        /\ checking' = [on |-> TRUE, left |-> Current.verifiers, rejected |-> job.outcome = "bad"]
    BY <1>1 DEF TakesAnswer
  <2>2. job.action = AgentAction(Current, attempt) /\ Current' = Current
    BY <1>0, <2>1, WorkStands DEF Current
  <2>3. executed # <<>> /\ executed[n].action = job.action /\ executed[n].outcome = job.outcome
    BY <1>0, <2>1 DEF Work, SemInv, LastInv
  <2>4. n \in DOMAIN executed /\ \A j \in DOMAIN executed : ~(j > n)
    BY <1>0, <2>3, WorkFacts DEF IsSeq
  <2>5. /\ \A v \in DOMAIN Current.verifiers : Owed(checking'.left, Current.verifiers[v])
        /\ ~checking'.rejected => executed[n].outcome = "good"
    BY <2>1, <2>3 DEF Owed
  <2> HIDE DEF n
  <2> QED
    BY <1>0, <2>1, <2>2, <2>3, <2>4, <2>5 DEF CheckingInv
<1>2. ASSUME checking.on, UNCHANGED <<cursor, attempt>>, ~checking'.rejected => ~checking.rejected,
             \A i \in DOMAIN executed : i \in DOMAIN executed' /\ executed'[i] = executed[i],
             DOMAIN executed' \subseteq Nat,
             \A j \in DOMAIN executed' : j \notin DOMAIN executed =>
                                           executed'[j].action.key # <<Current.id>>,
             ~checking'.rejected =>
               \A v, i : /\ Owed(checking.left, v) /\ i \in DOMAIN executed
                         /\ executed[i].action = AgentAction(Current, attempt)
                 => \/ Owed(checking'.left, v)
                    \/ \E j \in DOMAIN executed' :
                         /\ j > i /\ executed'[j].action.key = <<Current.id, v>>
                         /\ executed'[j].action.attempt = attempt
                         /\ executed'[j].outcome = "completed"
      PROVE  CheckingInv'
  <2>1. Current' = Current
    BY <1>0, <1>2 DEF Current
  <2>2. PICK i \in DOMAIN executed :
          /\ executed[i].action = AgentAction(Current, attempt)
          /\ \A j \in DOMAIN executed : j > i => executed[j].action.key # <<Current.id>>
          /\ ~checking.rejected => executed[i].outcome = "good"
          /\ ~checking.rejected =>
               \A v \in DOMAIN Current.verifiers :
                 \/ Owed(checking.left, Current.verifiers[v])
                 \/ \E j \in DOMAIN executed :
                      /\ j > i /\ executed[j].action.key = <<Current.id, Current.verifiers[v]>>
                      /\ executed[j].action.attempt = attempt
                      /\ executed[j].outcome = "completed"
    BY <1>0, <1>2 DEF Work, SemInv, CheckingInv
  <2>3. /\ i \in DOMAIN executed' /\ executed'[i].action = AgentAction(Current, attempt)
        /\ \A j \in DOMAIN executed' : j > i => executed'[j].action.key # <<Current.id>>
        /\ ~checking'.rejected => executed'[i].outcome = "good"
    BY <1>2, <2>2
  <2>4. ASSUME ~checking'.rejected, NEW v \in DOMAIN Current.verifiers
        PROVE  \/ Owed(checking'.left, Current.verifiers[v])
               \/ \E j \in DOMAIN executed' :
                    /\ j > i /\ executed'[j].action.key = <<Current.id, Current.verifiers[v]>>
                    /\ executed'[j].action.attempt = attempt
                    /\ executed'[j].outcome = "completed"
    <3>1. CASE Owed(checking.left, Current.verifiers[v])
      <4>1. \A w, k : /\ Owed(checking.left, w) /\ k \in DOMAIN executed
                     /\ executed[k].action = AgentAction(Current, attempt)
              => \/ Owed(checking'.left, w)
                 \/ \E j \in DOMAIN executed' :
                      /\ j > k /\ executed'[j].action.key = <<Current.id, w>>
                      /\ executed'[j].action.attempt = attempt
                      /\ executed'[j].outcome = "completed"
        BY <1>2, <2>4
      <4>2. i \in DOMAIN executed /\ executed[i].action = AgentAction(Current, attempt)
        BY <2>2
      <4> QED
        BY <3>1, <4>1, <4>2, Zenon
    <3>2. CASE \E j \in DOMAIN executed :
                 /\ j > i /\ executed[j].action.key = <<Current.id, Current.verifiers[v]>>
                 /\ executed[j].action.attempt = attempt
                 /\ executed[j].outcome = "completed"
      BY <1>2, <3>2
    <3>3. ~checking.rejected
      BY <1>2, <2>4
    <3>4. \/ Owed(checking.left, Current.verifiers[v])
          \/ \E j \in DOMAIN executed :
               /\ j > i /\ executed[j].action.key = <<Current.id, Current.verifiers[v]>>
               /\ executed[j].action.attempt = attempt
               /\ executed[j].outcome = "completed"
      BY <2>2, <3>3
    <3> QED
      BY <3>1, <3>2, <3>4, Zenon
  <2>5. AgentAction(Current, attempt)' = AgentAction(Current, attempt)
    BY <1>0, <1>2, <2>1
  <2> QED
    BY <1>2, <2>1, <2>3, <2>4, <2>5, ZenonT(60) DEF CheckingInv
<1>3. ASSUME UNCHANGED executed
      PROVE  /\ \A i \in DOMAIN executed : i \in DOMAIN executed' /\ executed'[i] = executed[i]
             /\ DOMAIN executed' \subseteq Nat
             /\ \A j \in DOMAIN executed' : j \notin DOMAIN executed =>
                                           executed'[j].action.key # <<Current.id>>
  BY <1>0, <1>3
<1>4. CASE OperateSemantic
  <2>1. /\ DOMAIN executed' = 1..(n + 1) /\ executed'[n + 1].action = job.action
        /\ \A i \in 1..n : executed'[i] = executed[i]
        /\ UNCHANGED <<cursor, attempt, checking>> /\ attempt > 0 /\ job.step = "operating"
    BY <1>4, ExecutedMove DEF semanticVars
  <2>2. job.action = VerifierAction(Current, Head(checking.left), attempt)
    BY <2>1, WorkStands, ActionParts
  <2>3. job.action.key # <<Current.id>>
    BY <2>2, ActionParts
  <2> QED
    BY <1>0, <1>2, <2>1, <2>3
<1>5. CASE CheckNext /\ checking.on
  <2>1. /\ UNCHANGED <<executed, cursor, attempt>>
        /\ UNCHANGED checking \/ checking' = [checking EXCEPT !.left = Tail(checking.left),
                                                !.rejected = TRUE]
    BY <1>5 DEF CheckNext
  <2>2. CASE UNCHANGED checking
    BY <1>2, <1>3, <1>5, <2>1, <2>2
  <2>3. CASE checking'.rejected
    BY <1>2, <1>3, <1>5, <2>1, <2>3
  <2>4. "rejected" \in DOMAIN checking
    BY <1>5, WorkStands
  <2> QED
    BY <2>1, <2>2, <2>3, <2>4
<1>6. CASE VerifierAnswered /\ checking.on /\ checking.left # <<>> /\ attempt > 0
  <2>1. /\ UNCHANGED <<executed, cursor, attempt>> /\ job.step = "returned"
        /\ checking' = [checking EXCEPT !.left = Tail(checking.left),
                          !.rejected = checking.rejected \/ job.outcome # "completed"]
    BY <1>6 DEF VerifierAnswered
  <2>2. job.action = VerifierAction(Current, Head(checking.left), attempt)
        /\ checking.left \in Seq(STRING)
    BY <1>6, <2>1, WorkStands, ActionParts
  <2>3. checking'.left = Tail(checking.left)
        /\ (~checking'.rejected => ~checking.rejected /\ job.outcome = "completed")
    <3>1. DOMAIN checking = {"on", "left", "rejected"}
      BY <1>6, WorkStands
    <3>2. /\ checking'.left = Tail(checking.left)
          /\ checking'.rejected = (checking.rejected \/ job.outcome # "completed")
      BY <2>1, <3>1
    <3> QED
      BY <3>2, Zenon
  <2>4. ASSUME ~checking'.rejected, NEW v, NEW i, Owed(checking.left, v), i \in DOMAIN executed,
               executed[i].action = AgentAction(Current, attempt)
        PROVE  \/ Owed(checking'.left, v)
               \/ \E j \in DOMAIN executed' :
                    /\ j > i /\ executed'[j].action.key = <<Current.id, v>>
                    /\ executed'[j].action.attempt = attempt
                    /\ executed'[j].outcome = "completed"
    <3>1. PICK k \in DOMAIN checking.left : checking.left[k] = v
      BY <2>4 DEF Owed
    <3>2. CASE k = 1
      <4>1. /\ executed # <<>> /\ executed[n].action = job.action
            /\ executed[n].outcome = "completed"
        BY <1>0, <2>1, <2>3, <2>4 DEF Work, SemInv, LastInv
      <4>2. executed[n].action.key = <<Current.id, v>> /\ executed[n].action.attempt = attempt
        BY <2>2, <3>1, <3>2, <4>1, ActionParts
      <4>3. executed[i].action.key = <<Current.id>>
        BY <2>4, ActionParts
      <4>4. executed[i].action.key # executed[n].action.key
        BY <4>2, <4>3, ActionParts
      <4> QED
        BY <1>0, <2>1, <2>4, <4>1, <4>2, <4>4
    <3>3. CASE k # 1
      <4>1. /\ Len(Tail(checking.left)) = Len(checking.left) - 1
            /\ Tail(checking.left) \in Seq(STRING)
            /\ \A m \in 1..Len(Tail(checking.left)) : Tail(checking.left)[m] = checking.left[m + 1]
        BY <1>6, <2>2, HeadTailProperties
      <4>2. k - 1 \in 1..Len(Tail(checking.left)) /\ (k - 1) + 1 = k
        BY <2>2, <3>1, <3>3, <4>1
      <4>3. Tail(checking.left)[k - 1] = v /\ k - 1 \in DOMAIN Tail(checking.left)
        BY <3>1, <4>1, <4>2
      <4> QED
        BY <2>3, <4>3 DEF Owed
    <3> QED
      BY <3>2, <3>3
  <2>5. ~checking'.rejected =>
          \A v, i : /\ Owed(checking.left, v) /\ i \in DOMAIN executed
                    /\ executed[i].action = AgentAction(Current, attempt)
            => \/ Owed(checking'.left, v)
               \/ \E j \in DOMAIN executed' :
                    /\ j > i /\ executed'[j].action.key = <<Current.id, v>>
                    /\ executed'[j].action.attempt = attempt
                    /\ executed'[j].outcome = "completed"
    BY <2>4, Zenon
  <2>6. /\ \A i \in DOMAIN executed : i \in DOMAIN executed' /\ executed'[i] = executed[i]
        /\ DOMAIN executed' \subseteq Nat
        /\ \A j \in DOMAIN executed' : j \notin DOMAIN executed =>
                                          executed'[j].action.key # <<Current.id>>
    BY <1>3, <2>1
  <2> QED
    BY <1>2, <1>6, <2>1, <2>3, <2>5, <2>6
<1>7. CASE RecordDecision /\ UNCHANGED semanticVars
  <2>1. UNCHANGED <<executed, cursor, attempt, checking>>
    BY <1>7 DEF RecordDecision, semanticVars
  <2> QED
    BY <1>2, <1>3, <2>1
<1>8. CASE PassOver \/ EndPass \/ StopRest \/ Finish
  <2>1. attempt = 0 /\ UNCHANGED checking
    BY <1>8 DEF PassOver, EndPass, StopRest, Finish, Scheduling
  <2> QED
    BY <2>1, WorkStands
<1>9. CASE Blocks \/ Skips \/ Fails \/ Completes \/ Asks
  <2>1. checking' = NotChecking
    BY <1>9 DEF Blocks, Skips, Fails, Completes, Asks, Settles
  <2> QED
    BY <2>1 DEF NotChecking
<1> QED
  BY <1>1, <1>4, <1>5, <1>6, <1>7, <1>8, <1>9, WorkMoves DEF Checks, Works

(* What the runner logs: nothing, a completed node, or something else.     *)
LEMMA LogMove ==
  ASSUME Work
  PROVE  /\ DOMAIN log = 1..Len(log) /\ Len(log) \in Nat
         /\ \/ UNCHANGED log /\ ~Completes
            \/ /\ DOMAIN log' = 1..(Len(log) + 1)
               /\ \A p \in 1..Len(log) : log'[p] = log[p]
               /\ \/ /\ Completes /\ Completion(log'[Len(log) + 1])
                     /\ log'[Len(log) + 1].key = <<Current.id>>
                  \/ ~Completes /\ ~Completion(log'[Len(log) + 1])
<1>0. DOMAIN log = 1..Len(log) /\ Len(log) \in Nat /\ IsSeq(log)
  BY WorkFacts, SeqFacts
<1>1. ASSUME NEW e, log' = Append(log, e)
      PROVE  /\ DOMAIN log' = 1..(Len(log) + 1) /\ log'[Len(log) + 1] = e
             /\ \A p \in 1..Len(log) : log'[p] = log[p]
  BY <1>0, <1>1, AppendFacts, SeqFacts DEF Extends
<1>2. Completes => log' # log
  <2>1. Completes => \E e : log' = Append(log, e)
    BY Zenon DEF Completes
  <2>2. ASSUME NEW e PROVE Append(log, e) # log
    <3>1. Len(Append(log, e)) = Len(log) + 1
      BY <1>0, AppendFacts
    <3>2. \A n \in Nat : n + 1 # n
      OBVIOUS
    <3> QED
      BY <1>0, <3>1, <3>2, Zenon
  <2> QED
    BY <2>1, <2>2, Zenon
<1>3. CASE Completes
  <2> DEFINE e == [RunEvent("decision.recorded", Latest) EXCEPT
                     !.key = <<Current.id>>, !.value = "completed"]
  <2>1. log' = Append(log, e)
    BY <1>3 DEF Completes
  <2>2. e.type = "decision.recorded" /\ e.value = "completed" /\ e.key = <<Current.id>>
    BY DEF RunEvent
  <2>3. Completion(e)
    BY <2>2 DEF Completion, Decided
  <2> HIDE DEF e
  <2> QED
    BY <1>0, <1>1, <1>3, <2>1, <2>2, <2>3
<1>4. CASE RecordDecision
  <2>1. PICK parents : log' = Append(log, EventOf("decision.recorded", job.action,
                                 Evaluate(job.action, job.needsApproval), parents))
    BY <1>4, Zenon DEF RecordDecision
  <2> DEFINE e == EventOf("decision.recorded", job.action,
                          Evaluate(job.action, job.needsApproval), parents)
  <2>2. e.value \in Decisions
    BY EventTypes, DecisionWords
  <2>3. ~Completion(e)
    BY <2>2 DEF Completion, Decisions
  <2> HIDE DEF e
  <2>4. job.step = "deciding"
    BY <1>4 DEF RecordDecision
  <2>5. log' = Append(log, e)
    BY <2>1 DEF e
  <2>6. ~Completes
    <3>1. ASSUME Completes PROVE FALSE
      BY <1>0, <1>1, <1>3, <2>3, <2>5, <3>1
    <3> QED
      BY <3>1
  <2> QED
    BY <1>0, <1>1, <2>3, <2>5, <2>6
<1>5. CASE Finish
  <2>1. PICK status \in {"completed", "failed"} : EndRun(status)
    BY <1>5 DEF Finish
  <2> DEFINE e == RunEvent(Ending[status], Latest)
  <2>2. log' = Append(log, e)
    BY <2>1 DEF EndRun
  <2>3. Ending[status] # "decision.recorded"
    BY DEF Ending
  <2>4. ~Completion(e)
    BY <2>3, EventTypes DEF Completion, Decided
  <2>5. ~Completes
    BY <1>5, WorkStands DEF Completes, Finish, Scheduling
  <2> HIDE DEF e
  <2> QED
    BY <1>0, <1>1, <2>2, <2>4, <2>5
<1>6. CASE UNCHANGED log
  BY <1>0, <1>2, <1>6
<1>7. Completes \/ RecordDecision \/ Finish \/ UNCHANGED log
  BY WorkMoves DEF PassOver, EndPass, StopRest, policyVars, Works, OperateSemantic, Operate,
     Blocks, Skips, Fails, Asks, TakesAnswer, Checks, CheckNext, VerifierAnswered
<1> QED
  BY <1>3, <1>4, <1>5, <1>6, <1>7

(* DoneInv is kept.                                                        *)
LEMMA DoneKept == ASSUME Work PROVE DoneInv'
<1>1. /\ \A i \in DOMAIN results : i \in DOMAIN results' /\ results'[i] = results[i]
      /\ DOMAIN results = 1..Len(results) /\ Len(results) \in Nat
  BY SettledKept
<1>2. ASSUME NEW p \in DOMAIN log, Completion(log[p])
      PROVE  \E k \in DOMAIN results' : log[p].key = <<results'[k].node>>
  <2>1. PICK k \in DOMAIN results : log[p].key = <<results[k].node>>
    BY <1>2 DEF Work, SemInv, DoneInv
  <2> QED
    BY <1>1, <2>1
<1>3. ASSUME Completes PROVE \E k \in DOMAIN results' : <<Current.id>> = <<results'[k].node>>
  <2>1. "completed" \in Statuses /\ Settles("completed", attempt) /\ attempt \in Nat
    BY <1>3, WorkStands DEF Completes, Statuses
  <2>2. /\ results'[Len(results) + 1] = [node |-> Current.id, status |-> "completed",
                                        attempts |-> attempt]
        /\ DOMAIN results' = 1..(Len(results) + 1)
    BY <2>1, SettlesFacts
  <2> QED
    BY <1>1, <2>2
<1>4. ASSUME NEW p \in DOMAIN log', Completion(log'[p])
      PROVE  \E k \in DOMAIN results' : log'[p].key = <<results'[k].node>>
  <2>1. CASE p \in DOMAIN log /\ log'[p] = log[p]
    BY <1>2, <1>4, <2>1
  <2>2. CASE Completes /\ log'[p].key = <<Current.id>>
    BY <1>3, <2>2
  <2>3. \/ p \in DOMAIN log /\ log'[p] = log[p]
        \/ Completes /\ log'[p].key = <<Current.id>>
    BY <1>4, LogMove
  <2> QED
    BY <2>1, <2>2, <2>3
<1> QED
  BY <1>4 DEF DoneInv, Completion, Decided

-----------------------------------------------------------------------------
(* What vouches for a completion e at p: an execution i of the agent.      *)
NodeOf(w, id) == w.nodes[CHOOSE k \in DOMAIN w.nodes : w.nodes[k].id = id]
Vouches(w, runs, e, p, i) ==
  /\ runs[i].action.kind = "agent" /\ runs[i].action.key = e.key /\ runs[i].after < p
  /\ runs[i].outcome = "good"
  /\ \A j \in DOMAIN runs : j > i => runs[j].action.key # runs[i].action.key
  /\ \A v \in DOMAIN NodeOf(w, runs[i].action.target).verifiers :
       \E j \in DOMAIN runs :
         /\ j > i /\ runs[j].after < p
         /\ runs[j].action.key = <<NodeOf(w, runs[i].action.target).id,
                                   NodeOf(w, runs[i].action.target).verifiers[v]>>
         /\ runs[j].action.attempt = runs[i].action.attempt
         /\ runs[j].outcome = "completed"

(* CompletionVerified says that every completion is vouched for.           *)
LEMMA CompletionReads ==
  CompletionVerified <=>
    \A p \in DOMAIN log : Completion(log[p]) =>
      \E i \in DOMAIN executed : Vouches(workflow, executed, log[p], p, i)
BY Zenon DEF CompletionVerified, Completion, Decided, Vouches, NodeOf

(* The same of the next state.                                            *)
LEMMA CompletionReadsNext ==
  CompletionVerified' <=>
    \A p \in DOMAIN log' : Completion(log'[p]) =>
      \E i \in DOMAIN executed' : Vouches(workflow', executed', log'[p], p, i)
BY Zenon DEF CompletionVerified, Completion, Decided, Vouches, NodeOf

(* It goes on vouching as long as nothing runs for that node again.        *)
LEMMA VouchesOn ==
  ASSUME NEW w, NEW runs, NEW more, NEW e, NEW p, NEW i \in DOMAIN runs,
         Vouches(w, runs, e, p, i),
         \A j \in DOMAIN runs : j \in DOMAIN more /\ more[j] = runs[j],
         \A j \in DOMAIN more : j \notin DOMAIN runs => more[j].action.key # e.key
  PROVE  i \in DOMAIN more /\ Vouches(w, more, e, p, i)
BY ZenonT(60) DEF Vouches

(* The operation at work is not one for a node that is done.               *)
LEMMA CompletionsStand ==
  ASSUME RunnerInv, SemInv, SemanticRuns, IsSeq(executed),
         \/ executed' = executed
         \/ job.step = "operating" /\ \E outcome : executed' = Append(executed, Execution(outcome)),
         NEW p \in DOMAIN log, Completion(log[p])
  PROVE  \E i \in DOMAIN executed' : Vouches(workflow, executed', log[p], p, i)
<1>1. PICK i \in DOMAIN executed : Vouches(workflow, executed, log[p], p, i)
  BY CompletionReads DEF SemInv
<1>2. CASE executed' = executed
  BY <1>1, <1>2
<1>3. CASE job.step = "operating" /\ \E outcome : executed' = Append(executed, Execution(outcome))
  <2>0. PICK outcome : executed' = Append(executed, Execution(outcome))
    BY <1>3
  <2>1. /\ DOMAIN executed = 1..Len(executed) /\ Len(executed) \in Nat
        /\ DOMAIN executed' = 1..(Len(executed) + 1) /\ executed'[Len(executed) + 1] = Execution(outcome)
        /\ \A j \in 1..Len(executed) : executed'[j] = executed[j]
    BY <1>3, <2>0, SeqFacts, AppendFacts DEF Extends
  <2>2. PICK k \in DOMAIN results : log[p].key = <<results[k].node>>
    BY DEF SemInv, DoneInv
  <2>3. results[k].node \in Settled
    BY DEF Settled
  <2>4. \/ job.action.key = <<Current.id>> /\ Current.id \notin Settled
        \/ \E v : job.action.key = <<Current.id, v>>
    <3>1. WorkInv /\ job # Idle /\ attempt # 0
      BY <1>3, ActionParts DEF SemInv, WorkInv
    <3> QED
      BY <3>1, ActionParts DEF WorkInv
  <2>5. Execution(outcome).action.key # log[p].key
    <3>1. Execution(outcome).action = job.action
      BY DEF Execution
    <3>2. CASE job.action.key = <<Current.id>> /\ Current.id \notin Settled
      <4>1. Current.id # results[k].node
        BY <2>3, <3>2
      <4> QED
        BY <2>2, <3>1, <3>2, <4>1, ActionParts
    <3>3. CASE \E v : job.action.key = <<Current.id, v>>
      BY <2>2, <3>1, <3>3, ActionParts
    <3> QED
      BY <2>4, <3>2, <3>3
  <2>6. \A j \in DOMAIN executed' : j \notin DOMAIN executed =>
                                      executed'[j].action.key # log[p].key
    <3> DEFINE latest == Execution(outcome)
    <3>1. ASSUME NEW j \in DOMAIN executed', j \notin DOMAIN executed
          PROVE  executed'[j].action.key # log[p].key
      <4> HIDE DEF latest
      <4>1. j = Len(executed) + 1
        BY <2>1, <3>1
      <4>2. executed'[j] = latest /\ latest.action.key # log[p].key
        BY <2>1, <2>5, <4>1 DEF latest
      <4> QED
        BY <4>2
    <3> QED
      BY <3>1
  <2>7. \A j \in DOMAIN executed : j \in DOMAIN executed' /\ executed'[j] = executed[j]
    BY <2>1
  <2>8. i \in DOMAIN executed' /\ Vouches(workflow, executed', log[p], p, i)
    BY <1>1, <2>6, <2>7, VouchesOn, Zenon
  <2> QED
    BY <2>8
<1> QED
  BY <1>2, <1>3

(* CompletionVerified is kept.                                             *)
LEMMA CompletionKept == ASSUME Work PROVE CompletionVerified'
<1>1. /\ DOMAIN executed = 1..Len(executed) /\ workflow' = workflow /\ Len(log) \in Nat
      /\ \/ executed' = executed
         \/ job.step = "operating" /\ \E outcome : executed' = Append(executed, Execution(outcome))
  BY ExecutedMove, WorkFacts, LogMove, Zenon DEF OperateSemantic, Operate
<1>2. ASSUME NEW p \in DOMAIN log, Completion(log[p])
      PROVE  \E i \in DOMAIN executed' : Vouches(workflow, executed', log[p], p, i)
  BY <1>1, <1>2, CompletionsStand, WorkFacts DEF Work
<1>3. ASSUME Completes, NEW e, e.key = <<Current.id>>
      PROVE  \E i \in DOMAIN executed' : Vouches(workflow, executed', e, Len(log) + 1, i)
  <2>1. checking.on /\ checking.left = <<>> /\ ~checking.rejected /\ executed' = executed
        /\ attempt > 0
    BY <1>3 DEF Completes, Settles
  <2>2. PICK i \in DOMAIN executed :
          /\ executed[i].action = AgentAction(Current, attempt)
          /\ \A j \in DOMAIN executed : j > i => executed[j].action.key # <<Current.id>>
          /\ executed[i].outcome = "good"
          /\ \A v \in DOMAIN Current.verifiers :
               \/ Owed(checking.left, Current.verifiers[v])
               \/ \E j \in DOMAIN executed :
                    /\ j > i /\ executed[j].action.key = <<Current.id, Current.verifiers[v]>>
                    /\ executed[j].action.attempt = attempt
                    /\ executed[j].outcome = "completed"
    BY <2>1 DEF Work, SemInv, CheckingInv
  <2>3. \A v : ~Owed(checking.left, v)
    BY <2>1 DEF Owed
  <2>4. \A j \in DOMAIN executed : executed[j].after < Len(log) + 1
    BY <1>1 DEF Work, AuditInv
  <2>5. /\ executed[i].action.kind = "agent" /\ executed[i].action.key = <<Current.id>>
        /\ executed[i].action.target = Current.id /\ executed[i].action.attempt = attempt
    BY <2>2, ActionParts
  <2>6. NodeOf(workflow, Current.id) = Current
    <3>1. cursor \in DOMAIN workflow.nodes /\ ValidWorkflow(workflow)
      BY <2>1, WorkStands, WorkFacts
    <3> DEFINE c == CHOOSE k \in DOMAIN workflow.nodes : workflow.nodes[k].id = Current.id
    <3>2. c \in DOMAIN workflow.nodes /\ workflow.nodes[c].id = workflow.nodes[cursor].id
      BY <3>1 DEF Current
    <3>3. c = cursor
      BY <3>1, <3>2 DEF ValidWorkflow
    <3> QED
      BY <3>3 DEF NodeOf, Current
  <2>7. Vouches(workflow, executed, e, Len(log) + 1, i)
    BY <1>3, <2>2, <2>3, <2>4, <2>5, <2>6 DEF Vouches
  <2> QED
    BY <2>1, <2>7
<1>4. ASSUME NEW p \in DOMAIN log', Completion(log'[p])
      PROVE  \E i \in DOMAIN executed' : Vouches(workflow, executed', log'[p], p, i)
  <2>1. CASE p \in DOMAIN log /\ log'[p] = log[p]
    BY <1>2, <1>4, <2>1
  <2>2. CASE Completes /\ p = Len(log) + 1 /\ log'[p].key = <<Current.id>>
    BY <1>3, <2>2
  <2>3. \/ p \in DOMAIN log /\ log'[p] = log[p]
        \/ Completes /\ p = Len(log) + 1 /\ log'[p].key = <<Current.id>>
    BY <1>4, LogMove
  <2> QED
    BY <2>1, <2>2, <2>3
<1> QED
  BY <1>1, <1>4, CompletionReadsNext

-----------------------------------------------------------------------------
(* The agent's runs, and the node at work among them.                      *)
LEMMA AgentRunFacts ==
  ASSUME Work
  PROVE  /\ AgentRuns \subseteq 1..Len(executed) /\ Len(executed) \in Nat
         /\ Cardinality(AgentRuns) \in Nat
         /\ \A i \in AgentRuns : RankIn(AgentRuns, i) \in 1..Cardinality(AgentRuns)
<1>1. DOMAIN executed = 1..Len(executed) /\ Len(executed) \in Nat
  BY ExecutedMove
<1>2. AgentRuns \subseteq 1..Len(executed)
  BY <1>1 DEF AgentRuns
<1> HIDE DEF AgentRuns
<1> QED
  BY <1>1, <1>2, PositionFacts

(* CountInv is kept.                                                       *)
LEMMA CountKept == ASSUME Work PROVE CountInv'
<1> SUFFICES ASSUME SemanticRuns', AllFirst', attempt' <= 1 PROVE CountInv'
  BY DEF CountInv
<1>0. /\ \A i \in DOMAIN results : i \in DOMAIN results' /\ results'[i] = results[i]
      /\ DOMAIN results = 1..Len(results) /\ Len(results) \in Nat
      /\ attempt \in Nat /\ workflow' = workflow /\ AllFirst /\ SemanticRuns /\ ~Finish
  <2>1. /\ \A i \in DOMAIN results : i \in DOMAIN results' /\ results'[i] = results[i]
        /\ DOMAIN results = 1..Len(results) /\ Len(results) \in Nat
    BY SettledKept
  <2>2. AllFirst
    BY <2>1 DEF AllFirst
  <2>3. ~Finish
    BY DEF SemanticRuns, Finish, EndRun
  <2> QED
    BY <2>1, <2>2, <2>3, WorkFacts, WorkStands DEF Work
<1>1. ASSUME attempt <= 1
      PROVE  /\ Cardinality(AgentRuns) = Len(results) + (IF Ran THEN 1 ELSE 0)
             /\ \A i \in AgentRuns :
                  executed[i].action.target = IF RankIn(AgentRuns, i) <= Len(results)
                                              THEN results[RankIn(AgentRuns, i)].node
                                              ELSE Current.id
  BY <1>0, <1>1 DEF Work, SemInv, CountInv
<1>2. ASSUME UNCHANGED results, AgentRuns' = AgentRuns, attempt <= 1,
             \A i \in AgentRuns : executed'[i] = executed[i],
             Ran' <=> Ran, Ran => UNCHANGED cursor
      PROVE  CountInv'
  <2>1. Cardinality(AgentRuns') = Len(results') + (IF Ran' THEN 1 ELSE 0)
    BY <1>1, <1>2
  <2>2. ASSUME NEW i \in AgentRuns'
        PROVE  executed'[i].action.target = IF RankIn(AgentRuns', i) <= Len(results')
                                            THEN results'[RankIn(AgentRuns', i)].node
                                            ELSE Current'.id
    <3>1. CASE Ran
      BY <1>0, <1>1, <1>2, <3>1 DEF Current
    <3>2. CASE ~Ran
      <4>1. RankIn(AgentRuns, i) \in 1..Len(results)
        BY <1>0, <1>1, <1>2, <3>2, AgentRunFacts
      <4> QED
        BY <1>0, <1>1, <1>2, <4>1
    <3> QED
      BY <3>1, <3>2
  <2>3. RankIn(AgentRuns, 0)' = RankIn(AgentRuns', 0)
    OBVIOUS
  <2> QED
    BY <2>1, <2>2 DEF CountInv, RankIn
<1>3. ASSUME UNCHANGED executed
      PROVE  AgentRuns' = AgentRuns /\ \A i \in AgentRuns : executed'[i] = executed[i]
  BY <1>3 DEF AgentRuns
<1>4. CASE OperateSemantic
  <2>1. /\ DOMAIN executed' = 1..(Len(executed) + 1)
        /\ executed'[Len(executed) + 1].action = job.action
        /\ \A i \in 1..Len(executed) : executed'[i] = executed[i]
        /\ DOMAIN executed = 1..Len(executed) /\ Len(executed) \in Nat
        /\ UNCHANGED <<results, cursor, attempt, checking>> /\ job.step = "operating"
        /\ job'.step = "returned" /\ attempt > 0
        /\ job.action.kind = "agent" => job'.outcome # "blocked"
    BY <1>4, ExecutedMove DEF semanticVars
  <2>2. CASE checking.on
    <3>1. job.action.kind # "agent"
      BY <2>1, <2>2, WorkStands, ActionParts
    <3>2. AgentRuns' = AgentRuns
      BY <2>1, <3>1 DEF AgentRuns
    <3>3. Ran' /\ Ran
      BY <2>1, <2>2 DEF Ran
    <3>4. \A i \in AgentRuns : executed'[i] = executed[i]
      BY <2>1 DEF AgentRuns
    <3> QED
      BY <1>2, <2>1, <3>2, <3>3, <3>4
  <2>3. CASE ~checking.on
    <3>1. job.action.kind = "agent" /\ job.action.target = Current.id
      BY <2>1, <2>3, WorkStands, ActionParts
    <3>2. AgentRuns' = AgentRuns \cup {Len(executed) + 1}
      BY <2>1, <3>1 DEF AgentRuns
    <3>3. Ran' /\ ~Ran
      BY <2>1, <2>3, <3>1 DEF Ran
    <3>4. /\ AgentRuns \subseteq 1..Len(executed)
          /\ \A i \in AgentRuns : RankIn(AgentRuns, i) \in 1..Cardinality(AgentRuns)
          /\ Cardinality(AgentRuns) = Len(results)
      BY <1>0, <1>1, <2>1, <3>3, AgentRunFacts
    <3>5. Cardinality(AgentRuns') = Len(results') + (IF Ran' THEN 1 ELSE 0)
      <4> HIDE DEF AgentRuns
      <4>1. Cardinality(AgentRuns \cup {Len(executed) + 1}) = Cardinality(AgentRuns) + 1
        BY <2>1, <3>4, PositionGrows
      <4> QED
        BY <2>1, <3>2, <3>3, <3>4, <4>1
    <3>6. ASSUME NEW i \in AgentRuns'
          PROVE  executed'[i].action.target = IF RankIn(AgentRuns', i) <= Len(results')
                                              THEN results'[RankIn(AgentRuns', i)].node
                                              ELSE Current'.id
      <4>1. CASE i \in AgentRuns
        <5>1. i \in 0..Len(executed) /\ i \in 1..Len(executed)
          BY <3>4, <4>1
        <5>2. RankIn(AgentRuns', i) = RankIn(AgentRuns, i)
          <6> HIDE DEF AgentRuns
          <6> QED
            BY <2>1, <3>2, <3>4, <5>1, PositionGrows
        <5>3. RankIn(AgentRuns, i) \in 1..Len(results)
          BY <3>4, <4>1
        <5> QED
          BY <1>0, <1>1, <2>1, <4>1, <5>1, <5>2, <5>3
      <4>2. CASE i = Len(executed) + 1
        <5>1. AgentRuns' \subseteq 1..(Len(executed) + 1)
          BY <2>1 DEF AgentRuns
        <5>2. RankIn(AgentRuns', i) = Cardinality(AgentRuns')
          <6> DEFINE T == AgentRuns'
                     m == Len(executed) + 1
          <6>1. m \in Nat /\ T \subseteq 1..m
            BY <2>1, <5>1
          <6> HIDE DEF T, m
          <6>2. RankIn(T, m) = Cardinality(T)
            BY <6>1, RankSteps
          <6> QED
            BY <4>2, <6>2 DEF T, m
        <5>3. RankIn(AgentRuns', i) = Len(results) + 1
          BY <2>1, <3>3, <3>5, <5>2
        <5>4. Current' = Current
          BY <1>0, <2>1 DEF Current
        <5> QED
          BY <1>0, <2>1, <3>1, <4>2, <5>3, <5>4
      <4> QED
        BY <3>2, <3>6, <4>1, <4>2
    <3> QED
      BY <3>5, <3>6 DEF CountInv, RankIn
  <2> QED
    BY <2>2, <2>3
<1>5. CASE RecordDecision /\ UNCHANGED semanticVars
  <2>1. /\ UNCHANGED <<executed, results, cursor, attempt, checking>> /\ job.step = "deciding"
        /\ job'.step = "returned" => job'.outcome = "blocked"
    BY <1>5, WorkFacts DEF RecordDecision, semanticVars, JobShape
  <2>2. Ran' <=> Ran
    BY <2>1 DEF Ran
  <2> QED
    BY <1>2, <1>3, <2>1, <2>2
<1>6. CASE Asks
  <2>1. /\ UNCHANGED <<executed, results, cursor>> /\ attempt = 0 /\ checking' = NotChecking
        /\ job'.step = "deciding"
    BY <1>0, <1>6, ActionParts DEF Asks
  <2>2. ~Ran' /\ ~Ran
    BY <2>1 DEF Ran, NotChecking
  <2> QED
    BY <1>2, <1>3, <2>1, <2>2
<1>7. CASE TakesAnswer
  <2>1. /\ UNCHANGED <<executed, results, cursor, attempt>> /\ attempt > 0
        /\ job.step = "returned" /\ job.outcome # "blocked" /\ checking'.on
    BY <1>7 DEF TakesAnswer
  <2>2. Ran' /\ Ran
    BY <2>1 DEF Ran
  <2> QED
    BY <1>2, <1>3, <2>1, <2>2
<1>8. CASE Checks
  <2>1. /\ UNCHANGED <<executed, results, cursor, attempt>> /\ attempt > 0 /\ checking.on
        /\ \/ UNCHANGED checking
           \/ \E rejected : checking' = [checking EXCEPT !.left = Tail(checking.left),
                                                         !.rejected = rejected]
    BY <1>8, Zenon DEF Checks, CheckNext, VerifierAnswered
  <2>2. checking'.on
    BY <2>1, WorkStands
  <2>3. Ran' /\ Ran
    BY <2>1, <2>2 DEF Ran
  <2> QED
    BY <1>2, <1>3, <2>1, <2>3
<1>9. CASE PassOver \/ EndPass \/ StopRest
  <2>1. /\ UNCHANGED <<executed, attempt, checking, job>> /\ attempt = 0
        /\ UNCHANGED results \/ (results' = BlockedRest /\ Pending # {})
    BY <1>9 DEF PassOver, EndPass, StopRest, Scheduling, policyVars
  <2>2. CASE UNCHANGED results
    <3>1. ~Ran' /\ ~Ran
      BY <2>1 DEF Ran
    <3> QED
      BY <1>2, <1>3, <2>1, <2>2, <3>1
  <2>3. CASE results' = BlockedRest /\ Pending # {}
    <3>1. \E i \in DOMAIN BlockedRest : BlockedRest[i].status = "blocked"
      BY <2>3, WorkFacts, RestBlocked DEF Work, SemInv
    <3> HIDE DEF BlockedRest
    <3> QED
      BY <2>3, <3>1 DEF AllFirst
  <2> QED
    BY <2>1, <2>2, <2>3
<1>10. ASSUME NEW status \in Statuses, NEW n \in Nat, Settles(status, n)
       PROVE  /\ status = "completed" /\ n = 1 /\ Len(results') = Len(results) + 1
              /\ results'[Len(results) + 1].node = Current.id
              /\ \A i \in 1..Len(results) : results'[i] = results[i]
  <2>1. /\ Len(results') = Len(results) + 1 /\ DOMAIN results' = 1..(Len(results) + 1)
        /\ results'[Len(results) + 1] = [node |-> Current.id, status |-> status, attempts |-> n]
        /\ \A i \in 1..Len(results) : results'[i] = results[i]
    BY <1>10, SettlesFacts
  <2>2. Len(results) + 1 \in DOMAIN results'
    BY <1>0, <2>1
  <2> QED
    BY <2>1, <2>2 DEF AllFirst
<1>11. CASE Completes
  <2>1. /\ Settles("completed", attempt) /\ "completed" \in Statuses /\ attempt > 0 /\ checking.on
        /\ attempt' = 0 /\ UNCHANGED executed
    BY <1>11 DEF Completes, Statuses, Settles
  <2>2. /\ attempt = 1 /\ Len(results') = Len(results) + 1
        /\ results'[Len(results) + 1].node = Current.id
        /\ \A i \in 1..Len(results) : results'[i] = results[i]
    BY <1>0, <1>10, <2>1
  <2>3. Ran /\ ~Ran'
    BY <2>1 DEF Ran
  <2>4. Cardinality(AgentRuns) = Len(results')
    BY <1>1, <2>2, <2>3
  <2>5. ASSUME NEW i \in AgentRuns
        PROVE  executed[i].action.target = results'[RankIn(AgentRuns, i)].node
               /\ RankIn(AgentRuns, i) <= Len(results')
    <3>1. RankIn(AgentRuns, i) \in 1..(Len(results) + 1)
      BY <2>2, <2>4, AgentRunFacts
    <3>2. executed[i].action.target = IF RankIn(AgentRuns, i) <= Len(results)
                                      THEN results[RankIn(AgentRuns, i)].node ELSE Current.id
      BY <1>1, <2>2
    <3> QED
      BY <1>0, <2>2, <3>1, <3>2
  <2> QED
    BY <1>3, <2>1, <2>3, <2>4, <2>5 DEF CountInv, RankIn
<1>12. CASE Blocks \/ Skips \/ Fails
  <2>1. PICK status \in {"blocked", "skipped", "failed"}, n \in Nat : Settles(status, n)
    BY <1>0, <1>12 DEF Blocks, Skips, Fails
  <2> QED
    BY <1>10, <2>1 DEF Statuses
<1> QED
  BY <1>0, <1>4, <1>5, <1>6, <1>7, <1>8, <1>9, <1>11, <1>12, WorkMoves DEF Works

(* A node that is blocked has a dependency that has settled; one that waits*)
(* has one that has not; one that is ready has none of either kind.        *)
LEMMA DependencyStates ==
  ASSUME NEW node \in Node, ResultsInv
  PROVE  /\ DependencyState(node) = "blocked" =>
              \E d \in DOMAIN node.deps : /\ node.deps[d].of \in Settled
                                          /\ StatusOf(node.deps[d].of)
                                               \notin Wanted[node.deps[d].on]
         /\ DependencyState(node) = "waiting" => WaitsFor(node)
         /\ DependencyState(node) = "ready" =>
              \A d \in DOMAIN node.deps : StatusOf(node.deps[d].of) \in Wanted[node.deps[d].on]
         /\ DependencyState(node) \in {"ready", "waiting", "blocked"}
<1> DEFINE unmet == {d \in DOMAIN node.deps :
                       StatusOf(node.deps[d].of) \notin Wanted[node.deps[d].on]}
           first == CHOOSE d \in unmet : \A e \in unmet : d <= e
<1>1. DependencyState(node)
        = IF unmet = {} THEN "ready"
          ELSE IF StatusOf(node.deps[first].of) = "open" THEN "waiting" ELSE "blocked"
  BY DEF DependencyState
<1>2. unmet # {} => first \in unmet
  <2>1. DOMAIN node.deps \subseteq Nat
    <3>1. node.deps \in Seq([of : STRING, on : DOMAIN Wanted])
      BY DEF Node
    <3> QED
      BY <3>1
  <2>2. unmet \subseteq Nat
    BY <2>1
  <2> HIDE DEF unmet
  <2>3. unmet # {} => \E d \in unmet : \A e \in unmet : d <= e
    BY <2>2, LeastNatural
  <2> QED
    BY <2>3
<1>3. \A id : id \in Settled <=> StatusOf(id) # "open"
  BY StatusReads, StatusFacts DEF ResultsInv
<1>4. unmet # {} => /\ first \in DOMAIN node.deps
                    /\ StatusOf(node.deps[first].of) \notin Wanted[node.deps[first].on]
  BY <1>2
<1>5. unmet = {} => \A d \in DOMAIN node.deps :
                      StatusOf(node.deps[d].of) \in Wanted[node.deps[d].on]
  OBVIOUS
<1> HIDE DEF unmet, first
<1>6. CASE unmet = {}
  BY <1>1, <1>5, <1>6
<1>7. CASE unmet # {} /\ StatusOf(node.deps[first].of) = "open"
  BY <1>1, <1>4, <1>7 DEF WaitsFor
<1>8. CASE unmet # {} /\ StatusOf(node.deps[first].of) # "open"
  BY <1>1, <1>3, <1>4, <1>8
<1> QED
  BY <1>6, <1>7, <1>8

(* What a node of the document depends on is what it lists.                *)
LEMMA DependsOnFacts ==
  ASSUME NEW w, ValidWorkflow(w), NEW i \in DOMAIN w.nodes
  PROVE  \A of : of \in DependsOn(w, w.nodes[i].id)
                   <=> \E d \in DOMAIN w.nodes[i].deps : w.nodes[i].deps[d].of = of
<1>1. ASSUME NEW j \in DOMAIN w.nodes, w.nodes[j].id = w.nodes[i].id PROVE j = i
  BY <1>1 DEF ValidWorkflow
<1>2. {j \in DOMAIN w.nodes : w.nodes[j].id = w.nodes[i].id} = {i}
  BY <1>1
<1>3. DependsOn(w, w.nodes[i].id) = {w.nodes[i].deps[d].of : d \in DOMAIN w.nodes[i].deps}
  BY <1>2 DEF DependsOn
<1> QED
  BY <1>3

(* OutcomeInv is kept.                                                     *)
LEMMA OutcomeKept == ASSUME Work PROVE OutcomeInv'
<1> SUFFICES ASSUME diagnostics' = {} PROVE OutcomeInv'
  BY DEF OutcomeInv
<1>0. /\ \A i \in DOMAIN results : i \in DOMAIN results' /\ results'[i] = results[i]
      /\ DOMAIN results = 1..Len(results) /\ Len(results) \in Nat
      /\ \A id \in Settled : id \in Settled'
      /\ workflow' = workflow /\ mode = "semantic" /\ attempt \in Nat
  BY SettledKept, WorkFacts, WorkStands
<1>1. ASSUME diagnostics = {}
      PROVE  \A i \in DOMAIN results :
               /\ results[i].status # "failed"
               /\ results[i].status = "blocked" =>
                    \E of \in DependsOn(workflow, results[i].node) : of \in Settled
  BY <1>0, <1>1 DEF Work, SemInv, OutcomeInv
<1>2. CASE UNCHANGED results /\ diagnostics = {}
  <2>1. Settled' = Settled
    BY <1>2 DEF Settled
  <2> QED
    BY <1>0, <1>1, <1>2, <2>1 DEF OutcomeInv
<1>3. ASSUME diagnostics = {}, NEW status \in Statuses, NEW n \in Nat, Settles(status, n),
             status # "failed",
             status = "blocked" => \E of \in DependsOn(workflow, Current.id) : of \in Settled
      PROVE  OutcomeInv'
  <2>1. /\ DOMAIN results' = 1..(Len(results) + 1)
        /\ results'[Len(results) + 1].node = Current.id
        /\ results'[Len(results) + 1].status = status
    <3>1. /\ DOMAIN results' = 1..(Len(results) + 1)
          /\ results'[Len(results) + 1] = [node |-> Current.id, status |-> status, attempts |-> n]
      BY <1>3, SettlesFacts
    <3> QED
      BY <3>1
  <2>2. ASSUME NEW i \in DOMAIN results'
        PROVE  /\ results'[i].status # "failed"
               /\ results'[i].status = "blocked" =>
                    \E of \in DependsOn(workflow, results'[i].node) : of \in Settled'
    <3>1. CASE i \in DOMAIN results
      BY <1>0, <1>1, <1>3, <3>1
    <3>2. CASE i = Len(results) + 1
      BY <1>0, <1>3, <2>1, <3>2
    <3> QED
      BY <1>0, <2>1, <3>1, <3>2
  <2>3. workflow' = workflow
    BY <1>0
  <2> QED
    BY <2>2, <2>3 DEF OutcomeInv
<1>4. CASE Elsewhere /\ Blocks
  <2>1. /\ Settles("blocked", 0) /\ "blocked" \in Statuses /\ DependencyState(Current) = "blocked"
        /\ UNCHANGED diagnostics /\ cursor \in DOMAIN workflow.nodes
    BY <1>4 DEF Blocks, Statuses, Settles
  <2>2. Current \in Node /\ ResultsInv /\ ValidWorkflow(workflow)
    BY <2>1, WorkFacts DEF Current, Work, SemInv
  <2>3. PICK d \in DOMAIN Current.deps : Current.deps[d].of \in Settled
    BY <2>1, <2>2, DependencyStates
  <2>4. Current.deps[d].of \in DependsOn(workflow, Current.id)
    BY <2>1, <2>2, <2>3, DependsOnFacts DEF Current
  <2> QED
    BY <1>3, <2>1, <2>3, <2>4
<1>5. CASE Elsewhere /\ Skips
  BY <1>3, <1>5 DEF Skips, Statuses
<1>6. CASE Elsewhere /\ Completes
  BY <1>0, <1>3, <1>6 DEF Completes, Statuses
<1>7. CASE Elsewhere /\ Fails
  BY <1>7 DEF Fails
<1>8. CASE results' = BlockedRest /\ EndPass
  <2>1. UNCHANGED results \/ diagnostics' = diagnostics \cup {"UNRESOLVED_DEPENDENCY"}
    BY <1>8 DEF EndPass
  <2>2. UNCHANGED results \/ diagnostics' # {}
    BY <2>1
  <2>3. UNCHANGED results => diagnostics = {}
    BY <1>8 DEF EndPass
  <2> QED
    BY <1>2, <2>2, <2>3
<1>9. CASE StopRest
  <2>1. diagnostics = {} /\ Stopped
    BY <1>9 DEF StopRest
  <2>2. PICK k \in DOMAIN workflow.nodes : StatusOf(workflow.nodes[k].id) = "failed"
    BY <2>1 DEF Stopped
  <2>3. StatusOf(workflow.nodes[k].id) # "open"
    BY <2>2
  <2>4. workflow.nodes[k].id \in Settled
    BY <2>3, SettledKept
  <2>5. PICK i \in DOMAIN results : results[i].node = workflow.nodes[k].id
    BY <2>4 DEF Settled
  <2>6. results[i].status = "failed"
    BY <2>2, <2>5, WorkFacts, StatusReads, StatusFacts
  <2> QED
    BY <1>1, <2>1, <2>5, <2>6
<1>10. CASE UNCHANGED results /\ ~StopRest
  <2>1. diagnostics = {}
    <3>1. CASE UNCHANGED diagnostics
      BY <3>1
    <3>2. CASE EndPass \/ Finish
      BY <3>2 DEF EndPass, Finish
    <3>3. CASE Elsewhere /\ (Blocks \/ Skips \/ Fails \/ Completes)
      BY <3>3 DEF Blocks, Skips, Fails, Completes
    <3>4. CASE PassOver \/ Works \/ Checks \/ Asks \/ TakesAnswer
      BY <3>4 DEF PassOver, Works, OperateSemantic, semanticVars, Checks, CheckNext,
                  VerifierAnswered, Asks, TakesAnswer
    <3> QED
      BY <1>10, <3>1, <3>2, <3>3, <3>4, WorkMoves
  <2> QED
    BY <1>2, <1>10, <2>1
<1> QED
  BY <1>4, <1>5, <1>6, <1>7, <1>8, <1>9, <1>10, ResultsMove

(* PassInv is kept.                                                        *)
LEMMA PassKept == ASSUME Work PROVE PassInv'
<1> SUFFICES ASSUME SemanticRuns', ~progressed' PROVE PassInv'
  BY DEF PassInv
<1>0. /\ workflow' = workflow /\ SemanticRuns /\ cursor \in Nat \ {0} /\ ~Finish
      /\ DOMAIN workflow.nodes = 1..Len(workflow.nodes) /\ Len(workflow.nodes) \in Nat
  <2>1. ~Finish
    BY DEF SemanticRuns, Finish, EndRun
  <2> QED
    BY <2>1, WorkFacts, WorkStands DEF Work
<1>1. ASSUME UNCHANGED results PROVE Settled' = Settled /\ \A id : StatusOf(id)' = StatusOf(id)
  BY <1>1 DEF Settled, StatusOf
<1>2. ASSUME UNCHANGED results
      PROVE  \A node : WaitsFor(node)' <=> WaitsFor(node)
  <2>1. \A id : StatusOf(id)' = StatusOf(id)
    BY <1>1, <1>2
  <2> QED
    BY <2>1 DEF WaitsFor
<1>3. ASSUME UNCHANGED <<results, progressed>>,
             \A i \in DOMAIN workflow.nodes : i < cursor' =>
               \/ i < cursor \/ workflow.nodes[i].id \in Settled \/ WaitsFor(workflow.nodes[i])
      PROVE  PassInv'
  <2>1. \A i \in DOMAIN workflow.nodes : i < cursor' =>
          workflow.nodes[i].id \in Settled \/ WaitsFor(workflow.nodes[i])
    BY <1>0, <1>3 DEF Work, SemInv, PassInv
  <2>2. /\ Settled' = Settled /\ \A node : WaitsFor(node)' <=> WaitsFor(node)
        /\ workflow' = workflow
    BY <1>0, <1>1, <1>2, <1>3
  <2>3. \A i \in DOMAIN workflow.nodes :
          WaitsFor(workflow.nodes[i])' <=> WaitsFor(workflow.nodes[i])
    <3>1. \A i : (workflow.nodes[i])' = workflow.nodes[i]
      BY <2>2
    <3>2. \A id : StatusOf(id)' = StatusOf(id)
      BY <1>1, <1>3
    <3> QED
      BY <3>1, <3>2 DEF WaitsFor
  <2> QED
    BY <2>1, <2>2, <2>3 DEF PassInv
<1>4. CASE Elsewhere /\ (Blocks \/ Skips \/ Fails \/ Completes)
  BY <1>4 DEF Blocks, Skips, Fails, Completes, Settles, Settle
<1>5. CASE results' = BlockedRest
  <2>1. SettledIn(BlockedRest) = Ids(workflow) /\ workflow' = workflow
    BY WorkFacts, RestBlocked DEF Work, SemInv
  <2> HIDE DEF BlockedRest
  <2>2. Settled' = Ids(workflow)
    BY <1>5, <2>1, StatusReads
  <2>3. \A i \in DOMAIN workflow.nodes : workflow.nodes[i].id \in Ids(workflow)
    BY DEF Ids
  <2> QED
    BY <2>1, <2>2, <2>3 DEF PassInv
<1>6. CASE PassOver
  <2>1. /\ UNCHANGED <<results, progressed>> /\ cursor' = cursor + 1
        /\ cursor \in DOMAIN workflow.nodes
        /\ Current.id \in Settled \/ DependencyState(Current) = "waiting"
    BY <1>0, <1>6 DEF PassOver
  <2>2. Current.id \in Settled \/ WaitsFor(Current)
    BY <2>1, WorkFacts, DependencyStates DEF Work, SemInv, Current
  <2>3. ASSUME NEW i \in DOMAIN workflow.nodes, i < cursor'
        PROVE  \/ i < cursor \/ workflow.nodes[i].id \in Settled \/ WaitsFor(workflow.nodes[i])
    <3>1. i < cursor \/ i = cursor
      BY <1>0, <2>1, <2>3
    <3> QED
      BY <2>2, <3>1 DEF Current
  <2> QED
    BY <1>3, <2>1, <2>3
<1>7. CASE EndPass /\ UNCHANGED results /\ results' # BlockedRest
  <2>1. cursor' = 1
    BY <1>7 DEF EndPass
  <2>2. \A i \in DOMAIN workflow.nodes : ~(i < cursor')
    BY <1>0, <2>1
  <2> QED
    BY <1>0, <2>2 DEF PassInv
<1>8. CASE UNCHANGED <<results, cursor, progressed>>
  BY <1>3, <1>8
<1>9. CASE Works \/ Checks \/ Asks \/ TakesAnswer
  BY <1>8, <1>9 DEF Works, OperateSemantic, semanticVars, Checks, CheckNext, VerifierAnswered,
                    Asks, TakesAnswer
<1>10. CASE EndPass \/ StopRest
  BY <1>5, <1>7, <1>10 DEF EndPass, StopRest
<1> QED
  BY <1>0, <1>4, <1>6, <1>9, <1>10, WorkMoves

(* ReportMeans is kept: it is the end of the run that makes the report.    *)
LEMMA ReportKept == ASSUME Work PROVE ReportMeans'
<1>1. CASE UNCHANGED report
  <2>1. report'.process # "matched" /\ report'.result # "equivalent"
    BY <1>1, WorkFacts DEF NoReport
  <2> QED
    BY <2>1 DEF ReportMeans
<1>2. CASE Finish
  <2>0. /\ UNCHANGED <<executed, workflow, results>> /\ Pending = {} /\ attempt = 0
    BY <1>2 DEF Finish, Scheduling
  <2> DEFINE missing == \E id \in workflow.outputs : StatusOf(id) # "completed"
             matched == \A i \in DOMAIN results :
                          /\ results[i].status = "completed" /\ results[i].attempts = 1
                          /\ results[i].node = workflow.nodes[i].id
  <2>1. /\ report'.process = "matched" => matched
        /\ report'.result = "equivalent" =>
             diagnostics = {} /\ ~missing /\ runStatus' = "completed"
    <3>1. PICK schemasHold \in BOOLEAN :
            LET complete == diagnostics = {} /\ ~missing /\ (schemasHold \/ workflow.outputs = {})
            IN /\ EndRun(IF complete THEN "completed" ELSE "failed")
               /\ report' = [process |-> IF matched THEN "matched" ELSE "diverged",
                             result |-> IF complete THEN "equivalent" ELSE "not_equivalent"]
      BY <1>2, Zenon DEF Finish
    <3> HIDE DEF matched, missing
    <3> QED
      BY <3>1 DEF EndRun
  <2>2. /\ DOMAIN results = 1..Len(results) /\ Len(results) \in Nat
        /\ Settled \subseteq Ids(workflow) /\ Ids(workflow) \subseteq Settled
    <3>1. Settled \subseteq Ids(workflow)
      <4>1. \A i \in DOMAIN results : results[i].node \in Ids(workflow)
        BY WorkFacts, StatusFacts
      <4> QED
        BY <4>1 DEF Settled
    <3>2. Ids(workflow) \subseteq Settled
      BY <2>0 DEF Pending, Ids
    <3> QED
      BY <3>1, <3>2, SettledKept
  <2>3. /\ Settled' = Settled /\ \A id : StatusOf(id)' = StatusOf(id)
        /\ AgentRuns' = AgentRuns
    BY <2>0 DEF Settled, StatusOf, AgentRuns
  <2>4. ASSUME matched
        PROVE  /\ Cardinality(AgentRuns) = Len(workflow.nodes)
               /\ \A k \in DOMAIN workflow.nodes :
                    executed[Position(AgentRuns, k)].action.target = workflow.nodes[k].id
    <3>1. AllFirst
      BY <2>4 DEF AllFirst
    <3>2. ~Ran
      BY <2>0 DEF Ran
    <3>3. /\ Cardinality(AgentRuns) = Len(results)
          /\ \A i \in AgentRuns :
               executed[i].action.target = IF RankIn(AgentRuns, i) <= Len(results)
                                           THEN results[RankIn(AgentRuns, i)].node
                                           ELSE Current.id
      BY <2>0, <2>2, <3>1, <3>2 DEF Work, SemInv, CountInv
    <3>4. Len(results) = Len(workflow.nodes)
      <4> DEFINE N == Len(workflow.nodes)
                 at == [i \in DOMAIN results |->
                          CHOOSE k \in 1..N : workflow.nodes[k].id = results[i].node]
      <4>1. N \in Nat /\ DOMAIN workflow.nodes = 1..N
        BY WorkFacts
      <4>2. \A i \in DOMAIN results : \E k \in 1..N : workflow.nodes[k].id = results[i].node
        <5>1. \A i \in DOMAIN results : results[i].node \in Ids(workflow)
          BY WorkFacts, StatusFacts
        <5> QED
          BY <4>1, <5>1 DEF Ids
      <4>3. \A i \in DOMAIN results : at[i] \in 1..N /\ workflow.nodes[at[i]].id = results[i].node
        BY <4>2
      <4>4. \A i, j \in DOMAIN results : at[i] = at[j] => i = j
        BY <4>3, WorkFacts DEF Distinct
      <4>5. ASSUME NEW k \in 1..N PROVE \E i \in DOMAIN results : at[i] = k
        <5>1. workflow.nodes[k].id \in Settled
          BY <2>2, <4>1 DEF Ids
        <5>2. PICK i \in DOMAIN results : results[i].node = workflow.nodes[k].id
          BY <5>1 DEF Settled
        <5>3. at[i] \in 1..N /\ workflow.nodes[at[i]].id = workflow.nodes[k].id
          BY <4>3, <5>2
        <5>4. at[i] = k
          <6> HIDE DEF at
          <6> QED
            BY <4>1, <5>3, WorkFacts DEF ValidWorkflow
        <5> QED
          BY <5>4
      <4>6. at = [i \in DOMAIN results |-> at[i]]
        OBVIOUS
      <4> HIDE DEF at, N
      <4>7. at \in [1..Len(results) -> 1..N]
        BY <2>2, <4>3, <4>6
      <4>8. /\ \A i, j \in 1..Len(results) : at[i] = at[j] => i = j
            /\ \A k \in 1..N : \E i \in 1..Len(results) : at[i] = k
        BY <2>2, <4>4, <4>5
      <4>9. Len(results) = N
        <5>1. Corresponding(at, Len(results), N)
          BY <4>7, <4>8 DEF Corresponding
        <5> QED
          BY <2>2, <4>1, <5>1, SameLength
      <4> QED
        BY <4>9 DEF N
    <3>5. ASSUME NEW k \in DOMAIN workflow.nodes
          PROVE  executed[Position(AgentRuns, k)].action.target = workflow.nodes[k].id
      <4>1. k \in 1..Len(results) /\ k \in 1..Cardinality(AgentRuns)
        BY <3>3, <3>4, WorkFacts
      <4>2. Position(AgentRuns, k) \in AgentRuns /\ RankIn(AgentRuns, Position(AgentRuns, k)) = k
        <5>1. AgentRuns \subseteq 1..Len(executed) /\ Len(executed) \in Nat
          BY AgentRunFacts
        <5> HIDE DEF AgentRuns
        <5> QED
          BY <4>1, <5>1, PositionFacts
      <4>3. results[k].node = workflow.nodes[k].id
        BY <2>2, <2>4, <4>1
      <4> QED
        BY <2>2, <3>3, <4>1, <4>2, <4>3
    <3> QED
      BY <3>3, <3>4, <3>5
  <2>5. ASSUME diagnostics = {}, NEW id \in Ids(workflow)
        PROVE  \/ StatusOf(id) \in {"completed", "skipped"}
               \/ /\ StatusOf(id) = "blocked"
                  /\ \E of \in DependsOn(workflow, id) :
                       StatusOf(of) \in {"completed", "skipped", "blocked"}
    <3>1. ASSUME NEW node \in Settled
          PROVE  /\ StatusOf(node) \in {"completed", "skipped", "blocked"}
                 /\ StatusOf(node) = "blocked" =>
                      \E of \in DependsOn(workflow, node) : of \in Settled
      <4>1. PICK i \in DOMAIN results : results[i].node = node
        BY DEF Settled
      <4>2. StatusOf(node) = results[i].status /\ results[i].status \in Statuses
        BY <4>1, WorkFacts, StatusReads, StatusFacts
      <4>3. /\ results[i].status # "failed"
            /\ results[i].status = "blocked" =>
                 \E of \in DependsOn(workflow, results[i].node) : of \in Settled
        BY <2>5, WorkFacts DEF Work, SemInv, OutcomeInv
      <4> QED
        BY <4>1, <4>2, <4>3 DEF Statuses
    <3> QED
      BY <2>2, <3>1
  <2>6. /\ workflow' = workflow /\ executed' = executed
        /\ \A id : DependsOn(workflow, id)' = DependsOn(workflow, id)
    BY <2>0
  <2> HIDE DEF matched, missing
  <2>7. report'.process = "matched" =>
          /\ Cardinality(AgentRuns)' = Len(workflow'.nodes)
          /\ \A k \in DOMAIN workflow'.nodes :
               executed'[Position(AgentRuns', k)].action.target = workflow'.nodes[k].id
    BY <2>1, <2>3, <2>4, <2>6
  <2>8. report'.result = "equivalent" =>
          /\ runStatus' = "completed"
          /\ \A id \in workflow'.outputs : StatusOf(id)' = "completed"
          /\ \A id \in Ids(workflow)' :
               \/ StatusOf(id)' \in {"completed", "skipped"}
               \/ /\ StatusOf(id)' = "blocked"
                  /\ \E of \in DependsOn(workflow, id)' :
                       StatusOf(of)' \in {"completed", "skipped", "blocked"}
    BY <2>1, <2>3, <2>5, <2>6 DEF missing
  <2>9. \A k : Position(AgentRuns, k)' = Position(AgentRuns', k)
    BY DEF Position
  <2> QED
    BY <2>7, <2>8, <2>9 DEF ReportMeans
<1> QED
  BY <1>1, <1>2, WorkMoves

-----------------------------------------------------------------------------
(* An operation that throws, or a refused event, ends the run as it is.    *)
LEMMA ThrowKeeps ==
  ASSUME PolicyInv, RunnerInv, SemInv, SemanticRuns, SemanticThrows, UNCHANGED mode
  PROVE  SemInv'
<1>0. /\ UNCHANGED semanticVars /\ runStatus' = "rejected" /\ log' = log
      /\ \/ executed' = executed
         \/ job.step = "operating" /\ \E outcome : executed' = Append(executed, Execution(outcome))
  BY DEF SemanticThrows, OperationThrows, RecorderRefuses
<1>1. /\ UNCHANGED <<workflow, results, diagnostics, report>> /\ IsSeq(executed)
      /\ report = NoReport
  BY <1>0 DEF semanticVars, PolicyInv, RunnerInv, SemanticRuns
<1>2. WorkInv' /\ LastInv' /\ CheckingInv' /\ CountInv' /\ PassInv'
  BY <1>0 DEF WorkInv, LastInv, CheckingInv, CountInv, PassInv, SemanticRuns
<1>3. ResultsInv'
  <2>1. ResultsInv
    BY DEF SemInv
  <2>2. Result(workflow)' = Result(workflow)
    BY <1>1
  <2> QED
    BY <1>1, <2>1, <2>2 DEF ResultsInv, Distinct
<1>4. DoneInv'
  BY <1>0, <1>1 DEF SemInv, DoneInv
<1>5. OutcomeInv'
  <2>1. Settled' = Settled /\ \A id : DependsOn(workflow, id)' = DependsOn(workflow, id)
    BY <1>1 DEF Settled
  <2> QED
    BY <1>1, <2>1 DEF SemInv, OutcomeInv
<1>6. CompletionVerified'
  <2>1. \A p \in DOMAIN log' : Completion(log'[p]) =>
          \E i \in DOMAIN executed' : Vouches(workflow', executed', log'[p], p, i)
    BY <1>0, <1>1, CompletionsStand
  <2> QED
    BY <2>1, CompletionReadsNext
<1>7. ReportMeans'
  <2>1. report'.process # "matched" /\ report'.result # "equivalent"
    BY <1>1 DEF NoReport
  <2> QED
    BY <2>1 DEF ReportMeans
<1> QED
  BY <1>2, <1>3, <1>4, <1>5, <1>6, <1>7 DEF SemInv

(* Everything a session keeps true about its runner.                       *)
SessionInv == TraceInv /\ PolicyInv /\ AuditInv /\ RunnerInv /\ SemInv

(* A session starts with all of it.                                        *)
LEMMA SessionStarts == ASSUME Init PROVE SessionInv
<1>1. TraceInv /\ PolicyInv /\ AuditInv /\ RunnerInv
  BY TraceStarts, PolicyStart, RunnerStarts
<1>2. Quiet
  <2>1. /\ workflow \in Workflow /\ Unstarted /\ report = NoReport /\ mode = "none" /\ log = <<>>
    BY <1>1 DEF RunnerInv, Init, PolicyInit
  <2>2. report.process # "matched" /\ report.result # "equivalent" /\ DOMAIN log = {}
    BY <2>1 DEF NoReport
  <2> QED
    BY <2>1, <2>2 DEF Quiet
<1> QED
  BY <1>1, <1>2, QuietHolds DEF SessionInv

(* A session without a document at work is quiet.                          *)
LEMMA QuietRunner ==
  ASSUME RunnerInv', mode' # "semantic" \/ Barren' PROVE Quiet'
<1>1. workflow' \in Workflow
  BY DEF RunnerInv
<1>2. CASE mode' # "semantic"
  <2>1. Unstarted' /\ report' = NoReport
        /\ \A p \in DOMAIN log' : Decided(log'[p]) => log'[p].value # "completed"
    BY <1>2 DEF RunnerInv, Decided
  <2>2. report'.process # "matched" /\ report'.result # "equivalent"
    BY <2>1 DEF NoReport
  <2> QED
    BY <1>1, <1>2, <2>1, <2>2 DEF Quiet, Completion, Decided
<1>3. CASE Barren'
  BY <1>1, <1>3 DEF Quiet, Barren, Completion, Decided
<1> QED
  BY <1>2, <1>3

(* Every step of a session keeps all of it.                                *)
LEMMA SessionKept == ASSUME SessionInv, [Next]_vars PROVE SessionInv'
<1>1. TraceInv /\ PolicyInv /\ AuditInv /\ RunnerInv /\ SemInv /\ WorkInv
  BY DEF SessionInv, SemInv
<1>2. TraceInv' /\ PolicyInv' /\ AuditInv' /\ RunnerInv'
  BY <1>1, TraceKept, PolicyKept, AuditKept, RunnerKept
<1> SUFFICES SemInv'
  BY <1>2 DEF SessionInv
<1>3. ASSUME Quiet' PROVE SemInv'
  BY <1>3, QuietHoldsNext
<1>4. CASE NewRunner
  <2>1. CASE mode' # "semantic"
    BY <1>2, <1>3, <2>1, QuietRunner
  <2>2. CASE mode' = "semantic"
    <3>1. /\ runStatus = "none" /\ job = Idle /\ executed = <<>> /\ log = <<>>
          /\ Unstarted /\ report = NoReport
      BY <1>1, <1>4 DEF NewRunner, RunnerInv
    <3>2. /\ UNCHANGED <<runStatus, job, executed, log>>
          /\ UNCHANGED <<results, cursor, progressed, attempt, checking, report>>
      BY <1>4, <2>2 DEF NewRunner, NewSemanticRunner, policyVars
    <3>3. Barren'
      BY <3>1, <3>2 DEF Barren, Unstarted, NoReport
    <3> QED
      BY <1>2, <1>3, <3>3, QuietRunner
  <2> QED
    BY <2>1, <2>2
<1>5. CASE mode = "semantic" /\ (SemanticStep \/ SemanticThrows) /\ UNCHANGED mode
  <2>1. CASE runStatus # "running"
    <3>1. StartSemantic
      BY <1>5, <2>1, RunOver
    <3>2. /\ RunnerInv' /\ Unstarted' /\ job' = Idle /\ executed' = <<>>
          /\ Barren' \/ (log' = <<RunEvent("run.started", {})>> /\ report' = NoReport)
      BY <1>1, <1>5, <3>1, StartKeeps
    <3>3. CASE log' = <<RunEvent("run.started", {})>> /\ report' = NoReport
      <4>1. \A p \in DOMAIN log' : ~Decided(log'[p])
        <5>1. DOMAIN log' = {1} /\ log'[1] = RunEvent("run.started", {})
          BY <3>3
        <5> QED
          BY <5>1, EventTypes DEF Decided
      <4>2. report'.process # "matched" /\ report'.result # "equivalent"
        BY <3>3 DEF NoReport
      <4>3. workflow' \in Workflow
        BY <3>2 DEF RunnerInv
      <4>4. Quiet'
        BY <3>2, <4>1, <4>2, <4>3 DEF Quiet, Completion, Decided
      <4> QED
        BY <1>3, <4>4
    <3> QED
      BY <1>3, <3>2, <3>3, QuietRunner
  <2>2. CASE SemanticRuns /\ SemanticStep
    <3>1. Work
      BY <1>1, <1>5, <2>2 DEF Work
    <3> QED
      BY <3>1, ResultsKept, WorkKept, LastKept, CheckingKept, DoneKept, CountKept, OutcomeKept,
         PassKept, CompletionKept, ReportKept DEF SemInv
  <2>3. CASE SemanticRuns /\ SemanticThrows
    BY <1>1, <1>5, <2>3, ThrowKeeps
  <2> QED
    BY <1>5, <2>1, <2>2, <2>3 DEF SemanticRuns
<1>6. CASE mode \in {"mock", "verified"} /\ UNCHANGED <<mode, semanticVars>>
  BY <1>2, <1>3, <1>6, QuietRunner
<1>7. CASE UNCHANGED <<mode, policyVars, semanticVars>>
  <2>1. UNCHANGED <<mode, log, executed, job, runStatus, workflow, agent, results, cursor,
                    progressed, attempt, checking, diagnostics, report>>
    BY <1>7 DEF policyVars, semanticVars
  <2>2. SemInv' <=> SemInv
    BY <2>1 DEF SemInv, ResultsInv, WorkInv, LastInv, CheckingInv, DoneInv, CountInv, OutcomeInv,
       PassInv, CompletionVerified, ReportMeans, SemanticRuns, Result, Ids, Current, Settled,
       AgentAction, VerifierAction, Owed, AllFirst, Ran, AgentRuns, RankIn, DependsOn,
       WaitsFor, StatusOf, Position, Distinct
  <2> QED
    BY <1>1, <2>2
<1> QED
  BY <1>4, <1>5, <1>6, <1>7 DEF Next, RunnerStep, vars

(* A node the log calls completed got a good output from the agent, which  *)
(* each of its verifiers ran on and accepted at that attempt, and the agent*)
(* never runs for it again (SemanticReplayRunner.executeNode, verifyNode,  *)
(* run).                                                                   *)
THEOREM CompletionIsVerified == Spec => []CompletionVerified
<1>1. Init => SessionInv
  BY SessionStarts
<1>2. SessionInv /\ [Next]_vars => SessionInv'
  BY SessionKept
<1>3. SessionInv => CompletionVerified
  BY DEF SessionInv, SemInv
<1> QED
  BY <1>1, <1>2, <1>3, PTL DEF Spec

(* What "matched" and "equivalent" in the report of a semantic replay may  *)
(* be relied on for (SemanticReplayRunner.run, matchedProcess).            *)
THEOREM ReportIsMeant == Spec => []ReportMeans
<1>1. Init => SessionInv
  BY SessionStarts
<1>2. SessionInv /\ [Next]_vars => SessionInv'
  BY SessionKept
<1>3. SessionInv => ReportMeans
  BY DEF SessionInv, SemInv
<1> QED
  BY <1>1, <1>2, <1>3, PTL DEF Spec

-----------------------------------------------------------------------------
(* The document and its nodes as WorkflowSchedule sees them.               *)
Waits ==
  UNION {{[node |-> workflow.nodes[i].id, of |-> workflow.nodes[i].deps[d].of,
           on |-> workflow.nodes[i].deps[d].on]
            : d \in DOMAIN workflow.nodes[i].deps}
           : i \in DOMAIN workflow.nodes}
Stops ==
  {workflow.nodes[i].id : i \in {k \in DOMAIN workflow.nodes :
                                   workflow.nodes[k].onFailure = "stop"}}
Outcome == [id \in Ids(workflow) |-> StatusOf(id)]
AtWork ==
  {workflow.nodes[i].id : i \in {k \in DOMAIN workflow.nodes : k = cursor /\ attempt > 0}}

Unsettled(n) == n \in DOMAIN Outcome /\ Outcome[n] = "open"
Meets(d) == Outcome[d.of] \in Wanted[d.on]
Halted == \E n \in Stops : Outcome[n] = "failed"
AllOpen == \A n \in DOMAIN Outcome : Outcome[n] = "open"

(* Its actions in these words.                                             *)
LEMMA ScheduleActions ==
  /\ AllOpen /\ AtWork = {} => Schedule!Init
  /\ AllOpen /\ AtWork = {} /\ AllOpen' /\ AtWork' = {} => Schedule!Next
  /\ UNCHANGED <<Waits, Stops, Outcome, AtWork>> => UNCHANGED Schedule!scheduleVars
  /\ UNCHANGED <<Waits, Stops>> =>
       /\ \A n : /\ AtWork = {} /\ Unsettled(n) /\ ~Halted
                 /\ \A d \in Waits : d.node = n => Meets(d)
                 /\ \/ AtWork' = {n} /\ UNCHANGED Outcome
                    \/ Outcome' = [Outcome EXCEPT ![n] = "skipped"] /\ UNCHANGED AtWork
            => Schedule!Next
       /\ \A n : /\ n \in DOMAIN Outcome /\ AtWork = {n} /\ AtWork' = {}
                 /\ \/ Outcome' = [Outcome EXCEPT ![n] = "completed"]
                    \/ Outcome' = [Outcome EXCEPT ![n] = "failed"]
            => Schedule!Next
       /\ \A n : /\ AtWork = {} /\ Unsettled(n) /\ ~Halted
                 /\ \E d \in Waits : d.node = n /\ Outcome[d.of] # "open" /\ ~Meets(d)
                 /\ Outcome' = [Outcome EXCEPT ![n] = "blocked"] /\ UNCHANGED AtWork
            => Schedule!Next
       /\ (/\ AtWork = {} /\ Halted /\ UNCHANGED AtWork
           /\ Outcome' = [n \in DOMAIN Outcome |->
                            IF Outcome[n] # "open" THEN Outcome[n] ELSE "blocked"])
            => Schedule!Next
<1> USE DEF Waits, Stops, Outcome, AtWork, Unsettled, Meets, Halted, AllOpen,
            Schedule!Wanted, Wanted, Schedule!Nodes, Schedule!Settled, Schedule!Met, Schedule!Of,
            Schedule!Stopped, Schedule!Open, Schedule!documentVars
<1>1. AllOpen /\ AtWork = {} => Schedule!Init
  BY Zenon DEF Schedule!Init
<1>2. AllOpen /\ AtWork = {} /\ AllOpen' /\ AtWork' = {} => Schedule!Next
  BY Zenon DEF Schedule!Next, Schedule!Adopt
<1>3. UNCHANGED <<Waits, Stops, Outcome, AtWork>> => UNCHANGED Schedule!scheduleVars
  BY Zenon DEF Schedule!scheduleVars
<1>4. ASSUME UNCHANGED <<Waits, Stops>>, NEW n, AtWork = {}, Unsettled(n), ~Halted,
             \A d \in Waits : d.node = n => Meets(d), AtWork' = {n}, UNCHANGED Outcome
      PROVE  Schedule!Next
  <2>1. Schedule!Begin(n)
    BY <1>4 DEF Schedule!Begin
  <2> QED
    BY <1>4, <2>1, Zenon DEF Schedule!Next
<1>5. ASSUME UNCHANGED <<Waits, Stops>>, NEW n, AtWork = {}, Unsettled(n), ~Halted,
             \A d \in Waits : d.node = n => Meets(d),
             Outcome' = [Outcome EXCEPT ![n] = "skipped"], UNCHANGED AtWork
      PROVE  Schedule!Next
  <2>1. Schedule!Skip(n)
    BY <1>5 DEF Schedule!Skip
  <2> QED
    BY <1>5, <2>1, Zenon DEF Schedule!Next
<1>6. ASSUME UNCHANGED <<Waits, Stops>>, NEW n \in DOMAIN Outcome, AtWork = {n}, AtWork' = {},
             \/ Outcome' = [Outcome EXCEPT ![n] = "completed"]
             \/ Outcome' = [Outcome EXCEPT ![n] = "failed"]
      PROVE  Schedule!Next
  <2>1. Schedule!End(n)
    BY <1>6 DEF Schedule!End
  <2> QED
    BY <1>6, <2>1, Zenon DEF Schedule!Next
<1>7. ASSUME UNCHANGED <<Waits, Stops>>, NEW n, AtWork = {}, Unsettled(n), ~Halted,
             \E d \in Waits : d.node = n /\ Outcome[d.of] # "open" /\ ~Meets(d),
             Outcome' = [Outcome EXCEPT ![n] = "blocked"], UNCHANGED AtWork
      PROVE  Schedule!Next
  <2>1. Schedule!Block(n)
    BY <1>7 DEF Schedule!Block
  <2> QED
    BY <1>7, <2>1, Zenon DEF Schedule!Next
<1>8. ASSUME UNCHANGED <<Waits, Stops>>, AtWork = {}, Halted, UNCHANGED AtWork,
             Outcome' = [n \in DOMAIN Outcome |->
                           IF Outcome[n] # "open" THEN Outcome[n] ELSE "blocked"]
      PROVE  Schedule!Next
  <2>1. Schedule!BlockRest
    BY <1>8 DEF Schedule!BlockRest
  <2> QED
    BY <1>8, <2>1, Zenon DEF Schedule!Next
<1> HIDE DEF Waits, Stops, Outcome, AtWork, Unsettled, Meets, Halted, AllOpen
<1> QED
  BY <1>1, <1>2, <1>3, <1>4, <1>5, <1>6, <1>7, <1>8

(* The mapping while a document is worked on.                              *)
LEMMA MapFacts ==
  ASSUME Work
  PROVE  /\ UNCHANGED <<Waits, Stops>>
         /\ DOMAIN Outcome = Ids(workflow) /\ DOMAIN Outcome' = Ids(workflow)
         /\ \A id \in Ids(workflow) : Outcome[id] = StatusOf(id) /\ Outcome'[id] = StatusOf(id)'
         /\ attempt = 0 => AtWork = {}
         /\ attempt' = 0 => AtWork' = {}
         /\ attempt > 0 /\ cursor \in DOMAIN workflow.nodes => AtWork = {Current.id}
         /\ attempt' > 0 /\ cursor' \in DOMAIN workflow.nodes
              => AtWork' = {workflow.nodes[cursor'].id}
         /\ Halted <=> Stopped
<1>1. workflow' = workflow
  BY WorkFacts
<1>2. UNCHANGED <<Waits, Stops>>
  BY <1>1 DEF Waits, Stops
<1>3. /\ DOMAIN Outcome = Ids(workflow) /\ DOMAIN Outcome' = Ids(workflow)
      /\ \A id \in Ids(workflow) : Outcome[id] = StatusOf(id) /\ Outcome'[id] = StatusOf(id)'
  <2>1. Ids(workflow)' = Ids(workflow)
    BY <1>1
  <2> QED
    BY <2>1 DEF Outcome
<1>4. /\ attempt = 0 => AtWork = {}
      /\ attempt' = 0 => AtWork' = {}
      /\ attempt > 0 /\ cursor \in DOMAIN workflow.nodes => AtWork = {Current.id}
      /\ attempt' > 0 /\ cursor' \in DOMAIN workflow.nodes
           => AtWork' = {workflow.nodes[cursor'].id}
  BY <1>1 DEF AtWork, Current
<1>5. Halted <=> Stopped
  <2>1. \A i \in DOMAIN workflow.nodes :
          Outcome[workflow.nodes[i].id] = StatusOf(workflow.nodes[i].id)
    BY <1>3 DEF Ids
  <2> HIDE DEF Outcome
  <2> QED
    BY <2>1 DEF Halted, Stopped, Stops
<1> QED
  BY <1>2, <1>3, <1>4, <1>5

(* What the node at the cursor waits for.                                  *)
LEMMA WaitFacts ==
  ASSUME Work, cursor \in DOMAIN workflow.nodes
  PROVE  /\ \A d \in Waits : d.node = Current.id =>
              \E k \in DOMAIN Current.deps : /\ d.of = Current.deps[k].of
                                             /\ d.on = Current.deps[k].on
         /\ \A k \in DOMAIN Current.deps :
              /\ Current.deps[k].of \in Ids(workflow)
              /\ \E d \in Waits : /\ d.node = Current.id /\ d.of = Current.deps[k].of
                                  /\ d.on = Current.deps[k].on
         /\ Current \in Node /\ Current.id \in Ids(workflow)
<1>1. ValidWorkflow(workflow) /\ Current \in Node /\ Current.id \in Ids(workflow)
  BY WorkFacts DEF Current, Ids
<1>2. ASSUME NEW d \in Waits, d.node = Current.id
      PROVE  \E k \in DOMAIN Current.deps : d.of = Current.deps[k].of /\ d.on = Current.deps[k].on
  <2>1. PICK i \in DOMAIN workflow.nodes : \E k \in DOMAIN workflow.nodes[i].deps :
          d = [node |-> workflow.nodes[i].id, of |-> workflow.nodes[i].deps[k].of,
               on |-> workflow.nodes[i].deps[k].on]
    BY DEF Waits
  <2>2. workflow.nodes[i].id = workflow.nodes[cursor].id
    BY <1>2, <2>1 DEF Current
  <2>3. i = cursor
    BY <1>1, <2>2 DEF ValidWorkflow
  <2> QED
    BY <2>1, <2>3 DEF Current
<1>3. ASSUME NEW k \in DOMAIN Current.deps
      PROVE  /\ Current.deps[k].of \in Ids(workflow)
             /\ \E d \in Waits : /\ d.node = Current.id /\ d.of = Current.deps[k].of
                                 /\ d.on = Current.deps[k].on
  <2> DEFINE d == [node |-> Current.id, of |-> Current.deps[k].of, on |-> Current.deps[k].on]
  <2>1. d \in Waits
    BY DEF Waits, Current
  <2>2. Current.deps[k].of \in DependsOn(workflow, Current.id)
    BY <1>1, DependsOnFacts DEF Current
  <2>3. Current.deps[k].of \in Ids(workflow)
    BY <1>1, <2>2 DEF ValidWorkflow, Current
  <2> QED
    BY <2>1, <2>3
<1> QED
  BY <1>1, <1>2, <1>3

(* A node that settles does so in the schedule.                            *)
LEMMA SettlesMaps ==
  ASSUME Work, NEW status \in Statuses, NEW n \in Nat, Settles(status, n)
  PROVE  /\ Outcome' = [Outcome EXCEPT ![Current.id] = status]
         /\ Unsettled(Current.id) /\ AtWork' = {}
<1>1. /\ \A id : StatusOf(id)' = IF id = Current.id THEN status ELSE StatusOf(id)
      /\ Current.id \in Ids(workflow) /\ Current.id \notin Settled
  BY SettlesFacts
<1>2. attempt' = 0
  BY DEF Settles
<1>3. Outcome = [id \in Ids(workflow) |-> StatusOf(id)]
      /\ Outcome' = [id \in Ids(workflow) |-> StatusOf(id)']
  <2>1. Ids(workflow)' = Ids(workflow)
    BY WorkFacts
  <2> QED
    BY <2>1 DEF Outcome
<1>4. Outcome' = [Outcome EXCEPT ![Current.id] = status]
  BY <1>1, <1>3
<1>5. Unsettled(Current.id)
  BY <1>1, <1>3, SettledKept DEF Unsettled
<1> QED
  BY <1>2, <1>4, <1>5, MapFacts

(* No results and no node at work any more or less: nothing for the        *)
(* schedule.                                                               *)
LEMMA StutterMaps ==
  ASSUME Work, UNCHANGED results,
         \/ attempt = 0 /\ attempt' = 0
         \/ attempt > 0 /\ attempt' > 0 /\ UNCHANGED cursor
  PROVE  UNCHANGED Schedule!scheduleVars
<1>1. Outcome' = Outcome
  <2>1. Ids(workflow)' = Ids(workflow) /\ \A id : StatusOf(id)' = StatusOf(id)
    BY WorkFacts DEF StatusOf, Settled
  <2> QED
    BY <2>1 DEF Outcome
<1>2. AtWork' = AtWork
  <2>1. CASE attempt = 0 /\ attempt' = 0
    BY <2>1, MapFacts
  <2>2. CASE attempt > 0 /\ attempt' > 0 /\ UNCHANGED cursor
    BY <2>2, WorkFacts DEF AtWork
  <2> QED
    BY <2>1, <2>2
<1> QED
  BY <1>1, <1>2, MapFacts, ScheduleActions

(* A pass without progress that goes over everything leaves nothing open:  *)
(* what it left would wait for itself.                                     *)
LEMMA NothingUnresolved ==
  ASSUME Work, ~progressed, cursor > Len(workflow.nodes) PROVE Pending = {}
<1> SUFFICES ASSUME Pending # {} PROVE FALSE
  OBVIOUS
<1> DEFINE S == {workflow.nodes[i].id : i \in Pending}
<1>0. /\ ValidWorkflow(workflow) /\ SemanticRuns /\ PassInv
      /\ DOMAIN workflow.nodes = 1..Len(workflow.nodes) /\ Len(workflow.nodes) \in Nat
      /\ cursor \in Nat
  BY WorkFacts, WorkStands DEF Work, SemInv
<1>1. S # {} /\ S \in SUBSET Ids(workflow)
  BY DEF Pending, Ids
<1>2. ASSUME NEW i \in Pending PROVE DependsOn(workflow, workflow.nodes[i].id) \cap S # {}
  <2>1. i \in DOMAIN workflow.nodes /\ workflow.nodes[i].id \notin Settled /\ i < cursor
    BY <1>0 DEF Pending
  <2>2. WaitsFor(workflow.nodes[i])
    BY <1>0, <2>1 DEF PassInv
  <2>3. PICK d \in DOMAIN workflow.nodes[i].deps :
          StatusOf(workflow.nodes[i].deps[d].of) = "open"
    BY <2>2 DEF WaitsFor
  <2> DEFINE of == workflow.nodes[i].deps[d].of
  <2>4. of \notin Settled
    BY <2>3, SettledKept
  <2>5. of \in DependsOn(workflow, workflow.nodes[i].id)
    BY <1>0, <2>1, DependsOnFacts
  <2>6. of \in Ids(workflow)
    BY <1>0, <2>1, <2>5 DEF ValidWorkflow
  <2>7. of \in S
    BY <2>4, <2>6 DEF Ids, Pending
  <2> QED
    BY <2>5, <2>7
<1>3. \A id \in S : DependsOn(workflow, id) \cap S # {}
  BY <1>2
<1> HIDE DEF S
<1>4. Cyclic(workflow)
  BY <1>1, <1>3 DEF Cyclic
<1> QED
  BY <1>0, <1>4 DEF ValidWorkflow

(* Every step of the runner at work is one of the schedule, or none.       *)
LEMMA WorkMaps == ASSUME Work PROVE [Schedule!Next]_(Schedule!scheduleVars)
<1>0. /\ attempt \in Nat /\ cursor \in Nat /\ workflow' = workflow
      /\ UNCHANGED <<Waits, Stops>>
      /\ DOMAIN workflow.nodes = 1..Len(workflow.nodes) /\ Len(workflow.nodes) \in Nat
  BY WorkStands, WorkFacts, MapFacts
<1>1. ASSUME DependencyState(Current) = "ready", cursor \in DOMAIN workflow.nodes
      PROVE  \A d \in Waits : d.node = Current.id => Meets(d)
  <2>1. ASSUME NEW d \in Waits, d.node = Current.id PROVE Meets(d)
    <3>1. PICK k \in DOMAIN Current.deps : d.of = Current.deps[k].of /\ d.on = Current.deps[k].on
      BY <1>1, <2>1, WaitFacts
    <3>2. StatusOf(Current.deps[k].of) \in Wanted[Current.deps[k].on]
      BY <1>1, WaitFacts, DependencyStates DEF Work, SemInv
    <3>3. Outcome[d.of] = StatusOf(d.of)
      BY <1>1, <3>1, WaitFacts, MapFacts
    <3> QED
      BY <3>1, <3>2, <3>3 DEF Meets
  <2> QED
    BY <2>1
<1>2. CASE Elsewhere /\ Blocks
  <2>1. /\ Settles("blocked", 0) /\ "blocked" \in Statuses /\ attempt = 0 /\ ~Stopped
        /\ DependencyState(Current) = "blocked" /\ cursor \in DOMAIN workflow.nodes
        /\ attempt' = 0
    BY <1>2 DEF Blocks, Statuses, Settles
  <2>2. PICK k \in DOMAIN Current.deps :
          /\ Current.deps[k].of \in Settled
          /\ StatusOf(Current.deps[k].of) \notin Wanted[Current.deps[k].on]
    BY <2>1, WaitFacts, DependencyStates DEF Work, SemInv
  <2>3. PICK d \in Waits : /\ d.node = Current.id /\ d.of = Current.deps[k].of
                           /\ d.on = Current.deps[k].on
    BY <2>1, WaitFacts
  <2>4. Outcome[d.of] = StatusOf(d.of)
    BY <2>1, <2>3, WaitFacts, MapFacts
  <2>5. StatusOf(d.of) # "open"
    BY <2>2, <2>3, SettledKept
  <2>6. d.node = Current.id /\ Outcome[d.of] # "open" /\ ~Meets(d)
    BY <2>2, <2>3, <2>4, <2>5 DEF Meets
  <2>7. /\ Outcome' = [Outcome EXCEPT ![Current.id] = "blocked"]
        /\ Unsettled(Current.id) /\ AtWork' = {}
    BY <2>1, SettlesMaps
  <2>8. AtWork = {} /\ ~Halted
    BY <2>1, MapFacts
  <2> QED
    BY <1>0, <2>6, <2>7, <2>8, ScheduleActions
<1>3. CASE Elsewhere /\ Skips
  <2>1. /\ Settles("skipped", 0) /\ "skipped" \in Statuses /\ attempt = 0 /\ ~Stopped
        /\ DependencyState(Current) = "ready" /\ cursor \in DOMAIN workflow.nodes
    BY <1>3 DEF Skips, Statuses, Settles
  <2>2. /\ Outcome' = [Outcome EXCEPT ![Current.id] = "skipped"]
        /\ Unsettled(Current.id) /\ AtWork' = {}
    BY <2>1, SettlesMaps
  <2>3. AtWork = {} /\ ~Halted /\ \A d \in Waits : d.node = Current.id => Meets(d)
    BY <1>1, <2>1, MapFacts
  <2> QED
    BY <1>0, <2>2, <2>3, ScheduleActions
<1>4. CASE Elsewhere /\ (Fails \/ Completes)
  <2>1. PICK status \in {"failed", "completed"} : Settles(status, attempt) /\ attempt > 0
    BY <1>4 DEF Fails, Completes
  <2>2. status \in Statuses /\ cursor \in DOMAIN workflow.nodes
    BY <2>1 DEF Statuses, Settles
  <2>3. /\ Outcome' = [Outcome EXCEPT ![Current.id] = status]
        /\ Unsettled(Current.id) /\ AtWork' = {}
    BY <1>0, <2>1, <2>2, SettlesMaps
  <2>4. AtWork = {Current.id} /\ Current.id \in DOMAIN Outcome
    BY <2>1, <2>2, <2>3, MapFacts DEF Unsettled
  <2> QED
    BY <1>0, <2>1, <2>3, <2>4, ScheduleActions
<1>5. CASE Elsewhere /\ Asks
  <2>1. /\ UNCHANGED <<results, cursor>> /\ attempt' > 0 /\ cursor \in DOMAIN workflow.nodes
        /\ Current.id \notin Settled
        /\ attempt = 0 => ~Stopped /\ DependencyState(Current) = "ready"
    BY <1>0, <1>5 DEF Asks
  <2>2. CASE attempt > 0
    BY <2>1, <2>2, StutterMaps
  <2>3. CASE attempt = 0
    <3>1. AtWork = {} /\ AtWork' = {Current.id} /\ ~Halted
      BY <1>0, <2>1, <2>3, MapFacts DEF Current
    <3>2. \A d \in Waits : d.node = Current.id => Meets(d)
      BY <1>1, <2>1, <2>3
    <3>3. Outcome' = Outcome
      <4>1. Ids(workflow)' = Ids(workflow) /\ \A id : StatusOf(id)' = StatusOf(id)
        BY <2>1, WorkFacts DEF StatusOf, Settled
      <4> QED
        BY <4>1 DEF Outcome
    <3>4. Unsettled(Current.id)
      BY <2>1, WaitFacts, MapFacts, SettledKept DEF Unsettled
    <3> QED
      BY <1>0, <3>1, <3>2, <3>3, <3>4, ScheduleActions
  <2> QED
    BY <1>0, <2>2, <2>3
<1>6. CASE UNCHANGED results /\ (PassOver \/ EndPass \/ StopRest \/ Finish)
  <2>1. attempt = 0 /\ attempt' = 0
    BY <1>6 DEF PassOver, EndPass, StopRest, Finish, Scheduling
  <2> QED
    BY <1>6, <2>1, StutterMaps
<1>7. CASE Works \/ Checks \/ TakesAnswer
  <2>1. UNCHANGED <<results, cursor, attempt>>
    BY <1>7 DEF Works, OperateSemantic, semanticVars, Checks, CheckNext, VerifierAnswered,
                TakesAnswer
  <2> QED
    BY <1>0, <2>1, StutterMaps
<1>8. CASE results' = BlockedRest /\ Pending # {} /\ (EndPass \/ StopRest)
  <2>1. CASE EndPass
    <3>1. cursor > Len(workflow.nodes)
      BY <2>1 DEF EndPass
    <3>2. progressed /\ UNCHANGED results
      BY <1>8, <2>1, <3>1, NothingUnresolved DEF EndPass
    <3> QED
      BY <1>6, <2>1, <3>2
  <2>2. CASE StopRest
    <3>1. attempt = 0 /\ attempt' = 0 /\ Stopped
      BY <2>2 DEF StopRest, Scheduling
    <3>2. AtWork = {} /\ AtWork' = {} /\ Halted
      BY <3>1, MapFacts
    <3>3. \A id \in Ids(workflow) :
            StatusOf(id)' = IF StatusOf(id) # "open" THEN StatusOf(id) ELSE "blocked"
      <4>1. \A id \in Ids(workflow) \ Settled : StatusIn(BlockedRest, id) = "blocked"
        BY WorkFacts, RestBlocked DEF Work, SemInv
      <4>2. \A id \in Ids(workflow) \ Settled : StatusOf(id)' = "blocked"
        <5> HIDE DEF BlockedRest
        <5> QED
          BY <1>8, <4>1, StatusReads
      <4> QED
        BY <4>2, SettledKept
    <3>4. Outcome' = [n \in DOMAIN Outcome |->
                        IF Outcome[n] # "open" THEN Outcome[n] ELSE "blocked"]
      <4>1. /\ Outcome' = [id \in Ids(workflow) |-> StatusOf(id)']
            /\ Outcome = [id \in Ids(workflow) |-> StatusOf(id)]
        <5>1. Ids(workflow)' = Ids(workflow)
          BY WorkFacts
        <5> QED
          BY <5>1 DEF Outcome
      <4> QED
        BY <3>3, <4>1
    <3> QED
      BY <1>0, <3>2, <3>4, ScheduleActions
  <2> QED
    BY <1>8, <2>1, <2>2
<1>9. CASE EndPass \/ StopRest
  BY <1>2, <1>3, <1>4, <1>6, <1>8, <1>9, ResultsMove
<1>10. CASE PassOver \/ Finish
  <2>1. UNCHANGED results
    BY <1>10 DEF PassOver, Finish
  <2> QED
    BY <1>6, <1>10, <2>1
<1> QED
  BY <1>2, <1>3, <1>4, <1>5, <1>7, <1>9, <1>10, WorkMoves

(* Nothing has been looked at: a document may be put in place of another.  *)
NothingYet == AllOpen /\ AtWork = {}

(* A runner that has not started has looked at nothing.                    *)
LEMMA OpenMaps == Unstarted => NothingYet
<1>1. Unstarted => DOMAIN results = {} /\ attempt = 0
  BY DEF Unstarted
<1>2. DOMAIN results = {} => \A id : StatusOf(id) = "open"
  BY DEF StatusOf, Settled
<1>3. (\A id : StatusOf(id) = "open") => AllOpen
  BY DEF AllOpen, Outcome
<1>4. attempt = 0 => AtWork = {}
  BY DEF AtWork
<1> QED
  BY <1>1, <1>2, <1>3, <1>4 DEF NothingYet

(* After a step as well.                                                   *)
LEMMA OpenMapsNext == Unstarted' => NothingYet'
BY OpenMaps, PTL

(* Every step of a session.                                                *)
LEMMA SessionMaps ==
  ASSUME SessionInv, [Next]_vars PROVE [Schedule!Next]_(Schedule!scheduleVars)
<1>0. TraceInv /\ PolicyInv /\ AuditInv /\ RunnerInv /\ SemInv /\ WorkInv /\ RunnerInv'
  BY RunnerKept DEF SessionInv, SemInv
<1>1. ASSUME Unstarted, Unstarted' PROVE Schedule!Next
  BY <1>1, OpenMaps, OpenMapsNext, ScheduleActions DEF NothingYet
<1>2. CASE NewRunner
  <2>1. Unstarted
    BY <1>0, <1>2 DEF NewRunner, RunnerInv
  <2>2. UNCHANGED <<results, cursor, progressed, attempt, checking>>
    BY <1>2 DEF NewRunner, NewSemanticRunner, semanticVars
  <2>3. Unstarted'
    BY <2>1, <2>2 DEF Unstarted
  <2> QED
    BY <1>1, <2>1, <2>3
<1>3. CASE mode = "semantic" /\ (SemanticStep \/ SemanticThrows) /\ UNCHANGED mode
  <2>1. CASE runStatus # "running"
    BY <1>0, <1>1, <1>3, <2>1, RunOver, StartKeeps
  <2>2. CASE SemanticRuns /\ SemanticStep
    BY <1>0, <1>3, <2>2, WorkMaps DEF Work
  <2>3. CASE UNCHANGED semanticVars
    BY <2>3 DEF semanticVars, Schedule!scheduleVars, Schedule!documentVars, StatusOf, Settled, Ids
  <2> QED
    BY <1>3, <2>1, <2>2, <2>3 DEF SemanticRuns, SemanticThrows
<1>4. CASE UNCHANGED semanticVars
  BY <1>4 DEF semanticVars, Schedule!scheduleVars, Schedule!documentVars, StatusOf, Settled, Ids
<1> QED
  BY <1>2, <1>3, <1>4 DEF Next, RunnerStep, vars

(* The semantic runner implements the schedule: a node works only when     *)
(* what it waits for has settled as it wants, settles once, and nothing is *)
(* ever left that cannot be scheduled (SemanticReplayRunner.run).          *)
THEOREM RunnerKeepsSchedule == Spec => ScheduleSpec
<1>1. Init => SessionInv /\ Schedule!Init
  <2> SUFFICES ASSUME Init PROVE SessionInv /\ Schedule!Init
    OBVIOUS
  <2>1. Unstarted
    BY DEF Init, SemanticInit, Unstarted
  <2> QED
    BY <2>1, SessionStarts, OpenMaps, ScheduleActions DEF NothingYet
<1>2. SessionInv /\ [Next]_vars => SessionInv' /\ [Schedule!Next]_(Schedule!scheduleVars)
  BY SessionKept, SessionMaps
<1>3. Spec => Schedule!Init /\ [][Schedule!Next]_(Schedule!scheduleVars)
  BY <1>1, <1>2, PTL DEF Spec
<1> QED
  BY <1>3 DEF ScheduleSpec, Schedule!Spec
=============================================================================
