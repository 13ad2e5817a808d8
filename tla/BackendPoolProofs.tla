--------------------------- MODULE BackendPoolProofs ---------------------------
(***************************************************************************)
(* Proofs about BackendPool for any number of threads and backends, any    *)
(* strategy, threshold of failures and number of errors; about             *)
(* Cancellation for any number of polls, nodes and changes; and about      *)
(* LLMCall for any conversation, window and number of retries.             *)
(***************************************************************************)
EXTENDS MCCalls, FiniteSetTheorems, SequenceTheorems, TLAPS

\* The members of a sequence, the entries a thread has still to try, and those
\* its survey has looked at.
Names(s) == {s[k] : k \in 1..Len(s)}

Rest(t) == Names(order[t])

Surveyed(t) == {Entries[i] : i \in 1..(cursor[t] - 1)}

\* A sequence of backends in the order of the configuration, and one that names
\* none twice.
InOrder(s) ==
  \A x, y \in 1..Len(s) : \A i, j \in 1..Len(Entries) :
    x < y /\ s[x] = Entries[i] /\ s[y] = Entries[j] => i < j

NoRepeat(s) == \A x, y \in 1..Len(s) : s[x] = s[y] => x = y

\* The survey sorts the entries it has looked at into those to try, in their
\* order, and those passed over.
SurveySorts(t) ==
  pc[t] = "survey" =>
    /\ tried[t] = {}
    /\ Surveyed(t) \subseteq Rest(t) \cup passed[t]
    /\ Rest(t) \subseteq Surveyed(t)
    /\ InOrder(order[t])

\* Every backend is still to be tried, was tried, was passed over, or is the one
\* the thread is at; what is still to be tried has not been.
NoneForgotten(t) ==
  /\ pc[t] = "try" => Backends \subseteq Rest(t) \cup tried[t] \cup passed[t]
  /\ pc[t] \in {"ready", "call", "release"} =>
       /\ Backends \subseteq Rest(t) \cup tried[t] \cup passed[t] \cup {at[t]}
       /\ at[t] \notin Rest(t)
  /\ pc[t] \in {"ready", "call"} => at[t] \notin tried[t]
  /\ pc[t] = "release" /\ verdict[t] = "failed" => at[t] \in tried[t]
  /\ pc[t] # "idle" => NoRepeat(order[t]) /\ Rest(t) \cap tried[t] = {}
  /\ raised[t] => tried[t] \cup passed[t] = Backends

\* Failover goes down the configuration.
GoesDown(t) ==
  strategy = "failover" =>
    /\ pc[t] # "idle" => InOrder(order[t])
    /\ pc[t] \in {"ready", "call", "release"} =>
         \A i, j \in 1..Len(Entries) :
           at[t] = Entries[i] /\ Entries[j] \in Rest(t) => i < j

Plan == \A t \in Threads : SurveySorts(t) /\ NoneForgotten(t) /\ GoesDown(t)

IInv == TypeOK /\ BreakerMatchesCount /\ InflightIsCallsUnderWay /\ Plan

-----------------------------------------------------------------------------
(* The order a strategy makes                                              *)

\* p permutes the positions of s, and o holds the members of s in its order.
Permutes(p, s) ==
  /\ p \in [1..Len(s) -> 1..Len(s)]
  /\ \A i, j \in 1..Len(s) : p[i] = p[j] => i = j

Follows(o, p, s) ==
  o \in [1..Len(s) -> Backends] /\ \A i \in 1..Len(s) : o[i] = s[p[i]]

\* A permutation of a sequence holds the same backends, none more often.
LEMMA PermutedOrder ==
  ASSUME NEW s \in Seq(Backends), NEW p, Permutes(p, s), NEW o, Follows(o, p, s)
  PROVE  /\ o \in Seq(Backends) /\ Len(o) = Len(s)
         /\ Names(o) = Names(s)
         /\ NoRepeat(s) => NoRepeat(o)
<1>1. Len(s) \in Nat
  BY LenProperties
<1>2. o \in Seq(Backends) /\ Len(o) = Len(s)
  BY <1>1 DEF Follows
<1>3. \A k \in 1..Len(s) : \E i \in 1..Len(s) : p[i] = k
  <2>1. IsFiniteSet(1..Len(s))
    BY <1>1, FS_Interval
  <2>2. p \in Injection(1..Len(s), 1..Len(s))
    BY DEF Injection, IsInjective, Permutes
  <2>3. p \in Surjection(1..Len(s), 1..Len(s))
    BY <2>1, <2>2, FS_Injection
  <2>. QED BY <2>3 DEF Surjection
<1>4. \A i \in 1..Len(s) : p[i] \in 1..Len(s) /\ o[i] = s[p[i]]
  BY DEF Permutes, Follows
<1>5. Names(o) = Names(s)
  <2>1. /\ \A x : x \in Names(o) <=> \E k \in 1..Len(s) : x = o[k]
        /\ \A x : x \in Names(s) <=> \E k \in 1..Len(s) : x = s[k]
    BY <1>2 DEF Names
  <2>2. ASSUME NEW x \in Names(o) PROVE x \in Names(s)
    BY <1>4, <2>1, <2>2
  <2>3. ASSUME NEW x \in Names(s) PROVE x \in Names(o)
    <3>1. PICK k \in 1..Len(s) : x = s[k]
      BY <2>1, <2>3
    <3>2. PICK i \in 1..Len(s) : p[i] = k
      BY <1>3
    <3>. QED BY <1>4, <2>1, <3>1, <3>2
  <2>. QED BY <2>2, <2>3
<1>6. ASSUME NoRepeat(s) PROVE NoRepeat(o)
  <2>. SUFFICES ASSUME NEW x \in 1..Len(s), NEW y \in 1..Len(s), o[x] = o[y]
                PROVE  x = y
    BY <1>2 DEF NoRepeat
  <2>1. s[p[x]] = s[p[y]] /\ p[x] \in 1..Len(s) /\ p[y] \in 1..Len(s)
    BY <1>4
  <2>2. p[x] = p[y]
    BY <1>6, <2>1 DEF NoRepeat
  <2>. QED BY <2>2 DEF Permutes
<1>. QED BY <1>2, <1>5, <1>6

LEMMA ModRange ==
  ASSUME NEW a \in Nat, NEW b \in Nat \ {0} PROVE a % b \in 0..(b - 1)
OBVIOUS

\* Counting on by less than n, modulo n, never meets a place twice.
LEMMA TurnIsInjective ==
  ASSUME NEW n \in Nat \ {0}, NEW d \in 0..(n - 1), NEW i \in 1..n, NEW j \in 1..n,
         (i - 1 + d) % n = (j - 1 + d) % n
  PROVE  i = j
<1>1. \A x \in 0..(2 * n - 1) : x % n = IF x < n THEN x ELSE x - n
  OBVIOUS
<1>2. i - 1 + d \in 0..(2 * n - 1) /\ j - 1 + d \in 0..(2 * n - 1)
  OBVIOUS
<1>3. CASE i - 1 + d < n /\ j - 1 + d < n
  <2>1. i - 1 + d = j - 1 + d
    BY <1>1, <1>2, <1>3
  <2>. QED BY <2>1
<1>4. CASE ~(i - 1 + d < n) /\ ~(j - 1 + d < n)
  <2>1. i - 1 + d - n = j - 1 + d - n
    BY <1>1, <1>2, <1>4
  <2>. QED BY <2>1
<1>5. CASE i - 1 + d < n /\ ~(j - 1 + d < n)
  <2>1. i - 1 + d = j - 1 + d - n
    BY <1>1, <1>2, <1>5
  <2>. QED BY <2>1
<1>6. CASE ~(i - 1 + d < n) /\ j - 1 + d < n
  <2>1. i - 1 + d - n = j - 1 + d
    BY <1>1, <1>2, <1>6
  <2>. QED BY <2>1
<1>. QED BY <1>3, <1>4, <1>5, <1>6

\* The turn of round_robin is a permutation of the positions.
LEMMA RotatedPermutes ==
  ASSUME NEW n \in Nat \ {0}, rr \in Nat
  PROVE  /\ Rotated(n) \in [1..n -> 1..n]
         /\ \A i, j \in 1..n : Rotated(n)[i] = Rotated(n)[j] => i = j
<1>1. rr % n \in 0..(n - 1)
  BY ModRange
<1>2. ASSUME NEW i \in 1..n
      PROVE  /\ (i - 1 + (rr % n)) % n \in 0..(n - 1)
             /\ Rotated(n)[i] = ((i - 1 + (rr % n)) % n) + 1
  <2>1. i - 1 + (rr % n) \in Nat
    BY <1>1
  <2>. QED BY <2>1, ModRange DEF Rotated
<1>3. Rotated(n) \in [1..n -> 1..n]
  <2>1. Rotated(n) = [i \in 1..n |-> Rotated(n)[i]]
    BY DEF Rotated
  <2>2. \A i \in 1..n : Rotated(n)[i] \in 1..n
    BY <1>2
  <2>. QED BY <2>1, <2>2
<1>4. ASSUME NEW i \in 1..n, NEW j \in 1..n, Rotated(n)[i] = Rotated(n)[j]
      PROVE  i = j
  <2>. DEFINE a == (i - 1 + (rr % n)) % n
              b == (j - 1 + (rr % n)) % n
  <2>1. a = b
    <3>1. a \in Int /\ b \in Int /\ a + 1 = b + 1
      BY <1>2, <1>4
    <3>. HIDE DEF a, b
    <3>. QED BY <3>1
  <2>. QED BY <1>1, <2>1, TurnIsInjective
<1>. QED BY <1>3, <1>4

\* No position is sorted to two places.
LEMMA LoadPermutes ==
  ASSUME NEW s \in Seq(Backends), NEW p \in [1..Len(s) -> 1..Len(s)],
         inflight \in [Backends -> Nat], SortsByLoad(p, s)
  PROVE  \A i, j \in 1..Len(s) : p[i] = p[j] => i = j
<1>. SUFFICES ASSUME NEW i \in 1..Len(s), NEW j \in 1..Len(s), i < j, p[i] = p[j]
              PROVE  FALSE
  BY LenProperties
<1>1. inflight[s[p[i]]] \in Nat /\ p[i] \in Nat
  BY ElementOfSeq, LenProperties
<1>. QED BY <1>1 DEF SortsByLoad

\* What Arrange leaves to try.
LEMMA Arranged ==
  ASSUME TypeOK, NEW t \in Threads, Arrange(t)
  PROVE  /\ order' \in [Threads -> Seq(Backends)] /\ rr' \in 0..(Period - 1)
         /\ \A q \in Threads \ {t} : order'[q] = order[q]
         /\ \/ order[t] = <<>> /\ order'[t] = Entries /\ Rest(t)' = Backends
            \/ /\ order[t] # <<>> /\ Rest(t)' = Rest(t)
               /\ NoRepeat(order[t]) => NoRepeat(order'[t])
               /\ strategy = "failover" => order'[t] = order[t]
<1>. DEFINE s == order[t]
            n == Len(s)
<1>t. /\ order \in [Threads -> Seq(Backends)] /\ rr \in 0..(Period - 1)
      /\ inflight \in [Backends -> Nat]
      /\ Period \in Nat \ {0}
      /\ Entries \in Seq(Backends) /\ Backends = {Entries[i] : i \in 1..Len(Entries)}
  BY PoolAssumption DEF TypeOK
<1>1. s \in Seq(Backends) /\ n \in Nat /\ (n = 0 <=> s = <<>>)
  BY <1>t, LenProperties, EmptySeq
<1>2. CASE n = 0 /\ order' = [order EXCEPT ![t] = Entries] /\ UNCHANGED rr
  <2>1. order'[t] = Entries
    BY <1>t, <1>2
  <2>2. Names(Entries) = Backends
    BY <1>t DEF Names
  <2>. QED BY <1>t, <1>1, <1>2, <2>1, <2>2 DEF Rest
<1>3. CASE n > 0 /\ strategy = "failover" /\ UNCHANGED <<order, rr>>
  BY <1>t, <1>1, <1>3 DEF Rest
<1>4. CASE /\ n > 0 /\ strategy = "round_robin"
           /\ order' = [order EXCEPT ![t] = [i \in 1..n |-> s[Rotated(n)[i]]]]
           /\ rr' = (rr + 1) % Period
  <2>2. /\ Rotated(n) \in [1..n -> 1..n]
        /\ \A i, j \in 1..n : Rotated(n)[i] = Rotated(n)[j] => i = j
    <3>1. n \in Nat \ {0} /\ rr \in Nat
      BY <1>t, <1>1, <1>4
    <3>. QED BY <3>1, RotatedPermutes
  <2>1. /\ order'[t] \in [1..n -> Backends]
        /\ \A i \in 1..n : order'[t][i] = s[Rotated(n)[i]]
    BY <1>t, <1>1, <1>4, <2>2, ElementOfSeq
  <2>3. /\ order'[t] \in Seq(Backends)
        /\ Names(order'[t]) = Names(s)
        /\ NoRepeat(s) => NoRepeat(order'[t])
    <3>1. Permutes(Rotated(n), s)
      BY <2>2 DEF Permutes
    <3>2. Follows(order'[t], Rotated(n), s)
      BY <2>1 DEF Follows
    <3>. HIDE DEF s
    <3>. QED BY <1>1, <3>1, <3>2, PermutedOrder
  <2>4. rr' \in 0..(Period - 1)
    <3>1. rr + 1 \in Nat
      BY <1>t
    <3>. QED BY <1>t, <1>4, <3>1, ModRange
  <2>. QED BY <1>t, <1>1, <1>4, <2>3, <2>4 DEF Rest
<1>5. CASE /\ n > 0 /\ strategy = "least_loaded"
           /\ \E p \in [1..n -> 1..n] :
                /\ SortsByLoad(p, s)
                /\ order' = [order EXCEPT ![t] = [i \in 1..n |-> s[p[i]]]]
           /\ UNCHANGED rr
  <2>1. PICK p \in [1..n -> 1..n] :
          /\ SortsByLoad(p, s)
          /\ order' = [order EXCEPT ![t] = [i \in 1..n |-> s[p[i]]]]
    BY <1>5
  <2>2. /\ order'[t] \in [1..n -> Backends]
        /\ \A i \in 1..n : order'[t][i] = s[p[i]]
    BY <1>t, <1>1, <2>1, ElementOfSeq
  <2>3. \A i, j \in 1..n : p[i] = p[j] => i = j
    BY <1>t, <1>1, <2>1, LoadPermutes
  <2>4. /\ order'[t] \in Seq(Backends)
        /\ Names(order'[t]) = Names(s)
        /\ NoRepeat(s) => NoRepeat(order'[t])
    <3>1. Permutes(p, s)
      BY <2>3 DEF Permutes
    <3>2. Follows(order'[t], p, s)
      BY <2>2 DEF Follows
    <3>. HIDE DEF s
    <3>. QED BY <1>1, <3>1, <3>2, PermutedOrder
  <2>. QED BY <1>t, <1>1, <1>5, <2>1, <2>4 DEF Rest
<1>. QED BY <1>2, <1>3, <1>4, <1>5 DEF Arrange

-----------------------------------------------------------------------------
(* Sequences of backends                                                   *)

\* A sequence in the configuration's order names no backend twice.
LEMMA OrderedNoRepeat ==
  ASSUME NEW s \in Seq(Backends), InOrder(s) PROVE NoRepeat(s)
<1>. SUFFICES ASSUME NEW x \in 1..Len(s), NEW y \in 1..Len(s), s[x] = s[y], x < y
              PROVE  FALSE
  BY LenProperties DEF NoRepeat
<1>1. PICK i \in 1..Len(Entries) : s[x] = Entries[i]
  <2>1. s[x] \in Backends
    BY ElementOfSeq
  <2>. QED BY <2>1, PoolAssumption
<1>2. i < i
  BY <1>1 DEF InOrder
<1>. QED BY <1>2, PoolAssumption, LenProperties

\* The configuration itself is in its order.
LEMMA EntriesOrdered ==
  InOrder(Entries) /\ NoRepeat(Entries) /\ Names(Entries) = Backends
<1>1. InOrder(Entries) /\ Names(Entries) = Backends
  BY PoolAssumption DEF InOrder, Names
<1>. QED BY <1>1, OrderedNoRepeat, PoolAssumption

\* What is found behind all entries found before keeps their order.
LEMMA FoundInOrder ==
  ASSUME NEW s \in Seq(Backends), InOrder(s), NEW k \in 1..Len(Entries),
         Names(s) \subseteq {Entries[i] : i \in 1..(k - 1)}
  PROVE  /\ Append(s, Entries[k]) \in Seq(Backends)
         /\ Names(Append(s, Entries[k])) = Names(s) \cup {Entries[k]}
         /\ InOrder(Append(s, Entries[k]))
<1>. DEFINE a == Append(s, Entries[k])
<1>1. /\ Len(s) \in Nat /\ Len(Entries) \in Nat /\ Entries[k] \in Backends
      /\ \A i, j \in 1..Len(Entries) : Entries[i] = Entries[j] => i = j
  BY PoolAssumption, LenProperties
<1>2. /\ a \in Seq(Backends) /\ Len(a) = Len(s) + 1
      /\ \A x \in 1..Len(s) : a[x] = s[x]
      /\ a[Len(s) + 1] = Entries[k]
  BY <1>1
<1>. HIDE DEF a
<1>3. Names(a) = Names(s) \cup {Entries[k]}
  BY <1>1, <1>2 DEF Names
<1>4. InOrder(a)
  <2>. SUFFICES ASSUME NEW x \in 1..Len(a), NEW y \in 1..Len(a), x < y,
                       NEW i \in 1..Len(Entries), NEW j \in 1..Len(Entries),
                       a[x] = Entries[i], a[y] = Entries[j]
                PROVE  i < j
    BY DEF InOrder
  <2>1. CASE y \in 1..Len(s)
    <3>1. x \in 1..Len(s) /\ s[x] = Entries[i] /\ s[y] = Entries[j]
      BY <1>1, <1>2, <2>1
    <3>. QED BY <2>1, <3>1 DEF InOrder
  <2>2. CASE y = Len(s) + 1
    <3>1. x \in 1..Len(s) /\ j = k
      BY <1>1, <1>2, <2>2
    <3>2. s[x] \in Names(s) /\ s[x] = Entries[i]
      BY <1>2, <3>1 DEF Names
    <3>3. PICK l \in 1..(k - 1) : s[x] = Entries[l]
      BY <3>2
    <3>4. l \in 1..Len(Entries) /\ l < k
      BY <1>1
    <3>. QED BY <1>1, <3>1, <3>2, <3>3, <3>4
  <2>. QED BY <1>1, <1>2, <2>1, <2>2
<1>. QED BY <1>2, <1>3, <1>4 DEF a

\* What remains when the first of the entries is taken.
LEMMA Taken ==
  ASSUME NEW s \in Seq(Backends), s # <<>>
  PROVE  /\ Head(s) \in Backends /\ Tail(s) \in Seq(Backends)
         /\ Names(s) = {Head(s)} \cup Names(Tail(s))
         /\ NoRepeat(s) => NoRepeat(Tail(s)) /\ Head(s) \notin Names(Tail(s))
         /\ InOrder(s) =>
              /\ InOrder(Tail(s))
              /\ \A i, j \in 1..Len(Entries) :
                   Head(s) = Entries[i] /\ Entries[j] \in Names(Tail(s)) => i < j
<1>. DEFINE r == Tail(s)
<1>1. /\ Len(s) \in Nat \ {0} /\ Head(s) = s[1] /\ Head(s) \in Backends
      /\ r \in Seq(Backends) /\ Len(r) = Len(s) - 1
      /\ \A k \in 1..Len(r) : r[k] = s[k + 1]
  BY HeadTailProperties, EmptySeq
<1>. HIDE DEF r
<1>2. \A k \in 1..Len(r) : k + 1 \in 1..Len(s) /\ k + 1 # 1
  BY <1>1
<1>3. /\ \A x : x \in Names(s) <=> \E k \in 1..Len(s) : x = s[k]
      /\ \A x : x \in Names(r) <=> \E k \in 1..Len(r) : x = r[k]
  BY DEF Names
<1>4. Names(s) = {Head(s)} \cup Names(r)
  <2>1. ASSUME NEW x \in Names(s), x # Head(s) PROVE x \in Names(r)
    <3>1. PICK k \in 1..Len(s) : x = s[k]
      BY <1>3, <2>1
    <3>2. k - 1 \in 1..Len(r) /\ k = (k - 1) + 1
      BY <1>1, <2>1, <3>1
    <3>3. r[k - 1] = x
      BY <1>1, <3>1, <3>2
    <3>. QED BY <1>3, <3>2, <3>3
  <2>2. Names(r) \subseteq Names(s)
    BY <1>1, <1>2, <1>3
  <2>3. Head(s) \in Names(s)
    BY <1>1, <1>3
  <2>. QED BY <2>1, <2>2, <2>3
<1>5. NoRepeat(s) => NoRepeat(r) /\ Head(s) \notin Names(r)
  <2>. SUFFICES ASSUME NoRepeat(s) PROVE NoRepeat(r) /\ Head(s) \notin Names(r)
    OBVIOUS
  <2>1. ASSUME NEW x \in 1..Len(r), NEW y \in 1..Len(r), r[x] = r[y] PROVE x = y
    <3>1. s[x + 1] = s[y + 1]
      BY <1>1, <2>1
    <3>2. x + 1 = y + 1
      BY <1>2, <3>1 DEF NoRepeat
    <3>. QED BY <3>2
  <2>2. ASSUME NEW x \in 1..Len(r), r[x] = Head(s) PROVE FALSE
    <3>1. s[x + 1] = s[1] /\ 1 \in 1..Len(s)
      BY <1>1, <2>2
    <3>. QED BY <1>2, <3>1 DEF NoRepeat
  <2>. QED BY <1>3, <2>1, <2>2 DEF NoRepeat
<1>6. ASSUME InOrder(s)
      PROVE  /\ InOrder(r)
             /\ \A i, j \in 1..Len(Entries) :
                  Head(s) = Entries[i] /\ Entries[j] \in Names(r) => i < j
  <2>1. InOrder(r)
    <3>. SUFFICES ASSUME NEW x \in 1..Len(r), NEW y \in 1..Len(r), x < y,
                         NEW i \in 1..Len(Entries), NEW j \in 1..Len(Entries),
                         r[x] = Entries[i], r[y] = Entries[j]
                  PROVE  i < j
      BY DEF InOrder
    <3>1. r[x] = s[x + 1] /\ r[y] = s[y + 1]
      BY <1>1
    <3>2. s[x + 1] = Entries[i] /\ s[y + 1] = Entries[j]
      BY <3>1
    <3>3. x + 1 < y + 1
      OBVIOUS
    <3>. QED BY <1>2, <1>6, <3>2, <3>3 DEF InOrder
  <2>2. ASSUME NEW i \in 1..Len(Entries), NEW j \in 1..Len(Entries),
               Head(s) = Entries[i], Entries[j] \in Names(r)
        PROVE  i < j
    <3>1. PICK y \in 1..Len(r) : Entries[j] = r[y]
      BY <1>3, <2>2
    <3>2. s[1] = Entries[i] /\ s[y + 1] = Entries[j] /\ 1 < y + 1 /\ 1 \in 1..Len(s)
      BY <1>1, <2>2, <3>1
    <3>. QED BY <1>2, <1>6, <3>2 DEF InOrder
  <2>. QED BY <2>1, <2>2
<1>. QED BY <1>1, <1>4, <1>5, <1>6 DEF r

-----------------------------------------------------------------------------
(* Types, breakers and load                                                *)

LEMMA InitIInv == Init => IInv
<1>. SUFFICES ASSUME Init PROVE IInv
  OBVIOUS
<1>. USE PoolAssumption DEF Init
<1>1. TypeOK
  <2>1. Len(Entries) \in Nat /\ <<>> \in Seq(Backends)
    BY LenProperties, EmptySeq
  <2>. QED BY <2>1 DEF TypeOK, Circuits, Pcs
<1>2. BreakerMatchesCount
  BY DEF BreakerMatchesCount
<1>3. InflightIsCallsUnderWay
  <2>. SUFFICES ASSUME NEW b \in Backends PROVE inflight[b] = Cardinality(Calling(b))
    BY DEF InflightIsCallsUnderWay
  <2>1. Calling(b) = {}
    BY DEF Calling
  <2>. QED BY <2>1, FS_EmptySet
<1>4. Plan
  BY DEF Plan, SurveySorts, NoneForgotten, GoesDown
<1>. QED BY <1>1, <1>2, <1>3, <1>4 DEF IInv

\* What a step of one thread leaves alone: the locals of the others.
LEMMA OthersWait ==
  ASSUME TypeOK, NEW t \in Threads, Begin(t) \/ Advance(t), NEW q \in Threads \ {t}
  PROVE  /\ pc'[q] = pc[q] /\ cursor'[q] = cursor[q] /\ order'[q] = order[q]
         /\ at'[q] = at[q] /\ verdict'[q] = verdict[q] /\ tried'[q] = tried[q]
         /\ passed'[q] = passed[q] /\ raised'[q] = raised[q]
<1>1. CASE Arrange(t)
  BY <1>1, Arranged DEF Arrange, history, Goto, TypeOK
<1>2. CASE Begin(t) \/ Survey(t) \/ PassOver(t) \/ Choose(t) \/ StartCall(t)
  BY <1>2 DEF Begin, Survey, PassOver, Choose, StartCall, history, Goto, TypeOK
<1>3. CASE CallSucceeds(t) \/ CallFails(t) \/ ReleaseCall(t) \/ Raise(t)
  BY <1>3 DEF CallSucceeds, CallFails, ReleaseCall, Raise, history, Goto, TypeOK
<1>. QED BY <1>1, <1>2, <1>3 DEF Advance

\* The threads that are calling a backend are finitely many.
LEMMA CallersFinite ==
  ASSUME NEW b PROVE IsFiniteSet(Calling(b)) /\ Cardinality(Calling(b)) \in Nat
BY ThreadsFinite, FS_Subset, FS_CardinalityType DEF Calling

\* Every step keeps the types; a unit of load is there to be given back.
LEMMA TypeStep == TypeOK /\ InflightIsCallsUnderWay /\ [Next]_vars => TypeOK'
<1>. SUFFICES ASSUME TypeOK, InflightIsCallsUnderWay, [Next]_vars PROVE TypeOK'
  OBVIOUS
<1>. USE DEF TypeOK, Circuits, Pcs, Goto
<1>1. ASSUME NEW b \in Backends, CoolDown(b) PROVE TypeOK'
  BY <1>1 DEF CoolDown, thread, history
<1>2. ASSUME NEW t \in Threads, Begin(t) PROVE TypeOK'
  <2>1. 1 \in 1..(Len(Entries) + 1) /\ <<>> \in Seq(Backends)
    BY PoolAssumption, LenProperties, EmptySeq
  <2>. QED BY <1>2, <2>1 DEF Begin, shared, breaker
<1>3. ASSUME NEW t \in Threads, Survey(t) PROVE TypeOK'
  <2>1. cursor[t] \in 1..Len(Entries) /\ cursor[t] + 1 \in 1..(Len(Entries) + 1)
    <3>1. Len(Entries) \in Nat
      BY PoolAssumption, LenProperties
    <3>. QED BY <1>3, <3>1 DEF Survey
  <2>2. Entries[cursor[t]] \in Backends
    BY <2>1, PoolAssumption
  <2>3. cursor' \in [Threads -> 1..(Len(Entries) + 1)]
    BY <1>3, <2>1 DEF Survey
  <2>4. circuit' \in [Backends -> Circuits] /\ passed' \in [Threads -> SUBSET Backends]
    BY <1>3, <2>2 DEF Survey, NoteChecked
  <2>5. Append(order[t], Entries[cursor[t]]) \in Seq(Backends)
    BY <2>2
  <2>6. order' \in [Threads -> Seq(Backends)]
    BY <1>3, <2>5 DEF Survey
  <2>. QED BY <1>3, <2>3, <2>4, <2>6 DEF Survey
<1>4. ASSUME NEW t \in Threads, Arrange(t) PROVE TypeOK'
  <2>1. order' \in [Threads -> Seq(Backends)] /\ rr' \in 0..(Period - 1)
    BY <1>4, Arranged
  <2>. QED BY <1>4, <2>1 DEF Arrange, breaker, history
<1>5. ASSUME NEW t \in Threads, PassOver(t) \/ Choose(t) PROVE TypeOK'
  <2>1. /\ Head(order[t]) \in Backends
        /\ Tail(order[t]) \in Seq(Backends)
    BY <1>5, Taken DEF PassOver, Choose
  <2>2. CASE PassOver(t)
    BY <2>1, <2>2 DEF PassOver, shared, breaker
  <2>3. CASE Choose(t)
    BY <2>1, <2>3 DEF Choose, NoteChecked, history
  <2>. QED BY <1>5, <2>2, <2>3
<1>6. ASSUME NEW t \in Threads, StartCall(t) PROVE TypeOK'
  BY <1>6 DEF StartCall, breaker
<1>7. ASSUME NEW t \in Threads, CallSucceeds(t) PROVE TypeOK'
  BY <1>7 DEF CallSucceeds, RecordSuccess, history
<1>8. ASSUME NEW t \in Threads, CallFails(t) PROVE TypeOK'
  BY <1>8 DEF CallFails, RecordFailure
<1>9. ASSUME NEW t \in Threads, ReleaseCall(t) PROVE TypeOK'
  <2>1. at[t] \in Backends /\ t \in Calling(at[t])
    BY <1>9 DEF ReleaseCall, Calling
  <2>2. inflight[at[t]] - 1 \in Nat
    BY <2>1, CallersFinite, FS_EmptySet DEF InflightIsCallsUnderWay
  <2>. QED BY <1>9, <2>1, <2>2 DEF ReleaseCall, GiveBack, breaker
<1>10. ASSUME NEW t \in Threads, Raise(t) PROVE TypeOK'
  BY <1>10 DEF Raise, shared, breaker
<1>11. CASE UNCHANGED vars
  BY <1>11 DEF vars, shared, breaker, thread, history
<1>. QED
  BY <1>1, <1>2, <1>3, <1>4, <1>5, <1>6, <1>7, <1>8, <1>9, <1>10, <1>11 DEF Next, Advance

\* Every step keeps BreakerMatchesCount, also the late answer of a thread whose
\* circuit another one has opened or closed since.
LEMMA BreakerStep ==
  TypeOK /\ BreakerMatchesCount /\ [Next]_vars => BreakerMatchesCount'
<1>. SUFFICES ASSUME TypeOK, BreakerMatchesCount, [Next]_vars PROVE BreakerMatchesCount'
  OBVIOUS
<1>. USE PoolAssumption DEF BreakerMatchesCount
<1>t. circuit \in [Backends -> Circuits] /\ fails \in [Backends -> Nat]
  BY DEF TypeOK
<1>1. CASE UNCHANGED <<circuit, fails>>
  BY <1>1
<1>2. ASSUME NEW b, NoteChecked(b), UNCHANGED fails PROVE BreakerMatchesCount'
  BY <1>t, <1>2 DEF NoteChecked, Cooled
<1>3. ASSUME NEW t \in Threads, CallSucceeds(t) PROVE BreakerMatchesCount'
  BY <1>t, <1>3 DEF CallSucceeds, RecordSuccess
<1>4. ASSUME NEW t \in Threads, CallFails(t) PROVE BreakerMatchesCount'
  <2>1. /\ fails' = [fails EXCEPT ![at[t]] = @ + 1]
        /\ circuit' = IF circuit[at[t]] = "half_open" \/ fails[at[t]] + 1 >= MaxFailures
                      THEN [circuit EXCEPT ![at[t]] = "open"] ELSE circuit
    BY <1>4 DEF CallFails, RecordFailure
  <2>. SUFFICES ASSUME NEW b \in Backends
                PROVE  circuit'[b] = "closed" <=> fails'[b] < MaxFailures
    OBVIOUS
  <2>2. CASE b = at[t]
    <3>1. fails'[b] = fails[b] + 1 /\ fails[b] \in Nat /\ MaxFailures \in Nat
      BY <1>t, <2>1, <2>2
    <3>2. CASE circuit[b] = "half_open" \/ fails[b] + 1 >= MaxFailures
      <4>1. circuit'[b] = "open"
        BY <1>t, <2>1, <2>2, <3>2
      <4>2. ~(fails[b] + 1 < MaxFailures)
        <5>1. circuit[b] = "half_open" => ~(fails[b] < MaxFailures)
          BY <1>t
        <5>. QED BY <3>1, <3>2, <5>1
      <4>. QED BY <3>1, <4>1, <4>2
    <3>3. CASE ~(circuit[b] = "half_open" \/ fails[b] + 1 >= MaxFailures)
      <4>1. circuit'[b] = circuit[b] /\ fails[b] + 1 < MaxFailures /\ fails[b] < MaxFailures
        BY <2>1, <2>2, <3>1, <3>3
      <4>. QED BY <3>1, <4>1
    <3>. QED BY <3>2, <3>3
  <2>3. CASE b # at[t]
    BY <1>t, <2>1, <2>3
  <2>. QED BY <2>2, <2>3
<1>5. ASSUME NEW t \in Threads,
             Begin(t) \/ Arrange(t) \/ PassOver(t) \/ StartCall(t)
               \/ ReleaseCall(t) \/ Raise(t)
      PROVE  UNCHANGED <<circuit, fails>>
  BY <1>5 DEF Begin, Arrange, PassOver, StartCall, ReleaseCall, Raise, shared, breaker
<1>6. ASSUME NEW b \in Backends, CoolDown(b) PROVE UNCHANGED <<circuit, fails>>
  BY <1>6 DEF CoolDown
<1>7. CASE UNCHANGED vars
  BY <1>7, <1>1 DEF vars, shared, breaker
<1>8. ASSUME NEW t \in Threads, Survey(t) \/ Choose(t) PROVE BreakerMatchesCount'
  BY <1>8, <1>2 DEF Survey, Choose
<1>. QED BY <1>1, <1>3, <1>4, <1>5, <1>6, <1>7, <1>8 DEF Next, Advance

\* Every step keeps InflightIsCallsUnderWay: a call adds the unit its finally
\* clause gives back, on the backend it was counted on.
LEMMA InflightStep ==
  TypeOK /\ InflightIsCallsUnderWay /\ [Next]_vars => InflightIsCallsUnderWay'
<1>. SUFFICES ASSUME TypeOK, InflightIsCallsUnderWay, [Next]_vars,
                     NEW b \in Backends
              PROVE  inflight'[b] = Cardinality(Calling(b)')
  BY DEF InflightIsCallsUnderWay
<1>t. /\ inflight \in [Backends -> Nat] /\ inflight[b] = Cardinality(Calling(b))
      /\ pc \in [Threads -> Pcs] /\ at \in [Threads -> Backends \cup {None}]
      /\ \A t \in Threads : pc[t] \in {"ready", "call", "release"} => at[t] \in Backends
  BY DEF TypeOK, InflightIsCallsUnderWay
<1>1. ASSUME UNCHANGED inflight, Calling(b)' = Calling(b)
      PROVE  inflight'[b] = Cardinality(Calling(b)')
  BY <1>t, <1>1
<1>2. ASSUME NEW t \in Threads, StartCall(t)
      PROVE  inflight'[b] = Cardinality(Calling(b)')
  <2>1. /\ pc[t] = "ready" /\ at[t] \in Backends /\ at' = at
        /\ pc' = [pc EXCEPT ![t] = "call"]
        /\ inflight' = [inflight EXCEPT ![at[t]] = @ + 1]
    BY <1>2, <1>t DEF StartCall, Goto
  <2>2. CASE b = at[t]
    <3>1. Calling(b)' = Calling(b) \cup {t} /\ t \notin Calling(b)
      BY <1>t, <2>1, <2>2 DEF Calling
    <3>2. Cardinality(Calling(b)') = Cardinality(Calling(b)) + 1
      BY <3>1, CallersFinite, FS_AddElement
    <3>. QED BY <1>t, <2>1, <2>2, <3>2
  <2>3. CASE b # at[t]
    <3>1. Calling(b)' = Calling(b) /\ inflight'[b] = inflight[b]
      BY <1>t, <2>1, <2>3 DEF Calling
    <3>. QED BY <1>t, <3>1
  <2>. QED BY <2>2, <2>3
<1>3. ASSUME NEW t \in Threads, ReleaseCall(t)
      PROVE  inflight'[b] = Cardinality(Calling(b)')
  <2>1. /\ pc[t] = "release" /\ at[t] \in Backends
        /\ at' = [at EXCEPT ![t] = None]
        /\ \E p \in {"idle", "try"} : pc' = [pc EXCEPT ![t] = p]
        /\ inflight' = [inflight EXCEPT ![at[t]] = @ - 1]
    BY <1>3, <1>t DEF ReleaseCall, GiveBack, Goto
  <2>2. CASE b = at[t]
    <3>1. Calling(b)' = Calling(b) \ {t} /\ t \in Calling(b)
      BY <1>t, <2>1, <2>2 DEF Calling
    <3>2. Cardinality(Calling(b)') = Cardinality(Calling(b)) - 1
      BY <3>1, CallersFinite, FS_RemoveElement
    <3>. QED BY <1>t, <2>1, <2>2, <3>2
  <2>3. CASE b # at[t]
    <3>1. Calling(b)' = Calling(b) /\ inflight'[b] = inflight[b]
      BY <1>t, <2>1, <2>3 DEF Calling
    <3>. QED BY <1>t, <3>1
  <2>. QED BY <2>2, <2>3
<1>4. ASSUME NEW t \in Threads, CallSucceeds(t) \/ CallFails(t)
      PROVE  UNCHANGED inflight /\ Calling(b)' = Calling(b)
  <2>1. /\ pc[t] = "call" /\ pc' = [pc EXCEPT ![t] = "release"]
        /\ UNCHANGED <<inflight, at>>
    BY <1>4 DEF CallSucceeds, CallFails, Goto
  <2>. QED BY <1>t, <2>1 DEF Calling
<1>5. ASSUME NEW t \in Threads,
             Begin(t) \/ Survey(t) \/ Arrange(t) \/ PassOver(t) \/ Choose(t) \/ Raise(t)
      PROVE  UNCHANGED inflight /\ Calling(b)' = Calling(b)
  <2>1. /\ UNCHANGED inflight
        /\ pc[t] \in {"idle", "survey", "try"}
        /\ pc'[t] \in {"idle", "survey", "try", "ready"}
    BY <1>5, <1>t DEF Begin, Survey, Arrange, PassOver, Choose, Raise, Goto, shared
  <2>2. \A q \in Threads \ {t} : pc'[q] = pc[q] /\ at'[q] = at[q]
    BY <1>5, OthersWait DEF Advance
  <2>. QED BY <2>1, <2>2 DEF Calling
<1>6. ASSUME (\E c \in Backends : CoolDown(c)) \/ UNCHANGED vars
      PROVE  UNCHANGED inflight /\ Calling(b)' = Calling(b)
  BY <1>6 DEF CoolDown, vars, shared, thread, Calling
<1>. QED BY <1>1, <1>2, <1>3, <1>4, <1>5, <1>6 DEF Next, Advance

-----------------------------------------------------------------------------
(* The plan of a generate()                                                *)

\* A step that keeps a thread's locals keeps its plan.
LEMMA PlanFrame ==
  ASSUME NEW q \in Threads, SurveySorts(q), NoneForgotten(q), GoesDown(q),
         strategy' = strategy,
         pc'[q] = pc[q], cursor'[q] = cursor[q], order'[q] = order[q],
         at'[q] = at[q], verdict'[q] = verdict[q], tried'[q] = tried[q],
         passed'[q] = passed[q], raised'[q] = raised[q]
  PROVE  SurveySorts(q)' /\ NoneForgotten(q)' /\ GoesDown(q)'
BY DEF SurveySorts, NoneForgotten, GoesDown, Rest, Surveyed

\* Every step of a thread keeps its own plan.
LEMMA PlanOwn ==
  ASSUME TypeOK, Plan, NEW t \in Threads, Begin(t) \/ Advance(t)
  PROVE  SurveySorts(t)' /\ NoneForgotten(t)' /\ GoesDown(t)'
<1>. USE DEF SurveySorts, NoneForgotten, GoesDown
<1>t. /\ SurveySorts(t) /\ NoneForgotten(t) /\ GoesDown(t)
      /\ pc \in [Threads -> Pcs] /\ order \in [Threads -> Seq(Backends)]
      /\ order[t] \in Seq(Backends)
      /\ at \in [Threads -> Backends \cup {None}]
      /\ cursor \in [Threads -> 1..(Len(Entries) + 1)]
      /\ verdict \in [Threads -> {"ok", "failed"}]
      /\ tried \in [Threads -> SUBSET Backends] /\ passed \in [Threads -> SUBSET Backends]
      /\ raised \in [Threads -> BOOLEAN]
  BY DEF Plan, TypeOK
<1>1. ASSUME Begin(t) PROVE SurveySorts(t)' /\ NoneForgotten(t)' /\ GoesDown(t)'
  <2>1. /\ pc'[t] = "survey" /\ cursor'[t] = 1 /\ order'[t] = <<>> /\ tried'[t] = {}
        /\ raised'[t] = FALSE
    BY <1>1, <1>t DEF Begin, Goto
  <2>2. Rest(t)' = {} /\ Surveyed(t)' = {} /\ InOrder(<<>>) /\ NoRepeat(<<>>)
    BY <2>1 DEF Rest, Names, Surveyed, InOrder, NoRepeat
  <2>. QED BY <2>1, <2>2
<1>2. ASSUME Survey(t) PROVE SurveySorts(t)' /\ NoneForgotten(t)' /\ GoesDown(t)'
  <2>. DEFINE k == cursor[t]
              b == Entries[k]
  <2>1. k \in 1..Len(Entries) /\ Len(Entries) \in Nat
    BY <1>2, <1>t, PoolAssumption, LenProperties DEF Survey
  <2>2. /\ pc[t] = "survey" /\ pc' = pc /\ cursor'[t] = k + 1
        /\ order'[t] = IF Available(b) THEN Append(order[t], b) ELSE order[t]
        /\ passed'[t] = IF Available(b) THEN passed[t] ELSE passed[t] \cup {b}
        /\ UNCHANGED <<strategy, tried, raised, at, verdict>>
    BY <1>2, <1>t DEF Survey
  <2>3. Surveyed(t)' = Surveyed(t) \cup {b}
    <3>1. 1..(cursor'[t] - 1) = 1..(k - 1) \cup {k}
      BY <2>1, <2>2
    <3>. QED BY <3>1 DEF Surveyed
  <2>4. CASE Available(b)
    <3>1. /\ Names(Append(order[t], b)) = Rest(t) \cup {b}
          /\ InOrder(Append(order[t], b))
          /\ Append(order[t], b) \in Seq(Backends)
      BY <1>t, <2>1, <2>2, FoundInOrder DEF Surveyed, Rest
    <3>2. NoRepeat(order'[t])
      BY <2>2, <2>4, <3>1, OrderedNoRepeat
    <3>3. Rest(t)' = Rest(t) \cup {b}
      BY <2>2, <2>4, <3>1 DEF Rest
    <3>. QED BY <1>t, <2>2, <2>3, <2>4, <3>1, <3>2, <3>3
  <2>5. CASE ~Available(b)
    <3>1. order'[t] = order[t] /\ passed'[t] = passed[t] \cup {b}
      BY <2>2, <2>5
    <3>2. Rest(t)' = Rest(t)
      BY <3>1 DEF Rest
    <3>3. b \in Backends
      BY <2>1, PoolAssumption
    <3>. HIDE DEF b, k
    <3>. QED BY <1>t, <2>2, <2>3, <3>1, <3>2, <3>3
  <2>. QED BY <2>4, <2>5
<1>3. ASSUME Arrange(t) PROVE SurveySorts(t)' /\ NoneForgotten(t)' /\ GoesDown(t)'
  <2>1. /\ pc[t] = "survey" /\ pc'[t] = "try"
        /\ UNCHANGED <<strategy, tried, passed, raised, at, verdict>>
    BY <1>3, <1>t DEF Arrange, Goto, history
  <2>2. Surveyed(t) = Backends
    <3>1. Len(Entries) \in Nat /\ cursor[t] - 1 = Len(Entries)
      BY <1>3, <1>t, PoolAssumption, LenProperties, SMTT(30) DEF Arrange
    <3>2. Surveyed(t) = {Entries[i] : i \in 1..Len(Entries)}
      BY <3>1, Zenon DEF Surveyed
    <3>. QED BY <3>2, PoolAssumption
  <2>3. \/ order'[t] = Entries /\ Rest(t)' = Backends
        \/ /\ Rest(t)' = Rest(t)
           /\ NoRepeat(order[t]) => NoRepeat(order'[t])
           /\ strategy = "failover" => order'[t] = order[t]
    BY <1>3, Arranged
  <2>. QED BY <1>t, <2>1, <2>2, <2>3, EntriesOrdered
<1>4. ASSUME PassOver(t) PROVE SurveySorts(t)' /\ NoneForgotten(t)' /\ GoesDown(t)'
  <2>1. /\ pc[t] = "try" /\ pc' = pc /\ order[t] # <<>> /\ order'[t] = Tail(order[t])
        /\ passed'[t] = passed[t] \cup {Head(order[t])}
        /\ UNCHANGED <<strategy, tried, raised, at, verdict>>
    BY <1>4, <1>t DEF PassOver, shared
  <2>2. Rest(t) = {Head(order[t])} \cup Rest(t)'
    BY <1>t, <2>1, Taken DEF Rest
  <2>3. /\ NoRepeat(order[t]) => NoRepeat(order'[t])
        /\ InOrder(order[t]) => InOrder(order'[t])
    BY <1>t, <2>1, Taken
  <2>. QED BY <1>t, <2>1, <2>2, <2>3
<1>5. ASSUME Choose(t) PROVE SurveySorts(t)' /\ NoneForgotten(t)' /\ GoesDown(t)'
  <2>1. /\ pc[t] = "try" /\ pc'[t] = "ready"
        /\ order[t] # <<>> /\ order'[t] = Tail(order[t]) /\ at'[t] = Head(order[t])
        /\ UNCHANGED <<strategy, tried, passed, raised, verdict>>
    BY <1>5, <1>t DEF Choose, Goto, history
  <2>2. Rest(t) = {at'[t]} \cup Rest(t)'
    BY <1>t, <2>1, Taken DEF Rest
  <2>3. /\ NoRepeat(order[t]) => NoRepeat(order'[t]) /\ at'[t] \notin Rest(t)'
        /\ InOrder(order[t]) =>
             /\ InOrder(order'[t])
             /\ \A i, j \in 1..Len(Entries) :
                  at'[t] = Entries[i] /\ Entries[j] \in Rest(t)' => i < j
    BY <1>t, <2>1, Taken DEF Rest
  <2>. QED BY <1>t, <2>1, <2>2, <2>3
<1>6. ASSUME StartCall(t) \/ CallSucceeds(t)
      PROVE  SurveySorts(t)' /\ NoneForgotten(t)' /\ GoesDown(t)'
  <2>1. /\ \/ pc[t] = "ready" /\ pc'[t] = "call"
           \/ pc[t] = "call" /\ pc'[t] = "release" /\ verdict'[t] = "ok"
        /\ UNCHANGED <<strategy, order, tried, passed, raised, at>>
    BY <1>6, <1>t DEF StartCall, CallSucceeds, Goto, history
  <2>2. Rest(t)' = Rest(t)
    BY <2>1 DEF Rest
  <2>. QED BY <1>t, <2>1, <2>2
<1>7. ASSUME CallFails(t) PROVE SurveySorts(t)' /\ NoneForgotten(t)' /\ GoesDown(t)'
  <2>1. /\ pc[t] = "call" /\ pc'[t] = "release" /\ verdict'[t] = "failed"
        /\ tried'[t] = tried[t] \cup {at[t]}
        /\ UNCHANGED <<strategy, order, passed, raised, at>>
    BY <1>7, <1>t DEF CallFails, Goto
  <2>2. Rest(t)' = Rest(t) /\ at[t] \in Backends
    BY <2>1 DEF Rest, TypeOK
  <2>3. SurveySorts(t)' /\ GoesDown(t)'
    BY <1>t, <2>1, <2>2
  <2>4. /\ Backends \subseteq Rest(t)' \cup tried'[t] \cup passed'[t] \cup {at'[t]}
        /\ at'[t] \notin Rest(t)' /\ at'[t] \in tried'[t]
    BY <1>t, <2>1, <2>2
  <2>5. NoRepeat(order'[t]) /\ Rest(t)' \cap tried'[t] = {}
    BY <1>t, <2>1, <2>2
  <2>6. raised'[t] => tried'[t] \cup passed'[t] = Backends
    BY <1>t, <2>1, <2>2
  <2>7. NoneForgotten(t)'
    BY <2>1, <2>4, <2>5, <2>6
  <2>. QED BY <2>3, <2>7
<1>8. ASSUME ReleaseCall(t) PROVE SurveySorts(t)' /\ NoneForgotten(t)' /\ GoesDown(t)'
  <2>1. /\ pc[t] = "release" /\ pc'[t] = IF verdict[t] = "ok" THEN "idle" ELSE "try"
        /\ UNCHANGED <<strategy, order, tried, passed, raised, verdict>>
    BY <1>8, <1>t DEF ReleaseCall, Goto
  <2>2. Rest(t)' = Rest(t)
    BY <2>1 DEF Rest
  <2>3. CASE verdict[t] = "ok"
    BY <1>t, <2>1, <2>2, <2>3
  <2>4. CASE verdict[t] = "failed"
    <3>1. pc'[t] = "try" /\ at[t] \in tried[t]
      BY <1>t, <2>1, <2>4
    <3>. QED BY <1>t, <2>1, <2>2, <3>1
  <2>. QED BY <1>t, <2>3, <2>4
<1>9. ASSUME Raise(t) PROVE SurveySorts(t)' /\ NoneForgotten(t)' /\ GoesDown(t)'
  <2>1. /\ pc[t] = "try" /\ pc'[t] = "idle" /\ order[t] = <<>>
        /\ UNCHANGED <<strategy, order, tried, passed, at, verdict>>
    BY <1>9, <1>t DEF Raise, Goto, shared
  <2>2. Rest(t) = {}
    BY <2>1 DEF Rest, Names
  <2>3. tried[t] \cup passed[t] = Backends
    BY <1>t, <2>1, <2>2
  <2>. QED BY <2>1, <2>3
<1>. QED BY <1>1, <1>2, <1>3, <1>4, <1>5, <1>6, <1>7, <1>8, <1>9 DEF Advance

\* Every step keeps the plans of all threads.
LEMMA PlanStep == TypeOK /\ Plan /\ [Next]_vars => Plan'
<1>. SUFFICES ASSUME TypeOK, Plan, [Next]_vars, NEW q \in Threads
              PROVE  SurveySorts(q)' /\ NoneForgotten(q)' /\ GoesDown(q)'
  BY DEF Plan
<1>t. SurveySorts(q) /\ NoneForgotten(q) /\ GoesDown(q)
  BY DEF Plan
<1>s. strategy' = strategy
  BY DEF Next, Advance, Begin, Survey, Arrange, PassOver, Choose, StartCall, CallSucceeds,
         CallFails, ReleaseCall, Raise, CoolDown, shared, vars
<1>1. CASE UNCHANGED <<thread, history>>
  BY <1>1, <1>t, <1>s, PlanFrame DEF thread, history
<1>2. ASSUME NEW t \in Threads, Begin(t) \/ Advance(t)
      PROVE  SurveySorts(q)' /\ NoneForgotten(q)' /\ GoesDown(q)'
  <2>1. CASE q = t
    BY <1>2, <2>1, PlanOwn
  <2>2. CASE q # t
    BY <1>2, <2>2, <1>t, <1>s, OthersWait, PlanFrame
  <2>. QED BY <2>1, <2>2
<1>. QED BY <1>1, <1>2 DEF Next, CoolDown, vars

-----------------------------------------------------------------------------
\* The inductive invariant holds in every behaviour.
THEOREM Invariance == Spec => []IInv
<1>1. IInv /\ [Next]_vars => IInv'
  BY TypeStep, BreakerStep, InflightStep, PlanStep DEF IInv
<1>. QED BY InitIInv, <1>1, PTL DEF Spec

\* A generate() that raises has been failed by, or has found open, every backend.
THEOREM RaisesLate == Spec => []RaisesOnlyAfterAll
<1>1. IInv => RaisesOnlyAfterAll
  BY DEF IInv, Plan, NoneForgotten, RaisesOnlyAfterAll
<1>. QED BY Invariance, <1>1, PTL

\* Failover calls no backend before each earlier one failed it or was found open.
THEOREM PriorityIsKept == Spec => []FailoverKeepsPriority
<1>1. ASSUME IInv PROVE FailoverKeepsPriority
  <2>. SUFFICES ASSUME strategy = "failover", NEW t \in Threads,
                       NEW i \in 1..Len(Entries), NEW j \in 1..Len(Entries),
                       pc[t] = "call", at[t] = Entries[j], i < j
                PROVE  Entries[i] \in tried[t] \cup passed[t]
    BY DEF FailoverKeepsPriority
  <2>1. NoneForgotten(t) /\ GoesDown(t)
    BY <1>1 DEF IInv, Plan
  <2>2. /\ Entries[i] \in Backends /\ Entries[i] # Entries[j] /\ ~(j < i)
        /\ i \in Int /\ j \in Int
    <3>1. Len(Entries) \in Nat
      BY PoolAssumption, LenProperties
    <3>2. i \in Int /\ j \in Int /\ ~(j < i) /\ i # j
      BY <3>1
    <3>3. Entries[i] \in Backends /\ Entries[i] # Entries[j]
      BY <3>2, PoolAssumption
    <3>. QED BY <3>2, <3>3
  <2>3. Entries[i] \notin Rest(t)
    BY <2>1, <2>2 DEF GoesDown
  <2>. QED BY <2>1, <2>2, <2>3 DEF NoneForgotten
<1>. QED BY Invariance, <1>1, PTL

\* What every state of a pool satisfies, for any threads, backends and errors: the
\* breakers match their counts, the load is the calls under way, generate() raises
\* only after all backends, and failover keeps their priority.
THEOREM Safety == Spec => []PoolInv
<1>1. IInv => TypeOK /\ BreakerMatchesCount /\ InflightIsCallsUnderWay
  BY DEF IInv
<1>. QED BY Invariance, <1>1, RaisesLate, PriorityIsKept, PTL DEF PoolInv

-----------------------------------------------------------------------------
\* Cancellation.

\* The node whose check had passed may start after the token has fired; the next check
\* ends the loop.
OneAfter == late <= 1 /\ (late = 1 => token /\ phase # "checked")

\* The polls that failed last are as many as the errors the poller counts.
Counted ==
    /\ pollErrors <= Len(polls)
    /\ \A n \in 1 .. Len(polls) : n > Len(polls) - pollErrors => polls[n] = "error"
    /\ poller \in {"off", "waiting", "asking"} => pollErrors < MaxPollErrors
    /\ poller = "gave_up" => pollErrors = MaxPollErrors

\* The poller is started once.
StartedOnce == phase = "before" => poller = "off"

WatchIInv == W!TypeOK /\ OneAfter /\ Counted /\ StartedOnce

\* No poll was made, and nothing fired.
LEMMA WatchInitially == ASSUME W!CancellationAssumption PROVE W!Init => WatchIInv
<1>. SUFFICES ASSUME W!Init PROVE WatchIInv
  OBVIOUS
<1>. USE DEF W!CancellationAssumption, W!Init
<1>1. polls = <<>> /\ events = <<>> /\ Len(polls) = 0
  BY EmptySeq
<1>2. polls \in Seq({"ok", "error"}) /\ events \in Seq(W!Statuses)
  BY <1>1, EmptySeq
<1>3. /\ pollErrors \in 0 .. MaxPollErrors /\ late \in 0 .. MaxNodes
      /\ nodes \in 0 .. MaxNodes
      /\ attempt \in 0 .. MaxRetries + 1 /\ changes \in 0 .. MaxChanges
      /\ drops \in 0 .. MaxDrops /\ Len(polls) <= MaxPollErrors
  BY <1>1
<1>4. W!TypeOK
  BY <1>2, <1>3 DEF W!TypeOK, W!Statuses
<1>5. OneAfter /\ Counted /\ StartedOnce
  BY <1>1 DEF OneAfter, Counted, StartedOnce
<1>. QED BY <1>4, <1>5 DEF WatchIInv

\* The outcome of a poll is noted behind those before, of which the oldest may go.
LEMMA NotedLast ==
  ASSUME W!CancellationAssumption, WatchIInv, NEW o \in {"ok", "error"}
  PROVE  /\ W!Noted(o) \in Seq({"ok", "error"}) /\ Len(W!Noted(o)) <= MaxPollErrors
         /\ Len(W!Noted(o)) \in {Len(polls), Len(polls) + 1} /\ Len(W!Noted(o)) > 0
         /\ Len(W!Noted(o)) = Len(polls) => Len(polls) = MaxPollErrors
         /\ W!Noted(o)[Len(W!Noted(o))] = o
         /\ \A n \in 1 .. Len(W!Noted(o)) - 1 :
              W!Noted(o)[n] = polls[n + Len(polls) - (Len(W!Noted(o)) - 1)]
<1>. DEFINE new == Append(polls, o)
<1>1. /\ polls \in Seq({"ok", "error"}) /\ Len(polls) \in Nat /\ Len(polls) <= MaxPollErrors
      /\ MaxPollErrors \in Nat \ {0}
  BY LenProperties DEF WatchIInv, W!TypeOK, W!CancellationAssumption
<1>2. /\ new \in Seq({"ok", "error"}) /\ Len(new) = Len(polls) + 1
      /\ \A n \in 1 .. Len(polls) : new[n] = polls[n]
      /\ new[Len(polls) + 1] = o
  BY <1>1, AppendProperties
<1>3. new # <<>>
  BY <1>1, <1>2, EmptySeq
<1>4. /\ Tail(new) \in Seq({"ok", "error"}) /\ Len(Tail(new)) = Len(new) - 1
      /\ \A n \in 1 .. Len(Tail(new)) : Tail(new)[n] = new[n + 1]
  BY <1>2, <1>3, HeadTailProperties
<1>5. W!Noted(o) = IF Len(new) > MaxPollErrors THEN Tail(new) ELSE new
  BY DEF W!Noted
<1>. HIDE DEF new
<1>6. CASE Len(new) > MaxPollErrors
  <2>1. W!Noted(o) = Tail(new) /\ Len(Tail(new)) = Len(polls) /\ Len(polls) = MaxPollErrors
    BY <1>1, <1>2, <1>4, <1>5, <1>6
  <2>2. \A n \in 1 .. Len(polls) : Tail(new)[n] = new[n + 1]
    BY <1>4, <2>1
  <2>3. Tail(new)[Len(polls)] = o
    BY <1>1, <1>2, <2>1, <2>2
  <2>4. ASSUME NEW n \in 1 .. Len(polls) - 1
        PROVE  W!Noted(o)[n] = polls[n + Len(polls) - (Len(polls) - 1)]
    <3>1. n \in 1 .. Len(polls) /\ n + 1 \in 1 .. Len(polls)
          /\ n + Len(polls) - (Len(polls) - 1) = n + 1
      BY <1>1
    <3>. QED BY <1>2, <2>1, <2>2, <3>1
  <2>5. Len(W!Noted(o)) = Len(polls) /\ W!Noted(o) \in Seq({"ok", "error"}) /\ W!Noted(o)[Len(polls)] = o
    BY <1>4, <2>1, <2>3
  <2>. HIDE DEF W!Noted
  <2>. QED BY <1>1, <2>1, <2>4, <2>5
<1>7. CASE ~(Len(new) > MaxPollErrors)
  BY <1>1, <1>2, <1>5, <1>7
<1>. QED BY <1>6, <1>7

\* The events and the polls stay sequences.
LEMMA QueueTypes ==
  ASSUME W!CancellationAssumption, WatchIInv, [W!Next]_W!vars
  PROVE  /\ events' \in Seq(W!Statuses)
         /\ polls' \in Seq({"ok", "error"}) /\ Len(polls') <= MaxPollErrors
<1>1. events \in Seq(W!Statuses) /\ polls \in Seq({"ok", "error"}) /\ Len(polls) <= MaxPollErrors
  BY DEF WatchIInv, W!TypeOK
<1>2. <<>> \in Seq(W!Statuses)
  BY EmptySeq
<1>3. \A s \in W!Statuses : Append(events, s) \in Seq(W!Statuses)
  BY <1>1, AppendProperties
<1>4. events # <<>> => Tail(events) \in Seq(W!Statuses)
  BY <1>1, HeadTailProperties
<1>5. events' \in Seq(W!Statuses)
  BY <1>1, <1>2, <1>3, <1>4 DEF W!Next, W!Poll, W!Change, W!Connect, W!Drop, W!Dispatch,
     W!Ask, W!Serve, W!Answered, W!Retry, W!PollFails, W!Watch, W!Check, W!StartNode,
     W!NodeEnds, W!Stop, W!vars, W!ws
<1>6. polls' \in {polls, W!Noted("ok"), W!Noted("error")}
  BY DEF W!Next, W!Poll, W!Change, W!Connect, W!Drop, W!Dispatch, W!Ask, W!Serve,
     W!Answered, W!Retry, W!PollFails, W!Watch, W!Check, W!StartNode, W!NodeEnds, W!Stop,
     W!vars, W!thread
<1>. QED BY <1>1, <1>5, <1>6, NotedLast

\* The polls end as counted by the poller.
LEMMA CountStep ==
  ASSUME W!CancellationAssumption, WatchIInv, [W!Next]_W!vars
  PROVE  Counted' /\ pollErrors' \in 0 .. MaxPollErrors
<1>m. MaxPollErrors \in Nat \ {0}
  BY DEF W!CancellationAssumption
<1>e. pollErrors \in 0 .. MaxPollErrors
  BY DEF WatchIInv, W!TypeOK
<1>0. MaxPollErrors \in Nat \ {0} /\ pollErrors \in Nat /\ pollErrors <= MaxPollErrors
  BY <1>m, <1>e
<1>1. CASE W!Answered
  <2>1. pollErrors' = 0 /\ polls' = W!Noted("ok") /\ poller' \in {"ended", "waiting"}
    BY <1>1 DEF W!Answered
  <2>2. Len(polls') \in Nat
    BY <2>1, NotedLast, LenProperties
  <2>. QED BY <1>0, <2>1, <2>2 DEF Counted
<1>2. CASE W!PollFails
  <2>1. /\ polls' = W!Noted("error") /\ pollErrors' = pollErrors + 1 /\ poller = "asking"
        /\ poller' = IF pollErrors' >= MaxPollErrors THEN "gave_up" ELSE "waiting"
    BY <1>2 DEF W!PollFails
  <2>2. /\ polls' \in Seq({"ok", "error"}) /\ Len(polls') <= MaxPollErrors
        /\ Len(polls') \in {Len(polls), Len(polls) + 1} /\ Len(polls') > 0
        /\ Len(polls') = Len(polls) => Len(polls) = MaxPollErrors
        /\ polls'[Len(polls')] = "error"
        /\ \A n \in 1 .. Len(polls') - 1 : polls'[n] = polls[n + Len(polls) - (Len(polls') - 1)]
    BY <2>1, NotedLast
  <2>3. /\ pollErrors < MaxPollErrors /\ pollErrors <= Len(polls)
        /\ \A n \in 1 .. Len(polls) : n > Len(polls) - pollErrors => polls[n] = "error"
    BY <2>1 DEF WatchIInv, Counted
  <2>4. Len(polls) \in Nat /\ Len(polls') \in Nat
    BY <2>2, LenProperties DEF WatchIInv, W!TypeOK
  <2>5. pollErrors' <= Len(polls') /\ pollErrors' <= MaxPollErrors
    BY <1>0, <2>1, <2>2, <2>3, <2>4
  <2>6. ASSUME NEW n \in 1 .. Len(polls'), n > Len(polls') - pollErrors'
        PROVE  polls'[n] = "error"
    <3>1. CASE n = Len(polls')
      BY <2>2, <3>1
    <3>2. CASE n # Len(polls')
      <4>. DEFINE m == n + Len(polls) - (Len(polls') - 1)
      <4>1. n \in 1 .. Len(polls') - 1
        BY <2>4, <3>2
      <4>2. m \in 1 .. Len(polls) /\ m > Len(polls) - pollErrors
        BY <1>0, <2>1, <2>2, <2>4, <2>6, <4>1
      <4>. QED BY <2>2, <2>3, <4>1, <4>2
    <3>. QED BY <3>1, <3>2
  <2>7. /\ poller' \in {"off", "waiting", "asking"} => pollErrors' < MaxPollErrors
        /\ poller' = "gave_up" => pollErrors' = MaxPollErrors
    BY <1>0, <2>1, <2>5
  <2>. QED BY <1>0, <2>1, <2>5, <2>6, <2>7 DEF Counted
<1>3. CASE ~W!Answered /\ ~W!PollFails
  <2>1. /\ UNCHANGED <<pollErrors, polls>>
        /\ poller' \in {"off", "waiting", "asking"} => poller \in {"off", "waiting", "asking"} \/ W!Watch
        /\ poller' = "gave_up" => poller = "gave_up"
    BY <1>3 DEF W!Next, W!Poll, W!Change, W!Connect, W!Drop, W!Dispatch, W!Ask, W!Serve,
       W!Retry, W!Watch, W!Check, W!StartNode, W!NodeEnds, W!Stop, W!vars, W!thread
  <2>2. W!Watch => poller = "off"
    BY DEF WatchIInv, StartedOnce, W!Watch
  <2>. QED BY <1>0, <2>1, <2>2 DEF WatchIInv, Counted
<1>. QED BY <1>1, <1>2, <1>3

\* A node that starts had its check passed before the token fired, or none fired.
LEMMA LateStep ==
  ASSUME W!CancellationAssumption, WatchIInv, [W!Next]_W!vars
  PROVE  OneAfter' /\ StartedOnce' /\ late' \in 0 .. MaxNodes
<1>1. MaxNodes \in Nat /\ late \in 0 .. MaxNodes /\ token \in BOOLEAN /\ nodes \in 0 .. MaxNodes
  BY DEF W!CancellationAssumption, WatchIInv, W!TypeOK
<1>2. token => token'
  BY <1>1 DEF W!Next, W!Poll, W!Change, W!Connect, W!Drop, W!Dispatch, W!Ask, W!Serve,
     W!Answered, W!Retry, W!PollFails, W!FiresIf, W!Watch, W!Check, W!StartNode, W!NodeEnds,
     W!Stop, W!vars
<1>3. CASE W!StartNode
  BY <1>1, <1>3 DEF W!StartNode, OneAfter, StartedOnce, WatchIInv, W!thread
<1>4. CASE W!Check
  BY <1>1, <1>4 DEF W!Check, OneAfter, StartedOnce, WatchIInv, W!work, W!thread
<1>5. CASE ~W!StartNode /\ ~W!Check
  <2>1. late' = late /\ (phase' = "checked" => phase = "checked")
        /\ (phase' = "before" => phase = "before" /\ (poller = "off" => poller' = "off"))
    BY <1>5 DEF W!Next, W!Poll, W!Change, W!Connect, W!Drop, W!Dispatch, W!Ask, W!Serve,
       W!Answered, W!Retry, W!PollFails, W!Watch, W!NodeEnds, W!Stop, W!vars, W!work,
       W!thread
  <2>. QED BY <1>1, <1>2, <2>1 DEF OneAfter, StartedOnce, WatchIInv
<1>. QED BY <1>3, <1>4, <1>5

\* Every step of the watch keeps its invariant.
LEMMA WatchStep ==
  ASSUME W!CancellationAssumption
  PROVE WatchIInv /\ [W!Next]_W!vars => WatchIInv'
<1>. SUFFICES ASSUME WatchIInv, [W!Next]_W!vars PROVE WatchIInv'
  OBVIOUS
<1>1. /\ MaxNodes \in Nat /\ MaxRetries \in Nat /\ MaxChanges \in Nat /\ MaxDrops \in Nat
      /\ W!TypeOK
  BY DEF W!CancellationAssumption, WatchIInv
<1>2. /\ status' \in W!Statuses /\ pushing' \in BOOLEAN
      /\ socket' \in {"down", "up", "closed"}
      /\ changes' \in 0 .. MaxChanges /\ drops' \in 0 .. MaxDrops
  <2>1. CASE \E s \in W!Statuses : W!Change(s)
    BY <1>1, <2>1 DEF W!TypeOK, W!Change
  <2>2. CASE W!Connect \/ W!Drop \/ W!Dispatch
    BY <1>1, <2>2 DEF W!TypeOK, W!Connect, W!Drop, W!Dispatch, W!server
  <2>3. CASE W!Poll \/ W!Watch \/ W!Check \/ W!StartNode \/ W!NodeEnds \/ W!Stop \/ UNCHANGED W!vars
    BY <1>1, <2>3 DEF W!TypeOK, W!Poll, W!Ask, W!Serve, W!Answered, W!Retry, W!PollFails,
       W!Watch, W!Check, W!StartNode, W!NodeEnds, W!Stop, W!vars, W!server, W!ws
  <2>. QED BY <2>1, <2>2, <2>3 DEF W!Next
<1>3. /\ subscribed' \in BOOLEAN /\ stopped' \in BOOLEAN /\ cancelledOnce' \in BOOLEAN
      /\ token' \in BOOLEAN
  BY <1>1 DEF W!TypeOK, W!Next, W!Poll, W!Change, W!Connect, W!Drop, W!Dispatch, W!Ask,
     W!Serve, W!Answered, W!Retry, W!PollFails, W!FiresIf, W!Handled, W!Watch, W!Check,
     W!StartNode, W!NodeEnds, W!Stop, W!vars
<1>5. /\ phase' \in {"before", "boundary", "checked", "node", "finally", "over"}
      /\ nodes' \in 0 .. MaxNodes
  <2>1. CASE W!Watch \/ W!Check \/ W!StartNode \/ W!NodeEnds \/ W!Stop
    BY <1>1, <2>1 DEF W!TypeOK, W!Watch, W!Check, W!StartNode, W!NodeEnds, W!Stop
  <2>2. CASE ~(W!Watch \/ W!Check \/ W!StartNode \/ W!NodeEnds \/ W!Stop)
    BY <1>1, <2>2 DEF W!TypeOK, W!Next, W!Poll, W!Change, W!Connect, W!Drop, W!Dispatch,
       W!Ask, W!Serve, W!Answered, W!Retry, W!PollFails, W!vars, W!work
  <2>. QED BY <2>1, <2>2
<1>6. /\ poller' \in {"off", "waiting", "asking", "ended", "gave_up"}
      /\ attempt' \in 0 .. MaxRetries + 1 /\ answer' \in W!Statuses \cup {"none"}
  <2>1. CASE W!Poll
    BY <1>1, <2>1 DEF W!TypeOK, W!Poll, W!Ask, W!Serve, W!Answered, W!Retry, W!PollFails,
       W!Reset
  <2>2. CASE ~W!Poll
    BY <1>1, <2>2 DEF W!TypeOK, W!Next, W!Change, W!Connect, W!Drop, W!Dispatch, W!Watch,
       W!Check, W!StartNode, W!NodeEnds, W!Stop, W!vars, W!thread
  <2>. QED BY <2>1, <2>2
<1>4. W!TypeOK'
  BY <1>2, <1>3, <1>5, <1>6, QueueTypes, CountStep, LateStep DEF W!TypeOK
<1>. QED BY <1>4, CountStep, LateStep DEF WatchIInv

\* A step beside the watch leaves it alone.
LEMMA WatchFrame == [MCNext]_all => [W!Next]_W!vars
BY DEF MCNext, all, watch, W!vars, W!server, W!ws, W!thread, W!work

\* Once the token has fired at most the node whose check had passed starts, and the
\* poller gives up only after its last MaxErrors polls all failed, for any number
\* of nodes, polls, dropped connections and changes of the issue.
THEOREM WatchSafety == ASSUME W!CancellationAssumption PROVE MCSpec => []WatchInv
<1>1. ASSUME WatchIInv PROVE W!WatchInv
  <2>1. polls \in Seq({"ok", "error"}) /\ Len(polls) \in Nat /\ Len(polls) <= MaxPollErrors
        /\ MaxPollErrors \in Nat
    BY <1>1, LenProperties DEF WatchIInv, W!TypeOK, W!CancellationAssumption
  <2>2. ASSUME poller = "gave_up" PROVE polls = [n \in 1 .. MaxPollErrors |-> "error"]
    <3>1. Len(polls) = MaxPollErrors /\ \A n \in 1 .. MaxPollErrors : polls[n] = "error"
      BY <1>1, <2>1, <2>2 DEF WatchIInv, Counted
    <3>2. polls = [n \in 1 .. Len(polls) |-> polls[n]]
      BY <2>1, LenProperties
    <3>. QED BY <3>1, <3>2
  <2>. QED BY <1>1, <2>2 DEF WatchIInv, W!WatchInv, OneAfter, W!StopsAtTheNextBoundary,
       W!GivesUpAfterConsecutiveErrors
<1>2. MCInit => W!Init
  BY DEF MCInit
<1>. QED BY <1>1, <1>2, WatchInitially, WatchStep, WatchFrame, PTL DEF MCSpec, WatchInv

-----------------------------------------------------------------------------
(* One call of a language model: sums of tokens                            *)

\* A set of numbers has a least one, and one that is bounded a greatest.
LEMMA LeastNumber ==
  ASSUME NEW T \in SUBSET Nat, T # {} PROVE \E m \in T : \A i \in T : m <= i
<1>1. \E m \in T : \A i \in T : <<i, m>> \notin OpToRel(<, Nat)
  BY NatLessThanWellFounded, WFMin
<1>2. PICK m \in T : \A i \in T : ~(i < m)
  BY <1>1 DEF OpToRel
<1>. QED BY <1>2

LEMMA GreatestNumber ==
  ASSUME NEW n \in Nat, NEW T \in SUBSET (1..n), T # {} PROVE \E m \in T : \A i \in T : i <= m
<1>. DEFINE U == {k \in 0..n : n - k \in T}
<1>1. PICK k \in U : \A l \in U : k <= l
  <2>1. PICK i \in T : TRUE
    OBVIOUS
  <2>2. n - i \in U /\ U \in SUBSET Nat
    BY <2>1
  <2>. HIDE DEF U
  <2>. QED BY <2>2, LeastNumber
<1>2. ASSUME NEW i \in T PROVE i <= n - k
  <2>1. n - i \in U /\ k \in 0..n /\ i \in 1..n
    OBVIOUS
  <2>2. k <= n - i
    BY <1>1, <2>1
  <2>. QED BY <2>1, <2>2
<1>. QED BY <1>1, <1>2

\* Of some finite sets one has the fewest elements.
LEMMA SmallestSet ==
  ASSUME NEW D, IsFiniteSet(D), NEW C \in SUBSET (SUBSET D), C # {}
  PROVE  \E s \in C : \A x \in s : s \ {x} \notin C
<1>. DEFINE T == {Cardinality(s) : s \in C}
<1>1. \A s \in C : IsFiniteSet(s) /\ Cardinality(s) \in Nat
  BY FS_Subset, FS_CardinalityType
<1>2. PICK s \in C : \A t \in C : Cardinality(s) <= Cardinality(t)
  <2>1. T \in SUBSET Nat /\ T # {}
    BY <1>1
  <2>2. PICK m \in T : \A i \in T : m <= i
    BY <2>1, LeastNumber
  <2>. QED BY <2>2
<1>3. ASSUME NEW x \in s PROVE s \ {x} \notin C
  <2>1. Cardinality(s \ {x}) = Cardinality(s) - 1
    BY <1>1, FS_RemoveElement
  <2>. QED BY <1>1, <1>2, <2>1
<1>. QED BY <1>3

\* The tokens of some messages, one by one.
Units(ts, S) == {u \in S \X (1..MaxTokens) : u[2] <= ts[u[1]]}

LEMMA UnitsAdd ==
  ASSUME MaxTokens \in Nat, NEW n \in Nat, NEW ts \in [1..n -> 0..MaxTokens],
         NEW S \in SUBSET (1..n)
  PROVE  /\ IsFiniteSet(S) /\ IsFiniteSet(Units(ts, S)) /\ Cardinality(Units(ts, S)) \in Nat
         /\ \A T \in SUBSET (1..n) :
              S \cap T = {} =>
                Cardinality(Units(ts, S \cup T))
                  = Cardinality(Units(ts, S)) + Cardinality(Units(ts, T))
<1>1. ASSUME NEW T \in SUBSET (1..n)
      PROVE  /\ IsFiniteSet(T) /\ IsFiniteSet(Units(ts, T)) /\ Cardinality(Units(ts, T)) \in Nat
  <2>0. IsFiniteSet(1..n) /\ IsFiniteSet(1..MaxTokens)
    BY FS_Interval
  <2>1. IsFiniteSet(T)
    BY <2>0, FS_Subset
  <2>2. IsFiniteSet(T \X (1..MaxTokens))
    BY <2>0, <2>1, FS_Product
  <2>. QED BY <2>1, <2>2, FS_Subset, FS_CardinalityType DEF Units
<1>2. ASSUME NEW T \in SUBSET (1..n), S \cap T = {}
      PROVE  Cardinality(Units(ts, S \cup T))
               = Cardinality(Units(ts, S)) + Cardinality(Units(ts, T))
  <2>1. /\ Units(ts, S \cup T) = Units(ts, S) \cup Units(ts, T)
        /\ Units(ts, S) \cap Units(ts, T) = {}
    BY <1>2 DEF Units
  <2>2. /\ IsFiniteSet(Units(ts, S)) /\ Cardinality(Units(ts, S)) \in Nat
        /\ IsFiniteSet(Units(ts, T)) /\ Cardinality(Units(ts, T)) \in Nat
    BY <1>1
  <2>3. Cardinality(Units(ts, S) \cap Units(ts, T)) = 0
    BY <2>1, FS_EmptySet
  <2>4. Cardinality(Units(ts, S) \cup Units(ts, T))
          = Cardinality(Units(ts, S)) + Cardinality(Units(ts, T))
              - Cardinality(Units(ts, S) \cap Units(ts, T))
    BY <2>2, FS_Union
  <2>5. Cardinality(Units(ts, S \cup T)) = Cardinality(Units(ts, S) \cup Units(ts, T))
    BY <2>1, Zenon
  <2>6. Cardinality(Units(ts, S) \cup Units(ts, T))
          = Cardinality(Units(ts, S)) + Cardinality(Units(ts, T))
    BY <2>2, <2>3, <2>4
  <2>. QED BY <2>5, <2>6
<1>. QED BY <1>1, <1>2

LEMMA UnitsOne ==
  ASSUME MaxTokens \in Nat, NEW n \in Nat, NEW ts \in [1..n -> 0..MaxTokens], NEW x \in 1..n
  PROVE  Cardinality(Units(ts, {x})) = ts[x]
<1>. DEFINE f == [k \in 1..ts[x] |-> <<x, k>>]
<1>1. ts[x] \in 0..MaxTokens /\ IsFiniteSet(1..ts[x]) /\ Cardinality(1..ts[x]) = ts[x]
  BY FS_Interval
<1>2. f \in Bijection(1..ts[x], Units(ts, {x}))
  <2>1. f \in [1..ts[x] -> Units(ts, {x})]
    BY <1>1 DEF Units
  <2>2. \A u \in Units(ts, {x}) : u[2] \in 1..ts[x] /\ f[u[2]] = u
    BY <1>1 DEF Units
  <2>3. \A k, l \in 1..ts[x] : f[k] = f[l] => k = l
    OBVIOUS
  <2>. HIDE DEF f
  <2>. QED BY <2>1, <2>2, <2>3 DEF Bijection, Injection, Surjection, IsInjective
<1>3. ExistsBijection(1..ts[x], Units(ts, {x}))
  BY <1>2 DEF ExistsBijection
<1>. QED BY <1>1, <1>3, FS_Bijection

\* A function that adds up the tokens of a set, message by message.
Adds(ts, S, f) ==
  f = [s \in SUBSET S |->
         IF s = {} THEN 0
         ELSE ts[CHOOSE x \in s : TRUE] + f[s \ {CHOOSE x \in s : TRUE}]]

LEMMA TotalAdds ==
  ASSUME NEW ts, NEW S, \E f : Adds(ts, S, f)
  PROVE  \E f : Adds(ts, S, f) /\ L!Total(ts, S) = f[S]
<1>. DEFINE iter == CHOOSE f : f = [s \in SUBSET S |->
         IF s = {} THEN 0
         ELSE ts[CHOOSE x \in s : TRUE] + f[s \ {CHOOSE x \in s : TRUE}]]
<1>1. Adds(ts, S, iter)
  BY DEF Adds
<1>2. L!Total(ts, S) = iter[S]
  BY DEF L!Total, L!MapThenSumSet, L!MapThenFoldSet
<1>. HIDE DEF iter
<1>. QED BY <1>1, <1>2

\* What Total is.
LEMMA TotalCounts ==
  ASSUME MaxTokens \in Nat, NEW n \in Nat, NEW ts \in [1..n -> 0..MaxTokens],
         NEW S \in SUBSET (1..n)
  PROVE  L!Total(ts, S) = Cardinality(Units(ts, S))
<1>. DEFINE g == [s \in SUBSET S |-> Cardinality(Units(ts, s))]
            one(s) == CHOOSE x \in s : TRUE
<1>1. g[{}] = 0
  <2>1. Units(ts, {}) = {}
    BY DEF Units
  <2>. QED BY <2>1, FS_EmptySet
<1>2. ASSUME NEW s \in SUBSET S, s # {}
      PROVE  one(s) \in s /\ g[s] = ts[one(s)] + g[s \ {one(s)}]
  <2>1. one(s) \in s
    BY <1>2
  <2>. HIDE DEF one
  <2>2. {one(s)} \cup (s \ {one(s)}) = s /\ {one(s)} \cap (s \ {one(s)}) = {}
    BY <2>1
  <2>3. {one(s)} \in SUBSET (1..n) /\ s \ {one(s)} \in SUBSET (1..n)
    BY <2>1
  <2>4. Cardinality(Units(ts, s)) = Cardinality(Units(ts, {one(s)}))
                                     + Cardinality(Units(ts, s \ {one(s)}))
    <3>. DEFINE A == {one(s)}
                B == s \ {one(s)}
    <3>1. A \cup B = s /\ A \cap B = {} /\ A \in SUBSET (1..n) /\ B \in SUBSET (1..n)
      BY <2>2, <2>3
    <3>. HIDE DEF A, B, g
    <3>2. Cardinality(Units(ts, A \cup B)) = Cardinality(Units(ts, A)) + Cardinality(Units(ts, B))
      BY <3>1, UnitsAdd
    <3>3. Cardinality(Units(ts, s)) = Cardinality(Units(ts, A)) + Cardinality(Units(ts, B))
      BY <3>1, <3>2, Zenon
    <3>. QED BY <3>3 DEF A, B
  <2>5. Cardinality(Units(ts, {one(s)})) = ts[one(s)]
    BY <2>3, UnitsOne
  <2>. QED BY <2>1, <2>4, <2>5
<1>3. Adds(ts, S, g)
  BY <1>1, <1>2 DEF Adds
<1>4. PICK f : Adds(ts, S, f) /\ L!Total(ts, S) = f[S]
  BY <1>3, TotalAdds
<1>5. /\ f[{}] = 0
      /\ \A s \in SUBSET S : s # {} => f[s] = ts[one(s)] + f[s \ {one(s)}]
  BY <1>4 DEF Adds
<1>6. \A s \in SUBSET S : f[s] = g[s]
  <2>. DEFINE C == {s \in SUBSET S : f[s] # g[s]}
  <2>. SUFFICES ASSUME C # {} PROVE FALSE
    OBVIOUS
  <2>1. PICK s \in C : \A x \in s : s \ {x} \notin C
    BY UnitsAdd, SmallestSet
  <2>2. s # {}
    BY <1>1, <1>5, <2>1
  <2>3. one(s) \in s /\ g[s] = ts[one(s)] + g[s \ {one(s)}]
    BY <1>2, <2>2
  <2>. HIDE DEF g, one
  <2>. QED BY <1>5, <2>1, <2>2, <2>3
<1>. QED BY <1>4, <1>6

\* How totals add up.
LEMMA Totals ==
  ASSUME MaxTokens \in Nat, NEW n \in Nat, NEW ts \in [1..n -> 0..MaxTokens],
         NEW S \in SUBSET (1..n)
  PROVE  /\ L!Total(ts, S) \in Nat
         /\ \A T \in SUBSET (1..n) :
              S \cap T = {} => L!Total(ts, S \cup T) = L!Total(ts, S) + L!Total(ts, T)
         /\ \A T \in SUBSET S : L!Total(ts, T) <= L!Total(ts, S)
         /\ \A x \in 1..n : L!Total(ts, {x}) = ts[x]
<1>1. \A T \in SUBSET (1..n) : L!Total(ts, T) \in Nat
  BY UnitsAdd, TotalCounts
<1>2. \A T, U \in SUBSET (1..n) :
        T \cap U = {} => L!Total(ts, T \cup U) = L!Total(ts, T) + L!Total(ts, U)
  <2>1. ASSUME NEW T \in SUBSET (1..n), NEW U \in SUBSET (1..n), T \cap U = {}
        PROVE  L!Total(ts, T \cup U) = L!Total(ts, T) + L!Total(ts, U)
    <3>1. T \cup U \in SUBSET (1..n)
      OBVIOUS
    <3>. QED BY <2>1, <3>1, UnitsAdd, TotalCounts
  <2>. QED BY <2>1
<1>3. ASSUME NEW T \in SUBSET S PROVE L!Total(ts, T) <= L!Total(ts, S)
  <2>1. /\ T \cup (S \ T) = S /\ T \cap (S \ T) = {}
        /\ T \in SUBSET (1..n) /\ S \ T \in SUBSET (1..n)
    OBVIOUS
  <2>2. L!Total(ts, S) = L!Total(ts, T) + L!Total(ts, S \ T)
    BY <1>2, <2>1
  <2>. QED BY <1>1, <2>1, <2>2
<1>4. ASSUME NEW x \in 1..n PROVE L!Total(ts, {x}) = ts[x]
  <2>1. {x} \in SUBSET (1..n)
    OBVIOUS
  <2>. QED BY <2>1, TotalCounts, UnitsOne
<1>. QED BY <1>1, <1>2, <1>3, <1>4

-----------------------------------------------------------------------------
(* What is kept of a conversation                                          *)

\* What the walk from the newest message down has kept when it has looked at
\* the places s of the reversed conversation.
Greedy(ts, middle, budget, s, K) ==
  /\ K \subseteq middle
  /\ \A i \in middle :
       i \in K <=> /\ Len(ts) - i + 1 \in s
                   /\ budget - L!Total(ts, {j \in K : j > i}) >= ts[i]

\* One message more.
Keep(ts, middle, budget, kept, i) ==
  IF i \in middle /\ budget - L!Total(ts, kept) >= ts[i] THEN kept \cup {i} ELSE kept

Walks(ts, middle, budget, f) ==
  f = [s \in SUBSET (1..Len(ts)) |->
         IF s = {} THEN {}
         ELSE Keep(ts, middle, budget, f[s \ {L!Max(s)}], Len(ts) - L!Max(s) + 1)]

LEMMA KeepRecentWalks ==
  ASSUME NEW ts, Len(ts) \in Nat, DOMAIN ts = 1..Len(ts), NEW middle, NEW budget,
         \E f : Walks(ts, middle, budget, f)
  PROVE  \E f : Walks(ts, middle, budget, f)
                /\ L!KeepRecent(ts, middle, budget) = f[1..Len(ts)]
<1>. DEFINE seq == L!Reverse([i \in DOMAIN ts |-> i])
            GoOn(f, s) ==
                IF s = {} THEN {}
                ELSE IF seq[L!Max(s)] \in middle
                        /\ budget - L!Total(ts, f[s \ {L!Max(s)}]) >= ts[seq[L!Max(s)]]
                     THEN f[s \ {L!Max(s)}] \cup {seq[L!Max(s)]} ELSE f[s \ {L!Max(s)}]
            WalkOn(f, s) ==
                IF s = {} THEN {}
                ELSE Keep(ts, middle, budget, f[s \ {L!Max(s)}], Len(ts) - L!Max(s) + 1)
            Goes(f) == f = [s \in SUBSET DOMAIN seq |-> GoOn(f, s)]
            iter == CHOOSE f : Goes(f)
<1>1. L!KeepRecent(ts, middle, budget) = iter[DOMAIN seq]
  BY DEF L!KeepRecent, L!FoldLeft, L!MapThenFoldSet
<1>2. DOMAIN seq = 1..Len(ts) /\ \A k \in 1..Len(ts) : seq[k] = Len(ts) - k + 1
  <2>. DEFINE id == [i \in DOMAIN ts |-> i]
  <2>1. id \in Seq(Nat) /\ Len(id) = Len(ts)
    <3>1. id \in [1..Len(ts) -> Nat]
      OBVIOUS
    <3>. QED BY <3>1, SeqDef, LenProperties
  <2>2. seq = [k \in 1..Len(ts) |-> id[(Len(ts) - k) + 1]]
    BY <2>1 DEF L!Reverse
  <2>3. \A k \in 1..Len(ts) : (Len(ts) - k) + 1 \in 1..Len(ts)
    OBVIOUS
  <2>4. \A k \in 1..Len(ts) : id[(Len(ts) - k) + 1] = (Len(ts) - k) + 1
    BY <2>3
  <2>. HIDE DEF id
  <2>. QED BY <2>2, <2>4
<1>. HIDE DEF seq
<1>3. ASSUME NEW s \in SUBSET (1..Len(ts)), s # {}
      PROVE  L!Max(s) \in s
  <2>1. PICK m \in s : \A i \in s : i <= m
    BY <1>3, GreatestNumber
  <2>. QED BY <2>1 DEF L!Max
<1>4. \A f : Walks(ts, middle, budget, f) <=> Goes(f)
  <2>1. ASSUME NEW f, NEW s \in SUBSET (1..Len(ts))
        PROVE  WalkOn(f, s) = GoOn(f, s)
    <3>1. CASE s = {}
      BY <3>1
    <3>2. CASE s # {}
      <4>1. seq[L!Max(s)] = Len(ts) - L!Max(s) + 1
        BY <1>2, <1>3, <3>2
      <4>. QED BY <3>2, <4>1 DEF Keep
    <3>. QED BY <3>1, <3>2
  <2>2. \A f : Walks(ts, middle, budget, f) <=> f = [s \in SUBSET (1..Len(ts)) |-> WalkOn(f, s)]
    BY DEF Walks
  <2>3. \A f : Goes(f) <=> f = [s \in SUBSET (1..Len(ts)) |-> GoOn(f, s)]
    <3>. HIDE DEF GoOn
    <3>. QED BY <1>2
  <2>. HIDE DEF GoOn, WalkOn, Goes
  <2>4. \A f : [s \in SUBSET (1..Len(ts)) |-> WalkOn(f, s)]
               = [s \in SUBSET (1..Len(ts)) |-> GoOn(f, s)]
    BY <2>1
  <2>. QED BY <2>2, <2>3, <2>4
<1>5. Goes(iter)
  <2>. HIDE DEF Goes
  <2>. QED BY <1>4
<1>. QED BY <1>1, <1>2, <1>4, <1>5

\* There is one such set at most: two would differ at a last message, and what
\* comes after that is the same in both.
LEMMA GreedyIsOne ==
  ASSUME NEW ts, Len(ts) \in Nat, NEW middle \in SUBSET (1..Len(ts)), NEW budget, NEW s,
         NEW K, Greedy(ts, middle, budget, s, K), NEW M, Greedy(ts, middle, budget, s, M)
  PROVE  K = M
<1>. DEFINE D == (K \ M) \cup (M \ K)
<1>. SUFFICES ASSUME D # {} PROVE FALSE
  OBVIOUS
<1>1. K \subseteq middle /\ M \subseteq middle /\ D \in SUBSET (1..Len(ts))
  BY DEF Greedy
<1>2. PICK i \in D : \A j \in D : j <= i
  <2>. HIDE DEF D
  <2>. QED BY <1>1, GreatestNumber
<1>3. \A j \in middle : j > i => (j \in K <=> j \in M)
  BY <1>1, <1>2
<1>4. {j \in K : j > i} = {j \in M : j > i}
  BY <1>1, <1>3
<1>. QED BY <1>1, <1>2, <1>4 DEF Greedy

\* The last of the places is decided by what is kept at the others.
LEMMA GreedyGoesOn ==
  ASSUME NEW ts, Len(ts) \in Nat, NEW middle \in SUBSET (1..Len(ts)), NEW budget,
         NEW s \in SUBSET (1..Len(ts)), NEW x \in s, \A y \in s : y <= x,
         NEW K, Greedy(ts, middle, budget, s \ {x}, K)
  PROVE  Greedy(ts, middle, budget, s, Keep(ts, middle, budget, K, Len(ts) - x + 1))
<1>. DEFINE i0 == Len(ts) - x + 1
            N == Keep(ts, middle, budget, K, i0)
<1>1. i0 \in 1..Len(ts) /\ Len(ts) - i0 + 1 = x
  OBVIOUS
<1>2. K \subseteq middle /\ \A j \in K : j > i0
  <2>1. ASSUME NEW j \in K PROVE j > i0
    <3>1. j \in 1..Len(ts) /\ Len(ts) - j + 1 \in s \ {x}
      BY DEF Greedy
    <3>. QED BY <3>1
  <2>. QED BY <2>1 DEF Greedy
<1>3. /\ N \subseteq middle /\ N \subseteq K \cup {i0} /\ K \subseteq N
      /\ i0 \in middle => (i0 \in N <=> budget - L!Total(ts, K) >= ts[i0])
  <2>1. i0 \notin K
    BY <1>1, <1>2
  <2>. HIDE DEF i0
  <2>. QED BY <1>2, <2>1 DEF Keep
<1>. HIDE DEF i0, N
<1>4. ASSUME NEW i \in middle
      PROVE  i \in N <=> /\ Len(ts) - i + 1 \in s
                         /\ budget - L!Total(ts, {j \in N : j > i}) >= ts[i]
  <2>0. i \in 1..Len(ts) /\ i0 \in Nat
    BY <1>1
  <2>1. CASE i = i0
    <3>1. {j \in N : j > i} = K
      <4>1. \A j \in N : j \in K \/ j = i0
        BY <1>3
      <4>2. ~(i > i) /\ \A j \in K : j > i /\ j \in N
        BY <1>2, <1>3, <2>0, <2>1
      <4>. QED BY <2>1, <4>1, <4>2
    <3>. QED BY <1>1, <1>3, <2>1, <3>1
  <2>2. CASE i > i0
    <3>1. {j \in N : j > i} = {j \in K : j > i}
      <4>1. \A j \in N : j \in K \/ j = i0
        BY <1>3
      <4>2. ~(i0 > i) /\ \A j \in K : j \in N
        BY <1>3, <2>0, <2>2
      <4>. QED BY <4>1, <4>2
    <3>2. i \in N <=> i \in K
      BY <1>3, <2>0, <2>2
    <3>3. Len(ts) - i + 1 \in s \ {x} <=> Len(ts) - i + 1 \in s
      BY <1>1, <2>0, <2>2
    <3>. QED BY <3>1, <3>2, <3>3 DEF Greedy
  <2>3. CASE i < i0
    <3>1. i \notin N
      BY <1>2, <1>3, <2>0, <2>3
    <3>2. Len(ts) - i + 1 > x /\ Len(ts) - i + 1 \in Nat
      BY <1>1, <2>0, <2>3
    <3>. QED BY <3>1, <3>2
  <2>. QED BY <2>0, <2>1, <2>2, <2>3
<1>. QED BY <1>3, <1>4 DEF Greedy, N, i0

LEMMA GreedyBegins ==
  ASSUME NEW ts, NEW middle, NEW budget
  PROVE  Greedy(ts, middle, budget, {}, {})
BY DEF Greedy

\* The last place of some.
LEMMA LastPlace ==
  ASSUME NEW n \in Nat, NEW s \in SUBSET (1..n), s # {}
  PROVE  L!Max(s) \in s /\ \A y \in s : y <= L!Max(s)
<1>1. PICK m \in s : \A i \in s : i <= m
  BY GreatestNumber
<1>. QED BY <1>1 DEF L!Max

LEMMA GreedyExists ==
  ASSUME NEW ts, Len(ts) \in Nat, NEW middle \in SUBSET (1..Len(ts)), NEW budget
  PROVE  \A s \in SUBSET (1..Len(ts)) : \E K : Greedy(ts, middle, budget, s, K)
<1>. DEFINE C == {s \in SUBSET (1..Len(ts)) : ~ \E K : Greedy(ts, middle, budget, s, K)}
<1>. SUFFICES ASSUME C # {} PROVE FALSE
  OBVIOUS
<1>1. PICK s \in C : \A x \in s : s \ {x} \notin C
  <2>1. C \in SUBSET (SUBSET (1..Len(ts))) /\ IsFiniteSet(1..Len(ts))
    BY FS_Interval
  <2>. HIDE DEF C
  <2>. QED BY <2>1, SmallestSet
<1>2. s # {} /\ s \in SUBSET (1..Len(ts))
  BY <1>1, GreedyBegins
<1>3. L!Max(s) \in s /\ \A y \in s : y <= L!Max(s)
  BY <1>2, LastPlace
<1>4. PICK K : Greedy(ts, middle, budget, s \ {L!Max(s)}, K)
  BY <1>1, <1>3
<1>5. \E N : Greedy(ts, middle, budget, s, N)
  BY <1>2, <1>3, <1>4, GreedyGoesOn
<1>. QED BY <1>1, <1>5

\* So there is a function that walks, and what it has at the end is greedy.
LEMMA WalksGreedily ==
  ASSUME NEW ts, Len(ts) \in Nat, NEW middle \in SUBSET (1..Len(ts)), NEW budget
  PROVE  /\ \E f : Walks(ts, middle, budget, f)
         /\ \A f : Walks(ts, middle, budget, f) =>
              Greedy(ts, middle, budget, 1..Len(ts), f[1..Len(ts)])
<1>. DEFINE P == SUBSET (1..Len(ts))
            G(s, K) == Greedy(ts, middle, budget, s, K)
            next(f, s) == Keep(ts, middle, budget, f[s \ {L!Max(s)}], Len(ts) - L!Max(s) + 1)
<1>1. \A s \in P : \A K, M : G(s, K) /\ G(s, M) => K = M
  BY GreedyIsOne
<1>2. ASSUME NEW f, NEW s \in P, s # {}, G(s \ {L!Max(s)}, f[s \ {L!Max(s)}])
      PROVE  G(s, next(f, s))
  BY <1>2, LastPlace, GreedyGoesOn
<1>3. \E f : Walks(ts, middle, budget, f)
  <2>. DEFINE g == [s \in P |-> CHOOSE K : G(s, K)]
  <2>1. \A s \in P : G(s, g[s])
    BY GreedyExists
  <2>2. g[{}] = {}
    <3>1. {} \in P /\ G({}, {})
      BY GreedyBegins
    <3>. HIDE DEF g, G, P
    <3>. QED BY <1>1, <2>1, <3>1
  <2>3. ASSUME NEW s \in P, s # {} PROVE g[s] = next(g, s)
    <3>1. s \ {L!Max(s)} \in P
      OBVIOUS
    <3>2. G(s \ {L!Max(s)}, g[s \ {L!Max(s)}]) /\ G(s, g[s])
      BY <2>1, <3>1
    <3>3. G(s, next(g, s))
      <4>. HIDE DEF g, G, P, next
      <4>. QED BY <1>2, <2>3, <3>2
    <3>. HIDE DEF g, G, P, next
    <3>. QED BY <1>1, <3>2, <3>3
  <2>4. g = [s \in P |-> g[s]]
    OBVIOUS
  <2>. HIDE DEF g
  <2>5. Walks(ts, middle, budget, g)
    BY <2>2, <2>3, <2>4 DEF Walks
  <2>. QED BY <2>5
<1>4. ASSUME NEW f, Walks(ts, middle, budget, f)
      PROVE  \A s \in P : G(s, f[s])
  <2>1. /\ f[{}] = {}
        /\ \A s \in P : s # {} => f[s] = next(f, s)
    BY <1>4 DEF Walks
  <2>. DEFINE C == {s \in P : ~G(s, f[s])}
  <2>. SUFFICES ASSUME C # {} PROVE FALSE
    OBVIOUS
  <2>2. PICK s \in C : \A x \in s : s \ {x} \notin C
    <3>1. C \in SUBSET (SUBSET (1..Len(ts))) /\ IsFiniteSet(1..Len(ts))
      BY FS_Interval
    <3>. HIDE DEF C
    <3>. QED BY <3>1, SmallestSet
  <2>3. s # {} /\ s \in P /\ ~G(s, f[s])
    <3>1. s \in P /\ ~G(s, f[s])
      BY <2>2
    <3>2. G({}, {})
      BY GreedyBegins
    <3>. HIDE DEF G, P, next, C
    <3>. QED BY <2>1, <3>1, <3>2
  <2>4. L!Max(s) \in s
    BY <2>3, LastPlace
  <2>5. G(s \ {L!Max(s)}, f[s \ {L!Max(s)}])
    BY <2>2, <2>4
  <2>. HIDE DEF G, P, next, C
  <2>. QED BY <1>2, <2>1, <2>3, <2>5
<1>. QED BY <1>3, <1>4

\* What KeepRecent is: a message of the middle stays if it fits beside those
\* after it that stay.
LEMMA KeptAreGreedy ==
  ASSUME NEW ts, Len(ts) \in Nat, DOMAIN ts = 1..Len(ts),
         NEW middle \in SUBSET (1..Len(ts)), NEW budget
  PROVE  LET K == L!KeepRecent(ts, middle, budget)
         IN  /\ K \subseteq middle
             /\ \A i \in middle :
                  i \in K <=> budget - L!Total(ts, {j \in K : j > i}) >= ts[i]
<1>1. PICK f : /\ Walks(ts, middle, budget, f)
               /\ L!KeepRecent(ts, middle, budget) = f[1..Len(ts)]
  BY WalksGreedily, KeepRecentWalks
<1>2. Greedy(ts, middle, budget, 1..Len(ts), L!KeepRecent(ts, middle, budget))
  BY <1>1, WalksGreedily
<1>3. \A i \in middle : Len(ts) - i + 1 \in 1..Len(ts)
  OBVIOUS
<1>. QED BY <1>2, <1>3 DEF Greedy

-----------------------------------------------------------------------------
(* One call of a language model                                            *)

Lengths == UNION {[1..n -> 0..MaxTokens] : n \in 1..MaxMessages}

\* What the last post of vLLM held is the conversation cut to the window.
CutToWindow ==
  kind = "vllm" /\ sent # {} =>
    /\ sent = L!Truncated(tokens, system, maxTokens)
    /\ room = IF L!Overflows(tokens, maxTokens) THEN L!Room(tokens, maxTokens) ELSE maxTokens

\* After every reply but the last of a call that has ended, one of the loops went on.
GoesOn(r) == L!PostsAgain(kind, r) \/ L!Raised(kind, r) \in L!Transient
LoopsWentOn ==
  \A i \in DOMAIN replies :
    GoesOn(replies[i]) \/ (i = Len(replies) /\ llmPc \notin {"attempt", "post"})

\* The posts there were: one at least and InnerRetries at most for each attempt
\* that is over, and those of the attempt under way.
PostsAreCounted ==
  /\ llmPc \in {"attempt", "post"} => retry <= MaxLLMRetries
  /\ llmPc = "attempt" => Len(replies) \in retry..(retry * InnerRetries)
  /\ llmPc = "post" => Len(replies) \in (retry + inner)..(retry * InnerRetries + inner)
  /\ llmPc = "exhausted" =>
       /\ retry = MaxLLMRetries + 1
       /\ Len(replies) \in retry..(retry * InnerRetries)
       /\ L!Raised(kind, replies[Len(replies)]) \in L!Transient

CallIInv ==
  /\ L!TypeOK /\ tokens \in Lengths /\ maxTokens \in 1..Window
  /\ CutToWindow /\ LoopsWentOn /\ PostsAreCounted

LEMMA Conversation ==
  ASSUME L!LLMCallAssumption, NEW ts \in Lengths
  PROVE  /\ MaxTokens \in Nat /\ Window \in Nat /\ MinOutput \in Nat /\ Window > MinOutput
         /\ MinOutput > 0 /\ InnerRetries \in Nat /\ InnerRetries > 0 /\ MaxLLMRetries \in Nat
         /\ Len(ts) \in Nat /\ Len(ts) > 0 /\ DOMAIN ts = 1..Len(ts)
         /\ ts \in [1..Len(ts) -> 0..MaxTokens]
<1>1. PICK n \in 1..MaxMessages : ts \in [1..n -> 0..MaxTokens]
  BY DEF Lengths
<1>2. /\ MaxTokens \in Nat /\ Window \in Nat /\ MinOutput \in Nat /\ Window > MinOutput
      /\ MinOutput > 0 /\ InnerRetries \in Nat /\ InnerRetries > 0 /\ MaxLLMRetries \in Nat
      /\ MaxMessages \in Nat
  BY DEF L!LLMCallAssumption
<1>3. n \in Nat /\ n > 0
  BY <1>2
<1>4. Len(ts) = n
  BY <1>1, <1>3, LenProperties
<1>. QED BY <1>1, <1>2, <1>3, <1>4

\* The answer has room, and no more than there is.
LEMMA RoomIsLeft ==
  ASSUME L!LLMCallAssumption, NEW ts \in Lengths, NEW m \in 1..Window
  PROVE  L!Room(ts, m) \in 0..Window
<1>. DEFINE total == L!Total(ts, DOMAIN ts)
<1>1. /\ total \in Nat /\ Window \in Nat /\ MinOutput \in Nat /\ Window > MinOutput
  BY Conversation, Totals
<1>. HIDE DEF total
<1>2. L!Max({MinOutput, Window - total}) \in 0..Window
  <2>. DEFINE M == {MinOutput, Window - total}
  <2>1. \E x \in M : \A y \in M : x >= y
    <3>1. CASE MinOutput >= Window - total
      BY <1>1, <3>1
    <3>2. CASE ~(MinOutput >= Window - total)
      BY <1>1, <3>2
    <3>. QED BY <3>1, <3>2
  <2>2. L!Max(M) \in M /\ \A y \in M : L!Max(M) >= y
    <3>. HIDE DEF M
    <3>. QED BY <2>1 DEF L!Max
  <2>3. L!Max(M) \in {MinOutput, Window - total} /\ L!Max(M) >= MinOutput
    BY <2>2
  <2>. HIDE DEF M
  <2>. QED BY <1>1, <2>3 DEF M
<1>. QED BY <1>1, <1>2 DEF L!Room, total

\* What is reserved of a longer conversation are its last message and perhaps its first.
LEMMA ReservedMessages ==
  ASSUME NEW ts, Len(ts) \in Nat, Len(ts) > 0, NEW sys
  PROVE  L!Reserved(ts, sys) \subseteq 1..Len(ts) /\ L!Reserved(ts, sys) # {}
BY DEF L!Reserved

LEMMA TruncatedMessages ==
  ASSUME L!LLMCallAssumption, NEW ts \in Lengths, NEW sys, NEW m
  PROVE  L!Truncated(ts, sys, m) \subseteq DOMAIN ts
<1>1. Len(ts) \in Nat /\ Len(ts) > 0 /\ DOMAIN ts = 1..Len(ts)
  BY Conversation
<1>2. L!Reserved(ts, sys) \subseteq DOMAIN ts
  BY <1>1, ReservedMessages
<1>3. \A budget : L!KeepRecent(ts, DOMAIN ts \ L!Reserved(ts, sys), budget) \subseteq DOMAIN ts
  BY <1>1, KeptAreGreedy
<1>. QED BY <1>2, <1>3 DEF L!Truncated

LEMMA CallInitially == ASSUME L!LLMCallAssumption PROVE L!Init => CallIInv
<1>. SUFFICES ASSUME L!Init PROVE CallIInv
  OBVIOUS
<1>1. /\ kind \in L!Kinds /\ tokens \in Lengths /\ system \in BOOLEAN /\ maxTokens \in 1..Window
      /\ retry = 0 /\ inner = 0 /\ llmPc = "attempt" /\ sent = {} /\ room = 0
      /\ replies = << >>
  BY DEF L!Init, Lengths
<1>2. replies \in Seq(L!Replies) /\ Len(replies) = 0 /\ DOMAIN replies = {}
  BY <1>1, EmptySeq
<1>3. MaxLLMRetries \in Nat /\ InnerRetries \in Nat /\ InnerRetries > 0 /\ Window \in Nat
  BY DEF L!LLMCallAssumption
<1>4. L!TypeOK
  BY <1>1, <1>2, <1>3 DEF L!TypeOK
<1>5. CutToWindow /\ LoopsWentOn /\ PostsAreCounted
  BY <1>1, <1>2, <1>3 DEF CutToWindow, LoopsWentOn, PostsAreCounted
<1>. QED BY <1>1, <1>4, <1>5 DEF CallIInv

LEMMA AttemptStep ==
  ASSUME L!LLMCallAssumption, CallIInv, L!Attempt PROVE CallIInv'
<1>t. /\ L!TypeOK /\ tokens \in Lengths /\ maxTokens \in 1..Window
      /\ LoopsWentOn /\ PostsAreCounted
      /\ retry \in Nat /\ Len(replies) \in Nat
  BY LenProperties DEF CallIInv, L!TypeOK
<1>1. /\ llmPc = "attempt" /\ inner' = 0 /\ llmPc' = "post"
      /\ UNCHANGED <<kind, system, tokens, maxTokens, retry, replies>>
  BY DEF L!Attempt, L!request
<1>2. /\ kind = "vllm" =>
           /\ sent' = L!Truncated(tokens, system, maxTokens)
           /\ room' = IF L!Overflows(tokens, maxTokens) THEN L!Room(tokens, maxTokens)
                      ELSE maxTokens
      /\ kind # "vllm" => sent' = DOMAIN tokens /\ room' = maxTokens
  BY DEF L!Attempt
<1>3. sent' \subseteq DOMAIN tokens /\ room' \in 0..Window
  BY <1>t, <1>2, TruncatedMessages, RoomIsLeft
<1>4. InnerRetries \in Nat /\ InnerRetries > 0
  BY DEF L!LLMCallAssumption
<1>5. L!TypeOK'
  BY <1>t, <1>1, <1>3, <1>4 DEF L!TypeOK
<1>6. CutToWindow'
  BY <1>1, <1>2 DEF CutToWindow, L!Truncated, L!Overflows, L!Room, L!Reserved
<1>7. LoopsWentOn'
  BY <1>t, <1>1 DEF LoopsWentOn, GoesOn
<1>8. PostsAreCounted'
  BY <1>t, <1>1, <1>4 DEF PostsAreCounted
<1>. QED BY <1>t, <1>1, <1>5, <1>6, <1>7, <1>8 DEF CallIInv

LEMMA PostStep ==
  ASSUME L!LLMCallAssumption, CallIInv, L!Post PROVE CallIInv'
<1>t. /\ L!TypeOK /\ tokens \in Lengths /\ maxTokens \in 1..Window
      /\ CutToWindow /\ LoopsWentOn /\ PostsAreCounted
      /\ retry \in Nat /\ inner \in Nat /\ replies \in Seq(L!Replies) /\ Len(replies) \in Nat
      /\ DOMAIN replies = 1..Len(replies)
  BY LenProperties DEF CallIInv, L!TypeOK
<1>c. InnerRetries \in Nat /\ InnerRetries > 0 /\ MaxLLMRetries \in Nat
  BY DEF L!LLMCallAssumption
<1>0. PICK r \in L!Replies :
        LET again == L!PostsAgain(kind, r) /\ L!PostsLeft(inner)
            error == L!Raised(kind, r)
        IN  /\ replies' = Append(replies, r)
            /\ inner' = IF again THEN inner + 1 ELSE inner
            /\ retry' = IF again \/ error \notin L!Transient THEN retry ELSE retry + 1
            /\ llmPc' = IF again THEN "post"
                        ELSE IF error = "none" THEN "ok"
                        ELSE IF error \notin L!Transient THEN "raised"
                        ELSE IF retry >= MaxLLMRetries THEN "exhausted" ELSE "attempt"
  BY DEF L!Post
<1>. DEFINE again == L!PostsAgain(kind, r) /\ L!PostsLeft(inner)
            error == L!Raised(kind, r)
<1>1. /\ llmPc = "post" /\ UNCHANGED <<kind, system, tokens, maxTokens, sent, room>>
  BY DEF L!Post, L!request
<1>2. /\ replies' \in Seq(L!Replies) /\ Len(replies') = Len(replies) + 1
      /\ DOMAIN replies' = 1..(Len(replies) + 1)
      /\ replies'[Len(replies) + 1] = r
      /\ \A i \in 1..Len(replies) : replies'[i] = replies[i]
  <2>1. replies' = Append(replies, r)
    BY <1>0
  <2>. QED BY <1>t, <2>1, AppendProperties, LenProperties
<1>3. /\ again => inner < InnerRetries - 1
      /\ ~again /\ error \in L!Transient => error # "none"
  BY <1>t, <1>c DEF L!PostsLeft, L!Transient
<1>4. \/ /\ again /\ inner' = inner + 1 /\ retry' = retry /\ llmPc' = "post"
      \/ /\ error \notin L!Transient /\ inner' = inner /\ retry' = retry
         /\ llmPc' \in {"ok", "raised"}
      \/ /\ error \in L!Transient /\ inner' = inner /\ retry' = retry + 1
         /\ llmPc' = IF retry >= MaxLLMRetries THEN "exhausted" ELSE "attempt"
  <2>. HIDE DEF error
  <2>. QED BY <1>0, <1>3 DEF error
<1>5. GoesOn(r) \/ llmPc' \in {"ok", "raised"}
  BY <1>4 DEF GoesOn
<1>. HIDE DEF again, error
<1>6. L!TypeOK'
  <2>1. inner' \in 0..(InnerRetries - 1) /\ retry' \in 0..(MaxLLMRetries + 1)
        /\ llmPc' \in {"attempt", "post", "ok", "raised", "exhausted"}
    BY <1>t, <1>c, <1>1, <1>3, <1>4 DEF L!TypeOK, PostsAreCounted
  <2>. QED BY <1>t, <1>1, <1>2, <2>1 DEF L!TypeOK
<1>7. CutToWindow'
  BY <1>t, <1>1 DEF CutToWindow, L!Truncated, L!Overflows, L!Room, L!Reserved
<1>8. LoopsWentOn'
  <2>1. \A i \in 1..Len(replies) : GoesOn(replies[i])
    BY <1>t, <1>1 DEF LoopsWentOn
  <2>3. ASSUME NEW i \in DOMAIN replies'
        PROVE  GoesOn(replies'[i]) \/ (i = Len(replies') /\ llmPc' \notin {"attempt", "post"})
    <3>1. CASE i \in 1..Len(replies)
      BY <1>2, <2>1, <3>1
    <3>2. CASE i = Len(replies) + 1
      BY <1>2, <1>5, <3>2
    <3>. QED BY <1>t, <1>2, <3>1, <3>2
  <2>. QED BY <1>1, <2>3 DEF LoopsWentOn, GoesOn
<1>9. PostsAreCounted'
  <2>1. /\ retry <= MaxLLMRetries
        /\ retry + inner <= Len(replies) /\ Len(replies) <= retry * InnerRetries + inner
        /\ inner <= InnerRetries - 1
    BY <1>t, <1>1 DEF PostsAreCounted, L!TypeOK
  <2>2. (retry + 1) * InnerRetries = retry * InnerRetries + InnerRetries
        /\ retry * InnerRetries \in Nat
    BY <1>t, <1>c
  <2>. DEFINE posts == retry * InnerRetries
  <2>3. CASE again /\ inner' = inner + 1 /\ retry' = retry /\ llmPc' = "post"
    <3>. HIDE DEF posts
    <3>1. Len(replies') \in (retry + inner + 1)..(posts + inner + 1)
      BY <1>t, <1>2, <2>1, <2>2, <2>3 DEF posts
    <3>2. retry' * InnerRetries = posts
      BY <2>3 DEF posts
    <3>. QED BY <1>t, <2>1, <2>2, <2>3, <3>1, <3>2 DEF PostsAreCounted, posts
  <2>4. CASE llmPc' \in {"ok", "raised"}
    BY <2>4 DEF PostsAreCounted
  <2>5. CASE /\ error \in L!Transient /\ inner' = inner /\ retry' = retry + 1
             /\ llmPc' = IF retry >= MaxLLMRetries THEN "exhausted" ELSE "attempt"
    <3>1. Len(replies') \in retry'..(retry' * InnerRetries)
      <4>1. retry' * InnerRetries = posts + InnerRetries
        BY <2>2, <2>5
      <4>. HIDE DEF posts
      <4>. QED BY <1>t, <1>c, <1>2, <2>1, <2>2, <2>5, <4>1 DEF posts
    <3>2. L!Raised(kind', replies'[Len(replies')]) \in L!Transient
      BY <1>1, <1>2, <2>5 DEF error
    <3>3. retry' <= MaxLLMRetries \/ (llmPc' = "exhausted" /\ retry' = MaxLLMRetries + 1)
      BY <1>t, <1>c, <2>1, <2>5
    <3>4. CASE llmPc' = "attempt"
      BY <3>1, <3>3, <3>4 DEF PostsAreCounted
    <3>5. CASE llmPc' = "exhausted"
      <4>1. retry' = MaxLLMRetries + 1
        BY <1>t, <1>c, <2>1, <2>5, <3>5
      <4>. QED BY <3>1, <3>2, <3>5, <4>1 DEF PostsAreCounted
    <3>. QED BY <2>5, <3>4, <3>5
  <2>. QED BY <1>4, <2>3, <2>4, <2>5
<1>. QED BY <1>t, <1>1, <1>6, <1>7, <1>8, <1>9 DEF CallIInv

-----------------------------------------------------------------------------
(* What the cut conversation is                                            *)

\* A set of messages is one of them and the others.
LEMMA OneAndOthers ==
  ASSUME MaxTokens \in Nat, NEW n \in Nat, NEW ts \in [1..n -> 0..MaxTokens],
         NEW S \in SUBSET (1..n), NEW i \in S
  PROVE  L!Total(ts, S) = L!Total(ts, S \ {i}) + ts[i] /\ L!Total(ts, S \ {i}) \in Nat
                          /\ ts[i] \in Nat
<1>1. /\ (S \ {i}) \cup {i} = S /\ (S \ {i}) \cap {i} = {}
      /\ S \ {i} \in SUBSET (1..n) /\ {i} \in SUBSET (1..n) /\ i \in 1..n
  OBVIOUS
<1>2. L!Total(ts, (S \ {i}) \cup {i}) = L!Total(ts, S \ {i}) + L!Total(ts, {i})
  <2>. DEFINE R == S \ {i}
              I == {i}
  <2>1. R \in SUBSET (1..n) /\ I \in SUBSET (1..n) /\ R \cap I = {}
    BY <1>1
  <2>. HIDE DEF R, I
  <2>2. \A T \in SUBSET (1..n) :
          R \cap T = {} => L!Total(ts, R \cup T) = L!Total(ts, R) + L!Total(ts, T)
    BY <2>1, Totals
  <2>3. L!Total(ts, R \cup I) = L!Total(ts, R) + L!Total(ts, I)
    BY <2>1, <2>2
  <2>. QED BY <2>3 DEF R, I
<1>3. L!Total(ts, {i}) = ts[i] /\ L!Total(ts, S \ {i}) \in Nat /\ ts[i] \in Nat
  <2>1. L!Total(ts, {i}) = ts[i]
    BY <1>1, Totals
  <2>2. L!Total(ts, S \ {i}) \in Nat
    BY <1>1, Totals
  <2>3. ts[i] \in Nat
    BY <1>1
  <2>. QED BY <2>1, <2>2, <2>3
<1>4. L!Total(ts, (S \ {i}) \cup {i}) = L!Total(ts, S)
  BY <1>1, Zenon
<1>. QED BY <1>2, <1>3, <1>4

\* What is kept of the middle fits the budget.
LEMMA KeptFits ==
  ASSUME MaxTokens \in Nat, NEW ts, Len(ts) \in Nat, ts \in [1..Len(ts) -> 0..MaxTokens],
         NEW middle \in SUBSET (1..Len(ts)), NEW budget \in Int
  PROVE  LET K == L!KeepRecent(ts, middle, budget)
         IN  K # {} => L!Total(ts, K) <= budget
<1>. DEFINE K == L!KeepRecent(ts, middle, budget)
<1>1. /\ K \subseteq middle
      /\ \A i \in middle : i \in K <=> budget - L!Total(ts, {j \in K : j > i}) >= ts[i]
  BY KeptAreGreedy
<1>. HIDE DEF K
<1>2. ASSUME K # {} PROVE L!Total(ts, K) <= budget
  <2>1. K \in SUBSET Nat /\ K \in SUBSET (1..Len(ts))
    BY <1>1
  <2>2. PICK i \in K : \A j \in K : i <= j
    BY <1>2, <2>1, LeastNumber
  <2>3. {j \in K : j > i} = K \ {i}
    <3>1. \A j \in K : j > i <=> j # i
      BY <2>1, <2>2
    <3>. QED BY <3>1
  <2>4. budget - L!Total(ts, K \ {i}) >= ts[i]
    BY <1>1, <2>2, <2>3
  <2>5. /\ L!Total(ts, K) = L!Total(ts, K \ {i}) + ts[i]
        /\ L!Total(ts, K \ {i}) \in Nat /\ ts[i] \in Nat
    BY <2>1, <2>2, OneAndOthers
  <2>. QED BY <2>4, <2>5
<1>. QED BY <1>2 DEF K

\* Where a choice of the middle that fits first differs from what is kept, seen
\* from the newest message, what is kept has the message.
LEMMA KeptWins ==
  ASSUME MaxTokens \in Nat, NEW ts, Len(ts) \in Nat, ts \in [1..Len(ts) -> 0..MaxTokens],
         NEW middle \in SUBSET (1..Len(ts)), NEW budget \in Int,
         NEW S \in SUBSET middle, L!Total(ts, S) <= budget,
         S # L!KeepRecent(ts, middle, budget)
  PROVE  L!Max(L!SymDiff(S, L!KeepRecent(ts, middle, budget))) \in L!KeepRecent(ts, middle, budget)
<1>. DEFINE K == L!KeepRecent(ts, middle, budget)
            D == L!SymDiff(S, K)
<1>1. /\ K \subseteq middle
      /\ \A i \in middle : i \in K <=> budget - L!Total(ts, {j \in K : j > i}) >= ts[i]
  BY KeptAreGreedy
<1>2. S # K
  OBVIOUS
<1>. HIDE DEF K
<1>3. D \in SUBSET (1..Len(ts)) /\ D # {} /\ D \subseteq middle
      /\ \A x : x \in D <=> (x \in S /\ x \notin K) \/ (x \in K /\ x \notin S)
  BY <1>1, <1>2 DEF L!SymDiff
<1>. DEFINE i == L!Max(D)
<1>. HIDE DEF D
<1>4. i \in D /\ \A y \in D : y <= i
  BY <1>3, LastPlace
<1>. HIDE DEF i
<1>5. ASSUME i \notin K PROVE FALSE
  <2>1. i \in S /\ i \in middle /\ i \in 1..Len(ts)
    BY <1>3, <1>4, <1>5
  <2>2. {j \in K : j > i} = {j \in S : j > i}
    <3>1. \A j \in middle : j > i => (j \in K <=> j \in S)
      BY <1>3, <1>4
    <3>. QED BY <1>1, <3>1
  <2>. DEFINE later == {j \in S : j > i}
  <2>3. ~(budget - L!Total(ts, later) >= ts[i])
    BY <1>1, <1>5, <2>1, <2>2
  <2>4. /\ later \in SUBSET (S \ {i}) /\ S \in SUBSET (1..Len(ts))
        /\ S \ {i} \in SUBSET (1..Len(ts)) /\ later \in SUBSET (1..Len(ts))
    <3>1. S \in SUBSET (1..Len(ts)) /\ ~(i > i)
      BY <2>1
    <3>. QED BY <3>1
  <2>. HIDE DEF later
  <2>5. /\ L!Total(ts, S) = L!Total(ts, S \ {i}) + ts[i]
        /\ L!Total(ts, S \ {i}) \in Nat /\ ts[i] \in Nat
    BY <2>1, <2>4, OneAndOthers
  <2>6. L!Total(ts, later) <= L!Total(ts, S \ {i}) /\ L!Total(ts, later) \in Nat
    BY <2>4, Totals
  <2>. QED BY <2>3, <2>5, <2>6
<1>. QED BY <1>5 DEF i, D, K

\* The parts of what vLLM is sent when the conversation overflows.
LEMMA CutParts ==
  ASSUME L!LLMCallAssumption, CallIInv, kind = "vllm", sent # {}, Len(tokens) > 2,
         L!Overflows(tokens, maxTokens)
  PROVE  LET fixed == L!Reserved(tokens, system)
             middle == DOMAIN tokens \ fixed
             budget == Window - room - L!Total(tokens, fixed)
         IN  /\ room \in Nat /\ budget \in Int /\ L!Total(tokens, fixed) \in Nat
             /\ sent \ fixed = L!KeepRecent(tokens, middle, budget)
             /\ fixed \subseteq 1..Len(tokens) /\ fixed \subseteq sent
             /\ \A S \in SUBSET middle :
                  L!Total(tokens, fixed \cup S) = L!Total(tokens, fixed) + L!Total(tokens, S)
<1>. DEFINE fixed == L!Reserved(tokens, system)
            middle == DOMAIN tokens \ fixed
            budget == Window - room - L!Total(tokens, fixed)
<1>1. /\ tokens \in Lengths /\ room = L!Room(tokens, maxTokens) /\ room \in 0..Window
      /\ sent = L!Truncated(tokens, system, maxTokens)
  BY DEF CallIInv, CutToWindow, L!TypeOK
<1>2. /\ MaxTokens \in Nat /\ Window \in Nat
      /\ Len(tokens) \in Nat /\ Len(tokens) > 0 /\ DOMAIN tokens = 1..Len(tokens)
      /\ tokens \in [1..Len(tokens) -> 0..MaxTokens]
  BY <1>1, Conversation
<1>3. sent = fixed \cup L!KeepRecent(tokens, middle, budget)
  <2>1. ~(Len(tokens) <= 2)
    BY <1>2
  <2>. QED BY <1>1, <2>1 DEF L!Truncated
<1>4. fixed \subseteq 1..Len(tokens) /\ middle \in SUBSET (1..Len(tokens))
  BY <1>2, ReservedMessages
<1>. HIDE DEF fixed
<1>5. L!KeepRecent(tokens, middle, budget) \subseteq middle
  <2>. HIDE DEF middle, budget
  <2>. QED BY <1>2, <1>4, KeptAreGreedy
<1>6. L!Total(tokens, fixed) \in Nat
  BY <1>2, <1>4, Totals
<1>7. ASSUME NEW S \in SUBSET middle
      PROVE  L!Total(tokens, fixed \cup S) = L!Total(tokens, fixed) + L!Total(tokens, S)
  <2>1. /\ S \in SUBSET (1..Len(tokens)) /\ fixed \in SUBSET (1..Len(tokens))
        /\ fixed \cap S = {}
    BY <1>4
  <2>. HIDE DEF middle
  <2>. QED BY <1>2, <1>4, <2>1, Totals
<1>8. sent \ fixed = L!KeepRecent(tokens, middle, budget)
  <2>. DEFINE K == L!KeepRecent(tokens, middle, budget)
  <2>1. K \subseteq middle /\ sent = fixed \cup K
    BY <1>3, <1>5
  <2>. HIDE DEF K
  <2>2. sent \ fixed = K
    BY <2>1
  <2>. QED BY <2>2 DEF K
<1>9. room \in Nat /\ budget \in Int
  BY <1>1, <1>2, <1>6
<1>10. fixed \subseteq sent
  BY <1>3
<1>. HIDE DEF budget
<1>. QED BY <1>4, <1>6, <1>7, <1>8, <1>9, <1>10 DEF fixed, budget

LEMMA CallKeepsWindow ==
  ASSUME L!LLMCallAssumption, CallIInv PROVE L!WindowHolds
<1>. SUFFICES ASSUME kind = "vllm", sent # {}, Len(tokens) > 2
              PROVE  \/ L!Total(tokens, sent) + room <= Window
                     \/ L!Total(tokens, L!Reserved(tokens, system)) + room > Window
  BY DEF L!WindowHolds
<1>1. /\ MaxTokens \in Nat /\ Window \in Nat
      /\ Len(tokens) \in Nat /\ DOMAIN tokens = 1..Len(tokens)
      /\ tokens \in [1..Len(tokens) -> 0..MaxTokens]
  BY Conversation DEF CallIInv
<1>2. CASE ~L!Overflows(tokens, maxTokens)
  <2>1. sent = DOMAIN tokens /\ room = maxTokens /\ maxTokens \in Nat
    BY <1>2 DEF CallIInv, CutToWindow, L!Truncated
  <2>2. L!Total(tokens, DOMAIN tokens) \in Nat
    BY <1>1, Totals
  <2>. QED BY <1>1, <1>2, <2>1, <2>2 DEF L!Overflows
<1>3. CASE L!Overflows(tokens, maxTokens)
  <2>. DEFINE fixed == L!Reserved(tokens, system)
              middle == DOMAIN tokens \ fixed
              budget == Window - room - L!Total(tokens, fixed)
              K == L!KeepRecent(tokens, middle, budget)
  <2>1. /\ room \in Nat /\ budget \in Int /\ L!Total(tokens, fixed) \in Nat
        /\ sent \ fixed = K /\ fixed \subseteq 1..Len(tokens) /\ fixed \subseteq sent
        /\ \A S \in SUBSET middle :
             L!Total(tokens, fixed \cup S) = L!Total(tokens, fixed) + L!Total(tokens, S)
    BY <1>3, CutParts
  <2>2. K # {} => L!Total(tokens, K) <= budget
    BY <1>1, <2>1, KeptFits
  <2>3. K \subseteq middle
    <3>1. middle \in SUBSET (1..Len(tokens))
      BY <1>1
    <3>. HIDE DEF middle, budget
    <3>. QED BY <1>1, <3>1, KeptAreGreedy
  <2>4. L!Total(tokens, K) \in Nat
    BY <1>1, <2>3, Totals
  <2>. HIDE DEF K
  <2>5. fixed \cup K = sent
    BY <2>1
  <2>6. L!Total(tokens, sent) = L!Total(tokens, fixed) + L!Total(tokens, K)
    BY <2>1, <2>3, <2>5
  <2>. HIDE DEF fixed
  <2>7. CASE K # {}
    BY <1>1, <2>1, <2>2, <2>4, <2>6, <2>7
  <2>8. CASE K = {}
    <3>1. sent = fixed
      BY <2>5, <2>8
    <3>. QED BY <1>1, <2>1, <3>1 DEF fixed
  <2>. QED BY <2>7, <2>8
<1>. QED BY <1>2, <1>3

LEMMA CallKeepsTheNewest ==
  ASSUME L!LLMCallAssumption, CallIInv PROVE L!NewestWin
<1>. DEFINE fixed == L!Reserved(tokens, system)
            middle == DOMAIN tokens \ fixed
            budget == Window - room - L!Total(tokens, fixed)
            K == L!KeepRecent(tokens, middle, budget)
<1>. SUFFICES ASSUME kind = "vllm", sent # {}, L!Overflows(tokens, maxTokens), Len(tokens) > 2,
                     NEW S \in SUBSET middle, L!Total(tokens, fixed \cup S) + room <= Window,
                     S # sent \ fixed
              PROVE  L!Max(L!SymDiff(S, sent \ fixed)) \in sent
  BY DEF L!NewestWin
<1>1. /\ MaxTokens \in Nat /\ Window \in Nat
      /\ Len(tokens) \in Nat /\ DOMAIN tokens = 1..Len(tokens)
      /\ tokens \in [1..Len(tokens) -> 0..MaxTokens]
  BY Conversation DEF CallIInv
<1>2. /\ room \in Nat /\ budget \in Int /\ L!Total(tokens, fixed) \in Nat
      /\ sent \ fixed = K
      /\ L!Total(tokens, fixed \cup S) = L!Total(tokens, fixed) + L!Total(tokens, S)
  BY CutParts
<1>3. middle \in SUBSET (1..Len(tokens)) /\ S \in SUBSET (1..Len(tokens))
  BY <1>1
<1>4. L!Total(tokens, S) \in Nat
  BY <1>1, <1>3, Totals
<1>. HIDE DEF fixed
<1>5. L!Total(tokens, S) <= budget
  BY <1>1, <1>2, <1>4
<1>6. S # K
  BY <1>2
<1>7. L!Max(L!SymDiff(S, K)) \in K
  <2>. HIDE DEF budget, middle
  <2>. QED BY <1>1, <1>2, <1>3, <1>5, <1>6, KeptWins
<1>. HIDE DEF K
<1>. QED BY <1>2, <1>7

LEMMA CallsAreCounted ==
  ASSUME L!LLMCallAssumption, CallIInv
  PROVE  L!BillingStopsTheCall /\ L!NothingAnsweredIsPostedAgain /\ L!ExhaustedMeansTried
<1>1. /\ LoopsWentOn /\ PostsAreCounted /\ kind \in L!Kinds /\ replies \in Seq(L!Replies)
      /\ DOMAIN replies = 1..Len(replies) /\ Len(replies) \in Nat
      /\ \A i \in DOMAIN replies : replies[i] \in L!Replies
  BY LenProperties DEF CallIInv, L!TypeOK
<1>2. \A r : GoesOn(r) =>
        /\ r \notin {"ok", "empty"}
        /\ kind = "anthropic" => r \notin {"402", "credit"}
  BY <1>1 DEF GoesOn, L!PostsAgain, L!Raised, L!VLLMRaises, L!OpenAIRaises, L!AnthropicRaises,
     L!Transient, L!Kinds
<1>3. \A r \in L!Replies : GoesOn(r) /\ kind = "vllm" =>
        r \in {"timeout", "unreachable", "429", "credit", "5xx"}
  BY DEF GoesOn, L!PostsAgain, L!Raised, L!VLLMRaises, L!Transient, L!Replies
<1>4. \A i \in DOMAIN replies : i = Len(replies) \/ GoesOn(replies[i])
  BY <1>1 DEF LoopsWentOn
<1>5. L!BillingStopsTheCall
  BY <1>2, <1>4 DEF L!BillingStopsTheCall
<1>6. L!NothingAnsweredIsPostedAgain
  BY <1>1, <1>2, <1>3, <1>4 DEF L!NothingAnsweredIsPostedAgain
<1>7. L!ExhaustedMeansTried
  BY <1>1 DEF L!ExhaustedMeansTried, PostsAreCounted, L!Last
<1>. QED BY <1>5, <1>6, <1>7

\* A step beside the call leaves it alone.
LEMMA CallFrame == [MCNext]_all => [L!Next]_(L!vars)
BY DEF MCNext, all, llm, L!vars, L!request

LEMMA CallStep ==
  ASSUME L!LLMCallAssumption PROVE CallIInv /\ [L!Next]_(L!vars) => CallIInv'
<1>1. ASSUME CallIInv, UNCHANGED L!vars PROVE CallIInv'
  <2>1. UNCHANGED <<kind, system, tokens, maxTokens, retry, inner, llmPc, sent, room, replies>>
    BY <1>1 DEF L!vars, L!request
  <2>. QED BY <1>1, <2>1 DEF CallIInv, L!TypeOK, CutToWindow, L!Truncated, L!Overflows, L!Room,
       L!Reserved, LoopsWentOn, GoesOn, PostsAreCounted
<1>. QED BY <1>1, AttemptStep, PostStep DEF L!Next

\* A call of a model keeps to the context window or sends nothing but what it
\* must, never drops a recent message for older ones, posts nothing again that was
\* answered or refused for good, and gives up after its retries and no sooner, for
\* any conversation, window and number of retries of both layers.
THEOREM CallSafety == ASSUME L!LLMCallAssumption PROVE MCSpec => []CallInv
<1>1. CallIInv => CallInv
  BY CallKeepsWindow, CallKeepsTheNewest, CallsAreCounted DEF CallInv, L!CallInv, CallIInv
<1>2. MCInit => L!Init
  BY DEF MCInit
<1>. QED BY <1>1, <1>2, CallInitially, CallStep, CallFrame, PTL DEF MCSpec

=============================================================================
