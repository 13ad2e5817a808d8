--------------------------- MODULE SandboxPoolProofs ---------------------------
(***************************************************************************)
(* Proofs about SandboxPool for any workers, any size of the pool and any  *)
(* number of containers, calls and starts; about SubTasks for any          *)
(* sub-tasks and limits; and about KeyPrompt for any processes, names and  *)
(* values.                                                                 *)
(***************************************************************************)
EXTENDS MCTools, FiniteSetTheorems, SequenceTheorems, WellFoundedInduction, TLAPS

\* A worker that holds a container, and one that works with it: what a worker
\* has warmed is in the queue already.
Holding == {"warmed", "replace", "track", "run", "release", "put", "kill"}
AtWork == Holding \ {"warmed"}
Spots == Holding \cup {"idle", "flag", "warm", "get", "create"}

\* Where threads are, what they hold there, and that every container named
\* anywhere was created.
Places ==
  /\ used \in 0 .. MaxSandboxes
  /\ pc \in [Workers -> Spots]
  /\ \A w \in Workers : pc[w] \in Holding <=> held[w] # None
  /\ \A w \in Workers : held[w] <= used
  /\ ToSet(pool) \cup ToSet(fresh) \cup expired \subseteq 1 .. used
  /\ mpc = "list" => mine # None
  /\ opc \in {"join", "kill", "stopped"} => stopping

\* InOnePlace, by the places.
Apart ==
  /\ IsInjective(pool) /\ IsInjective(fresh)
  /\ ToSet(pool) \cap ToSet(fresh) = {}
  /\ (ToSet(pool) \cup ToSet(fresh)) \cap expired = {}
  /\ \A w \in Workers : pc[w] \in AtWork =>
       /\ held[w] \notin ToSet(pool) \cup ToSet(fresh) \cup expired
       /\ \A v \in Workers : pc[v] \in AtWork /\ held[v] = held[w] => v = w

\* Before a stop a container that is kept for use has not been killed, and
\* neither has the one a tool works in.
KeptAlive ==
  ~stopping =>
    /\ ToSet(pool) \cup ToSet(fresh) \subseteq alive \cup old
    /\ \A w \in Workers :
         pc[w] \in {"track", "run", "release", "put"} => held[w] \in alive \cup old

\* A container whose time to live is over runs no more; only such ones are killed
\* to be replaced.
Expiry ==
  /\ alive \cap old = {} /\ expired \subseteq old
  /\ \A w \in Workers : pc[w] = "replace" => held[w] \in old

\* Before a stop a container that runs is in the list, or the thread that has
\* created it is about to add it, or it came after that thread had given up.
Creating == {w \in Workers : pc[w] \in {"warmed", "track"}}
Known ==
  handles \cup {held[w] : w \in Creating} \cup (IF mpc = "list" THEN {mine} ELSE {})
    \cup late
Remembered == ~stopping => alive \subseteq Known

IInv == TypeOK /\ Places /\ Apart /\ KeptAlive /\ Expiry /\ Remembered

-----------------------------------------------------------------------------
(* Queues of containers                                                    *)

LEMMA Appended ==
  ASSUME NEW s \in Seq(Ids), NEW c \in Ids
  PROVE  /\ Append(s, c) \in Seq(Ids)
         /\ ToSet(Append(s, c)) = ToSet(s) \cup {c}
         /\ IsInjective(s) /\ c \notin ToSet(s) => IsInjective(Append(s, c))
<1>. DEFINE t == Append(s, c)
<1>1. /\ t \in Seq(Ids) /\ Len(t) = Len(s) + 1 /\ Len(s) \in Nat
      /\ \A i \in 1 .. Len(s) : t[i] = s[i]
      /\ t[Len(s) + 1] = c
  BY AppendProperties, LenProperties
<1>2. DOMAIN t = 1 .. Len(s) + 1 /\ DOMAIN s = 1 .. Len(s)
  BY <1>1, LenProperties
<1>. HIDE DEF t
<1>3. ToSet(t) = ToSet(s) \cup {c}
  BY <1>1, <1>2 DEF ToSet
<1>4. IsInjective(s) /\ c \notin ToSet(s) => IsInjective(t)
  BY <1>1, <1>2 DEF ToSet, IsInjective
<1>. QED BY <1>1, <1>3, <1>4 DEF t

LEMMA Taken ==
  ASSUME NEW s \in Seq(Ids), s # << >>
  PROVE  /\ Tail(s) \in Seq(Ids) /\ Head(s) \in Ids
         /\ ToSet(s) = ToSet(Tail(s)) \cup {Head(s)}
         /\ IsInjective(s) => IsInjective(Tail(s)) /\ Head(s) \notin ToSet(Tail(s))
<1>. DEFINE t == Tail(s)
<1>1. /\ t \in Seq(Ids) /\ Len(t) = Len(s) - 1 /\ Len(s) \in Nat /\ Len(s) >= 1
      /\ \A i \in 1 .. Len(t) : t[i] = s[i + 1]
      /\ Head(s) = s[1] /\ Head(s) \in Ids
  BY HeadTailProperties, LenProperties, EmptySeq
<1>2. DOMAIN t = 1 .. Len(s) - 1 /\ DOMAIN s = 1 .. Len(s)
  BY <1>1, LenProperties
<1>. HIDE DEF t
<1>3. \A i \in 2 .. Len(s) : i - 1 \in DOMAIN t /\ s[i] = t[i - 1]
  BY <1>1, <1>2
<1>4. \A i \in DOMAIN t : i + 1 \in DOMAIN s /\ t[i] = s[i + 1]
  BY <1>1, <1>2
<1>5. ToSet(t) \cup {Head(s)} \subseteq ToSet(s)
  BY <1>1, <1>2, <1>4 DEF ToSet
<1>6. ToSet(s) \subseteq ToSet(t) \cup {Head(s)}
  <2>. SUFFICES ASSUME NEW i \in 1 .. Len(s) PROVE s[i] \in ToSet(t) \cup {s[1]}
    BY <1>1, <1>2 DEF ToSet
  <2>1. CASE i = 1
    BY <2>1
  <2>2. CASE i # 1
    BY <1>1, <1>3, <2>2 DEF ToSet
  <2>. QED BY <2>1, <2>2
<1>7. ASSUME IsInjective(s) PROVE IsInjective(t) /\ Head(s) \notin ToSet(t)
  <2>1. \A i, j \in DOMAIN t : t[i] = t[j] => i + 1 = j + 1
    BY <1>4, <1>7 DEF IsInjective
  <2>2. \A i \in DOMAIN t : t[i] # s[1]
    <3>. SUFFICES ASSUME NEW i \in DOMAIN t, t[i] = s[1] PROVE FALSE
      OBVIOUS
    <3>1. i + 1 \in DOMAIN s /\ 1 \in DOMAIN s /\ s[i + 1] = s[1]
      BY <1>1, <1>2, <1>4
    <3>2. i + 1 = 1
      BY <1>7, <3>1 DEF IsInjective
    <3>. QED BY <1>2, <3>2
  <2>. QED BY <1>1, <1>2, <2>1, <2>2 DEF IsInjective, ToSet
<1>. QED BY <1>1, <1>5, <1>6, <1>7 DEF t

LEMMA Joined ==
  ASSUME NEW s \in Seq(Ids), NEW t \in Seq(Ids)
  PROVE  /\ s \o t \in Seq(Ids)
         /\ ToSet(s \o t) = ToSet(s) \cup ToSet(t)
         /\ IsInjective(s) /\ IsInjective(t) /\ ToSet(s) \cap ToSet(t) = {}
              => IsInjective(s \o t)
<1>. DEFINE q == s \o t
<1>1. /\ q \in Seq(Ids) /\ Len(q) = Len(s) + Len(t) /\ Len(s) \in Nat /\ Len(t) \in Nat
      /\ \A i \in 1 .. Len(s) + Len(t) :
           q[i] = IF i <= Len(s) THEN s[i] ELSE t[i - Len(s)]
  BY ConcatProperties, LenProperties
<1>2. /\ DOMAIN q = 1 .. Len(s) + Len(t)
      /\ DOMAIN s = 1 .. Len(s) /\ DOMAIN t = 1 .. Len(t)
  BY <1>1, LenProperties
<1>. HIDE DEF q
<1>3. ASSUME NEW i \in DOMAIN q
      PROVE  \/ i \in DOMAIN s /\ q[i] = s[i]
             \/ ~(i <= Len(s)) /\ i - Len(s) \in DOMAIN t /\ q[i] = t[i - Len(s)]
  BY <1>1, <1>2
<1>4. /\ \A i \in DOMAIN s : i \in DOMAIN q /\ q[i] = s[i]
      /\ \A i \in DOMAIN t : i + Len(s) \in DOMAIN q /\ q[i + Len(s)] = t[i]
  <2>1. \A i \in DOMAIN s : i \in DOMAIN q /\ q[i] = s[i]
    BY <1>1, <1>2
  <2>2. \A i \in DOMAIN t : i + Len(s) \in DOMAIN q /\ ~(i + Len(s) <= Len(s))
                            /\ i + Len(s) - Len(s) = i
    BY <1>1, <1>2
  <2>. QED BY <1>1, <1>2, <2>1, <2>2
<1>5. ToSet(q) = ToSet(s) \cup ToSet(t)
  BY <1>3, <1>4 DEF ToSet
<1>6. ASSUME IsInjective(s), IsInjective(t), ToSet(s) \cap ToSet(t) = {}
      PROVE  IsInjective(q)
  <2>. SUFFICES ASSUME NEW i \in DOMAIN q, NEW j \in DOMAIN q, q[i] = q[j] PROVE i = j
    BY DEF IsInjective
  <2>1. CASE i \in DOMAIN s /\ q[i] = s[i]
    <3>1. j \in DOMAIN s /\ q[j] = s[j]
      BY <1>3, <1>6, <2>1 DEF ToSet
    <3>. QED BY <1>6, <2>1, <3>1 DEF IsInjective
  <2>2. CASE i - Len(s) \in DOMAIN t /\ q[i] = t[i - Len(s)]
    <3>1. j - Len(s) \in DOMAIN t /\ q[j] = t[j - Len(s)]
      BY <1>3, <1>6, <2>2 DEF ToSet
    <3>2. i - Len(s) = j - Len(s)
      BY <1>6, <2>2, <3>1 DEF IsInjective
    <3>. QED BY <1>1, <1>2, <3>2
  <2>. QED BY <1>3, <2>1, <2>2
<1>. QED BY <1>1, <1>5, <1>6 DEF q

\* The containers an eager start creates.
LEMMA Warmth ==
  ASSUME NEW u \in Nat, NEW n \in Nat, u + n <= MaxSandboxes
  PROVE  /\ [i \in 1 .. n |-> u + i] \in Seq(Ids)
         /\ ToSet([i \in 1 .. n |-> u + i]) = u + 1 .. u + n
         /\ IsInjective([i \in 1 .. n |-> u + i])
<1>. DEFINE s == [i \in 1 .. n |-> u + i]
<1>0. MaxSandboxes \in Nat
  BY SandboxPoolAssumption
<1>1. \A i \in 1 .. n : u + i \in Ids
  BY <1>0 DEF Ids
<1>2. s \in Seq(Ids)
  BY <1>1, SeqDef
<1>3. ToSet(s) \subseteq u + 1 .. u + n
  BY DEF ToSet
<1>4. ASSUME NEW c \in u + 1 .. u + n PROVE c \in ToSet(s)
  <2>1. c - u \in 1 .. n /\ u + (c - u) = c
    OBVIOUS
  <2>. QED BY <2>1 DEF ToSet
<1>5. IsInjective(s)
  BY DEF IsInjective
<1>. QED BY <1>2, <1>3, <1>4, <1>5

LEMMA EmptyQueue == << >> \in Seq(Ids) /\ ToSet(<< >>) = {} /\ IsInjective(<< >>)
<1>1. << >> \in Seq(Ids) /\ DOMAIN << >> = {}
  BY EmptySeq
<1>. QED BY <1>1 DEF ToSet, IsInjective

\* InOnePlace follows.
LEMMA ApartIsOnePlace == TypeOK /\ Places /\ Apart => InOnePlace
<1>. SUFFICES ASSUME TypeOK, Places, Apart PROVE InOnePlace
  OBVIOUS
<1>1. /\ ToSet(pool \o fresh) = ToSet(pool) \cup ToSet(fresh)
      /\ IsInjective(pool \o fresh)
  BY Joined DEF TypeOK, Apart
<1>2. ASSUME NEW c \in Ids
      PROVE  /\ Cardinality(Using(c)) <= 1
             /\ Using(c) # {} => c \notin ToSet(pool \o fresh) \cup expired
  <2>1. \A w \in Using(c) : w \in Workers /\ pc[w] \in AtWork /\ held[w] = c
    BY SandboxPoolAssumption DEF Using, Places, AtWork, Ids, None
  <2>2. \A v, w \in Using(c) : v = w
    BY <2>1 DEF Apart
  <2>3. Cardinality(Using(c)) <= 1
    <3>1. CASE Using(c) = {}
      BY <3>1, FS_EmptySet
    <3>2. CASE \E w \in Using(c) : Using(c) = {w}
      BY <3>2, FS_Singleton
    <3>. QED BY <2>2, <3>1, <3>2
  <2>. QED BY <1>1, <2>1, <2>3 DEF Apart
<1>. QED BY <1>1, <1>2 DEF InOnePlace, Apart

-----------------------------------------------------------------------------
(* The steps                                                               *)

\* What the server creates is new.
LEMMA CreatedIsNew ==
  ASSUME TypeOK, Places, NEW c \in Ids \cup {None}, Created(c)
  PROVE  \/ c = None /\ UNCHANGED <<used, alive, late>>
         \/ /\ used + 1 \in Ids /\ used + 1 \notin 1 .. used
            /\ 1 .. used' = 1 .. used \cup {used + 1}
            /\ used' = used + 1 /\ used' > used /\ alive' = alive \cup {used + 1}
            /\ \/ c = used + 1 /\ c # None /\ late' = late
               \/ c = None /\ late' = late \cup {used + 1}
<1>1. CASE c = None /\ UNCHANGED <<used, alive, late>>
  BY <1>1
<1>2. CASE /\ used < MaxSandboxes /\ used' = used + 1 /\ alive' = alive \cup {used + 1}
           /\ \/ c = used + 1 /\ late' = late
              \/ c = None /\ late' = late \cup {used + 1}
  <2>1. used \in Nat /\ MaxSandboxes \in Nat
    BY SandboxPoolAssumption DEF Places
  <2>. QED BY <1>2, <2>1 DEF Ids, None
<1>. QED BY <1>1, <1>2 DEF Created, server

\* A step that moves no container but out of expired, or out of a worker's hands.
Quiet ==
  /\ UNCHANGED <<pool, fresh>> /\ expired' \subseteq expired
  /\ \A w \in Workers : pc'[w] \in AtWork => pc[w] \in AtWork /\ held'[w] = held[w]

\* The workers' hands.
HandsStill ==
  \A w \in Workers : pc'[w] \in AtWork => pc[w] \in AtWork /\ held'[w] = held[w]

LEMMA QuietKeepsApart == ASSUME Apart, Quiet PROVE Apart'
BY DEF Apart, Quiet

\* A new container in the queue.
LEMMA NewKeepsApart ==
  ASSUME TypeOK, Places, Apart, NEW c \in Ids, c \notin 1 .. used,
         pool' = Append(pool, c), UNCHANGED <<fresh, expired>>, HandsStill
  PROVE  Apart'
<1>1. /\ ToSet(pool') = ToSet(pool) \cup {c}
      /\ c \notin ToSet(pool) \cup ToSet(fresh) \cup expired
      /\ IsInjective(pool')
  BY Appended DEF TypeOK, Places, Apart
<1>2. ASSUME NEW w \in Workers, pc'[w] \in AtWork PROVE held'[w] # c
  <2>1. pc[w] \in AtWork /\ held'[w] = held[w]
    BY <1>2 DEF HandsStill
  <2>2. held[w] \in Ids /\ held[w] <= used
    BY <2>1 DEF TypeOK, Places, AtWork, Holding
  <2>. QED BY <2>1, <2>2, SandboxPoolAssumption DEF Ids, Places
<1>. QED BY <1>1, <1>2 DEF Apart, HandsStill

\* An eager start that warms the pool: n containers are in the list and in the
\* queue, and k more come too late.
LEMMA WarmStart ==
  ASSUME TypeOK, Places, Start
  PROVE  \/ UNCHANGED <<server, pool, handles>>
         \/ \E n \in 0 .. PoolSize : \E k \in 0 .. PoolSize :
              /\ used + n <= MaxSandboxes /\ used' <= MaxSandboxes
              /\ used' = used + n + k /\ used' >= used
              /\ alive' = alive \cup (used + 1 .. used + n) \cup (used + n + 1 .. used')
              /\ late' = late \cup (used + n + 1 .. used')
              /\ handles' = handles \cup (used + 1 .. used + n)
              /\ pool' = pool \o [i \in 1 .. n |-> used + i]
<1>1. CASE UNCHANGED <<server, pool, handles>>
  BY <1>1
<1>2. CASE ~UNCHANGED <<server, pool, handles>>
  <2>1. PICK n \in 0 .. PoolSize, k \in 0 .. PoolSize :
          /\ used + n + k <= MaxSandboxes /\ used' = used + n + k
          /\ alive' = alive \cup (used + 1 .. used + n + k)
          /\ late' = late \cup (used + n + 1 .. used + n + k)
          /\ handles' = handles \cup (used + 1 .. used + n)
          /\ pool' = pool \o [i \in 1 .. n |-> used + i]
    BY <1>2 DEF Start
  <2>2. used \in Nat /\ n \in Nat /\ k \in Nat /\ MaxSandboxes \in Nat
    BY SandboxPoolAssumption DEF Places
  <2>3. used + 1 .. used + n + k = (used + 1 .. used + n) \cup (used + n + 1 .. used + n + k)
    BY <2>2
  <2>4. used + n <= MaxSandboxes /\ used' <= MaxSandboxes /\ used' >= used
    BY <2>1, <2>2
  <2>. QED BY <2>1, <2>3, <2>4
<1>. QED BY <1>1, <1>2

\* Every step keeps the containers apart.
LEMMA ApartStep == IInv /\ [Next]_vars => Apart'
<1>. SUFFICES ASSUME IInv, [Next]_vars PROVE Apart'
  OBVIOUS
<1>t. TypeOK /\ Places /\ Apart
  BY DEF IInv
<1>f. /\ pool \in Seq(Ids) /\ fresh \in Seq(Ids)
      /\ held \in [Workers -> Ids \cup {None}]
      /\ pc \in [Workers -> Spots]
  BY <1>t DEF TypeOK, Places
<1>1. CASE Quiet
  BY <1>1, <1>t, QuietKeepsApart
<1>2. CASE HandsStill /\ UNCHANGED <<pool, fresh, expired>>
  BY <1>1, <1>2 DEF Quiet, HandsStill
<1>3. ASSUME NEW w \in Workers, Flag(w) \/ Warmed(w) \/ WarmDone(w) \/ GetEmpty(w)
                                \/ Replace(w) \/ Call(w)
      PROVE  HandsStill /\ UNCHANGED <<pool, fresh, expired>>
  BY <1>f, <1>3 DEF HandsStill, Flag, Warmed, WarmDone, GetEmpty, Replace, Call,
     WorkerFrame, Go, Hold, maintenance, AtWork, Holding
<1>4. ASSUME NEW w \in Workers, Track(w) \/ Run(w) \/ Release(w) \/ KillReleased(w)
      PROVE  HandsStill /\ UNCHANGED <<pool, fresh, expired>>
  BY <1>f, <1>4 DEF HandsStill, Track, Run, Release, KillReleased,
     WorkerFrame, Go, Hold, maintenance, AtWork, Holding
<1>5. ASSUME NEW w \in Workers, Warm(w) PROVE Apart'
  <2>1. PICK c \in Ids \cup {None} :
          /\ Created(c) /\ pool' = IF c = None THEN pool ELSE Append(pool, c)
          /\ pc' = [pc EXCEPT ![w] = IF c = None THEN "warm" ELSE "warmed"]
          /\ held' = [held EXCEPT ![w] = c]
    BY <1>5 DEF Warm, Go, Hold
  <2>2. UNCHANGED <<fresh, expired>> /\ HandsStill
    BY <1>f, <1>5, <2>1 DEF HandsStill, Warm, WorkerFrame, maintenance, AtWork, Holding
  <2>3. CASE c = None
    BY <1>2, <2>1, <2>2, <2>3
  <2>4. CASE c # None
    BY <1>t, <2>1, <2>2, <2>4, CreatedIsNew, NewKeepsApart
  <2>. QED BY <2>3, <2>4
<1>6. ASSUME NEW w \in Workers, Get(w) PROVE Apart'
  <2>1. /\ pool # << >> /\ pool' = Tail(pool) /\ UNCHANGED <<fresh, expired>>
        /\ held' = [held EXCEPT ![w] = Head(pool)]
        /\ \A v \in Workers : v # w => pc'[v] = pc[v]
    BY <1>f, <1>6 DEF Get, WorkerFrame, maintenance, Go, Hold
  <2>2. /\ ToSet(pool) = ToSet(pool') \cup {Head(pool)}
        /\ IsInjective(pool') /\ Head(pool) \notin ToSet(pool')
    BY <1>t, <1>f, <2>1, Taken DEF Apart
  <2>3. /\ held'[w] = Head(pool)
        /\ \A v \in Workers : v # w => held'[v] = held[v]
    BY <1>f, <2>1
  <2>4. \A v \in Workers : pc[v] \in AtWork => held[v] # Head(pool)
    BY <1>t, <2>2 DEF Apart
  <2>5. Head(pool) \notin ToSet(fresh) \cup expired
    BY <1>t, <2>2 DEF Apart
  <2>. QED BY <1>t, <2>1, <2>2, <2>3, <2>4, <2>5 DEF Apart
<1>7. ASSUME NEW w \in Workers, Put(w) PROVE Apart'
  <2>1. /\ pc[w] = "put" /\ pool' = Append(pool, held[w]) /\ UNCHANGED <<fresh, expired>>
        /\ pc' = [pc EXCEPT ![w] = "idle"]
        /\ held' = [held EXCEPT ![w] = None]
    BY <1>7 DEF Put, WorkerFrame, maintenance, Go, Hold
  <2>2. /\ pc[w] \in AtWork /\ held[w] \in Ids
        /\ pc'[w] \notin AtWork
        /\ \A v \in Workers : v # w => held'[v] = held[v] /\ pc'[v] = pc[v]
    BY <1>t, <1>f, <2>1 DEF Places, AtWork, Holding
  <2>3. /\ ToSet(pool') = ToSet(pool) \cup {held[w]}
        /\ held[w] \notin ToSet(pool) \cup ToSet(fresh) \cup expired
        /\ IsInjective(pool')
    BY <1>t, <1>f, <2>1, <2>2, Appended DEF Apart
  <2>4. \A v \in Workers : v # w /\ pc[v] \in AtWork => held[v] # held[w]
    BY <1>t, <2>2 DEF Apart
  <2>. QED BY <1>t, <2>1, <2>2, <2>3, <2>4 DEF Apart
<1>8. ASSUME NEW w \in Workers, Create(w) PROVE Apart'
  <2>1. PICK c \in Ids \cup {None} :
          /\ Created(c) /\ UNCHANGED <<pool, fresh, expired>>
          /\ pc' = [pc EXCEPT ![w] = IF c = None THEN "idle" ELSE "track"]
          /\ held' = [held EXCEPT ![w] = c]
    BY <1>8 DEF Create, Go, Hold, WorkerFrame, maintenance
  <2>2. CASE c = None
    BY <1>f, <1>2, <2>1, <2>2 DEF HandsStill, AtWork, Holding
  <2>3. CASE c # None
    <3>1. c \notin 1 .. used /\ c \in Ids
      BY <1>t, <2>1, <2>3, CreatedIsNew
    <3>2. \A v \in Workers : held[v] # c
      <4>. SUFFICES ASSUME NEW v \in Workers, held[v] = c PROVE FALSE
        OBVIOUS
      <4>. QED BY <1>t, <3>1, SandboxPoolAssumption DEF Places, Ids
    <3>3. c \notin ToSet(pool) \cup ToSet(fresh) \cup expired
      BY <1>t, <3>1 DEF Places
    <3>4. /\ held'[w] = c
          /\ \A v \in Workers : v # w => held'[v] = held[v] /\ pc'[v] = pc[v]
      BY <1>f, <2>1
    <3>. QED BY <1>t, <2>1, <3>2, <3>3, <3>4 DEF Apart
  <2>. QED BY <2>2, <2>3
<1>9. CASE Maintain /\ ~Drain /\ ~GiveBack
  <2>1. HandsStill
    BY <1>9 DEF HandsStill, Maintain, Wake, Drained, Recycle, Count, Replenish, Listed,
       Replenished, MaintenanceFrame, worker
  <2>2. CASE Wake \/ Drained \/ Count \/ Listed \/ Replenished
    BY <1>2, <2>1, <2>2 DEF Wake, Drained, Count, Listed, Replenished
  <2>3. CASE Recycle
    BY <1>1, <2>1, <2>3 DEF Recycle, Quiet, HandsStill
  <2>4. CASE Replenish
    <3>1. PICK c \in Ids \cup {None} :
            /\ Created(c) /\ pool' = IF c = None THEN pool ELSE Append(pool, c)
            /\ UNCHANGED <<fresh, expired>>
      BY <2>4 DEF Replenish
    <3>2. CASE c = None
      BY <1>2, <2>1, <3>1, <3>2
    <3>3. CASE c # None
      BY <1>t, <2>1, <3>1, <3>3, CreatedIsNew, NewKeepsApart
    <3>. QED BY <3>2, <3>3
  <2>. QED BY <1>9, <2>2, <2>3, <2>4 DEF Maintain
<1>10. CASE Drain
  <2>1. /\ pool # << >> /\ pool' = Tail(pool) /\ UNCHANGED <<pc, held>>
        /\ \/ expired' = expired \cup {Head(pool)} /\ fresh' = fresh
           \/ fresh' = Append(fresh, Head(pool)) /\ expired' = expired
    BY <1>10 DEF Drain, MaintenanceFrame, worker
  <2>2. /\ ToSet(pool) = ToSet(pool') \cup {Head(pool)} /\ Head(pool) \in Ids
        /\ IsInjective(pool') /\ Head(pool) \notin ToSet(pool')
    BY <1>t, <1>f, <2>1, Taken DEF Apart
  <2>3. Head(pool) \notin ToSet(fresh) \cup expired
    BY <1>t, <2>2 DEF Apart
  <2>4. /\ ToSet(Append(fresh, Head(pool))) = ToSet(fresh) \cup {Head(pool)}
        /\ IsInjective(Append(fresh, Head(pool)))
    BY <1>t, <1>f, <2>2, <2>3, Appended DEF Apart
  <2>5. \A w \in Workers : pc[w] \in AtWork => held[w] # Head(pool)
    BY <1>t, <2>2 DEF Apart
  <2>6. CASE expired' = expired \cup {Head(pool)} /\ fresh' = fresh
    BY <1>t, <2>1, <2>2, <2>3, <2>5, <2>6 DEF Apart
  <2>7. CASE fresh' = Append(fresh, Head(pool)) /\ expired' = expired
    BY <1>t, <2>1, <2>2, <2>3, <2>4, <2>5, <2>7 DEF Apart
  <2>. QED BY <2>1, <2>6, <2>7
<1>11. CASE GiveBack
  <2>1. pool' = pool \o fresh /\ fresh' = << >> /\ UNCHANGED <<pc, held, expired>>
    BY <1>11 DEF GiveBack, MaintenanceFrame, worker
  <2>2. ToSet(pool') = ToSet(pool) \cup ToSet(fresh) /\ IsInjective(pool')
    BY <1>t, <1>f, <2>1, Joined DEF Apart
  <2>3. ToSet(fresh') = {} /\ IsInjective(fresh')
    BY <2>1, EmptyQueue
  <2>. QED BY <1>t, <2>1, <2>2, <2>3 DEF Apart
<1>12. CASE Start
  <2>1. UNCHANGED <<pc, held, fresh, expired>>
    BY <1>12 DEF Start, worker
  <2>2. CASE pool' = pool
    BY <1>2, <2>1, <2>2 DEF HandsStill
  <2>3. CASE \E n \in 0 .. PoolSize : /\ used + n <= MaxSandboxes
                                      /\ pool' = pool \o [i \in 1 .. n |-> used + i]
    <3>1. PICK n \in 0 .. PoolSize : /\ used + n <= MaxSandboxes
                                     /\ pool' = pool \o [i \in 1 .. n |-> used + i]
      BY <2>3
    <3>. DEFINE w == [i \in 1 .. n |-> used + i]
    <3>2. used \in Nat /\ n \in Nat
      BY <1>t, SandboxPoolAssumption DEF Places
    <3>3. w \in Seq(Ids) /\ ToSet(w) = used + 1 .. used + n /\ IsInjective(w)
      BY <3>1, <3>2, Warmth
    <3>. HIDE DEF w
    <3>4. ToSet(w) \cap 1 .. used = {}
      BY <3>2, <3>3
    <3>5. ToSet(w) \cap (ToSet(pool) \cup ToSet(fresh) \cup expired) = {}
      BY <1>t, <3>4 DEF Places
    <3>6. ToSet(pool') = ToSet(pool) \cup ToSet(w) /\ IsInjective(pool')
      BY <1>t, <1>f, <3>1, <3>3, <3>5, Joined DEF Apart, w
    <3>7. ASSUME NEW v \in Workers, pc[v] \in AtWork PROVE held[v] \notin ToSet(w)
      <4>1. held[v] \in Nat /\ held[v] <= used
        BY <1>t, <1>f, <3>7, SandboxPoolAssumption DEF Places, Ids, None
      <4>. QED BY <3>2, <3>3, <4>1
    <3>. QED BY <1>t, <2>1, <3>5, <3>6, <3>7 DEF Apart
  <2>. QED BY <1>12, <1>t, <2>2, <2>3, WarmStart
<1>13. CASE Stop \/ Snapshot \/ KillAll
  BY <1>2, <1>13 DEF Stop, Snapshot, KillAll, OwnerFrame, worker, maintenance, HandsStill
<1>14. CASE Stopped
  <2>1. pool' = << >> /\ UNCHANGED <<fresh, expired, pc, held>>
    BY <1>14 DEF Stopped, OwnerFrame, worker, maintenance
  <2>2. ToSet(pool') = {} /\ IsInjective(pool')
    BY <2>1, EmptyQueue
  <2>. QED BY <1>t, <2>1, <2>2 DEF Apart
<1>15. ASSUME NEW c \in Ids, Lapse(c) PROVE HandsStill /\ UNCHANGED <<pool, fresh, expired>>
  BY <1>15 DEF Lapse, HandsStill, worker, maintenance
<1>16. CASE UNCHANGED vars
  BY <1>2, <1>16 DEF vars, HandsStill, worker, maintenance
<1>. QED
  BY <1>2, <1>3, <1>4, <1>5, <1>6, <1>7, <1>8, <1>9, <1>10, <1>11, <1>12, <1>13, <1>14,
     <1>15, <1>16 DEF Next, Step, Maintain, Owner

\* Containers are created in order, and the server runs no others.
LEMMA Grows ==
  ASSUME IInv, [Next]_vars
  PROVE  /\ used' \in 0 .. MaxSandboxes /\ used' >= used
         /\ alive' \subseteq alive \cup (used + 1 .. used')
         /\ late \subseteq late' /\ late' \subseteq late \cup (used + 1 .. used')
         /\ old' \subseteq 1 .. used'
<1>t. TypeOK /\ Places
  BY DEF IInv
<1>f. used \in Nat /\ used <= MaxSandboxes /\ MaxSandboxes \in Nat /\ PoolSize \in Nat
  BY <1>t, SandboxPoolAssumption DEF Places
<1>1. CASE UNCHANGED <<used, late>> /\ alive' \subseteq alive /\ old' \subseteq 1 .. used
  BY <1>f, <1>1
<1>2. ASSUME NEW c \in Ids \cup {None}, Created(c), old' = old
      PROVE  /\ used' \in 0 .. MaxSandboxes /\ used' >= used
             /\ alive' \subseteq alive \cup (used + 1 .. used')
             /\ late \subseteq late' /\ late' \subseteq late \cup (used + 1 .. used')
             /\ old' \subseteq 1 .. used'
  <2>1. CASE UNCHANGED <<used, alive, late>>
    BY <1>1, <1>2, <1>t, <2>1 DEF TypeOK
  <2>2. CASE /\ used + 1 \in Ids /\ used' = used + 1 /\ alive' = alive \cup {used + 1}
             /\ late' \in {late, late \cup {used + 1}}
    <3>1. old \subseteq 1 .. used
      BY <1>t DEF TypeOK
    <3>. QED BY <1>f, <1>2, <2>2, <3>1 DEF Ids
  <2>. QED BY <1>t, <1>2, <2>1, <2>2, CreatedIsNew
<1>3. ASSUME NEW w \in Workers, Call(w) \/ Flag(w) \/ Warmed(w) \/ WarmDone(w)
                  \/ GetEmpty(w) \/ Get(w) \/ Track(w) \/ Run(w) \/ Release(w) \/ Put(w)
      PROVE  UNCHANGED <<server, old>>
  BY <1>3 DEF Call, Flag, Warmed, WarmDone, GetEmpty, Get, Track, Run, Release, Put,
     WorkerFrame
<1>4. ASSUME NEW w \in Workers, Replace(w) \/ KillReleased(w)
      PROVE  UNCHANGED <<used, late, old>> /\ alive' \subseteq alive
  BY <1>4 DEF Replace, KillReleased, WorkerFrame, Kill
<1>5. ASSUME NEW w \in Workers, Warm(w) \/ Create(w)
      PROVE  old' = old /\ \E c \in Ids \cup {None} : Created(c)
  BY <1>5 DEF Warm, Create, WorkerFrame
<1>6. ASSUME Maintain
      PROVE  /\ old' = old
             /\ \/ \E c \in Ids \cup {None} : Created(c)
                \/ UNCHANGED <<used, late>> /\ alive' \subseteq alive
  BY <1>6 DEF Maintain, Wake, Drain, Drained, Recycle, GiveBack, Count, Replenish, Listed,
     Replenished, MaintenanceFrame, Kill, server
<1>7. CASE Start
  <2>1. old' = old
    BY <1>7 DEF Start
  <2>2. CASE UNCHANGED server
    BY <1>1, <1>t, <2>1, <2>2 DEF server, TypeOK
  <2>3. CASE \E n \in 0 .. PoolSize : \E k \in 0 .. PoolSize :
               /\ used' <= MaxSandboxes /\ used' = used + n + k /\ used' >= used
               /\ alive' = alive \cup (used + 1 .. used + n) \cup (used + n + 1 .. used')
               /\ late' = late \cup (used + n + 1 .. used')
    <3>1. old \subseteq 1 .. used
      BY <1>t DEF TypeOK
    <3>. QED BY <1>f, <2>1, <2>3, <3>1
  <2>. QED BY <1>7, <1>t, <2>2, <2>3, WarmStart
<1>8. ASSUME Stop \/ Snapshot \/ KillAll \/ Stopped
      PROVE  UNCHANGED <<used, late, old>> /\ alive' \subseteq alive
  BY <1>8 DEF Stop, Snapshot, KillAll, Stopped, OwnerFrame, server, Kill
<1>9. ASSUME NEW c \in Ids, Lapse(c)
      PROVE  UNCHANGED <<used, late>> /\ alive' \subseteq alive /\ old' \subseteq 1 .. used
  BY <1>t, <1>9 DEF Lapse, TypeOK
<1>10. old \subseteq 1 .. used
  BY <1>t DEF TypeOK
<1>11. CASE UNCHANGED vars
  BY <1>1, <1>10, <1>11 DEF vars, server
<1>. QED
  BY <1>1, <1>2, <1>3, <1>4, <1>5, <1>6, <1>7, <1>8, <1>9, <1>10, <1>11
     DEF Next, Step, Owner, server

\* Queues and lists name containers that were created.
LEMMA StoredStep ==
  ASSUME IInv, [Next]_vars
  PROVE  /\ pool' \in Seq(Ids) /\ fresh' \in Seq(Ids)
         /\ ToSet(pool') \cup ToSet(fresh') \cup expired' \subseteq 1 .. used'
<1>t. TypeOK /\ Places
  BY DEF IInv
<1>f. /\ pool \in Seq(Ids) /\ fresh \in Seq(Ids)
      /\ ToSet(pool) \cup ToSet(fresh) \cup expired \subseteq 1 .. used
      /\ 1 .. used \subseteq 1 .. used'
  <2>1. used' >= used /\ used \in Int /\ used' \in Int
    BY <1>t, Grows, SandboxPoolAssumption DEF Places
  <2>. QED BY <1>t, <2>1 DEF TypeOK, Places
<1>1. CASE UNCHANGED <<pool, fresh>> /\ expired' \subseteq expired
  BY <1>1, <1>f
<1>2. ASSUME NEW c \in Ids \cup {None}, Created(c), UNCHANGED <<fresh, expired>>,
             pool' = IF c = None THEN pool ELSE Append(pool, c)
      PROVE  /\ pool' \in Seq(Ids) /\ fresh' \in Seq(Ids)
             /\ ToSet(pool') \cup ToSet(fresh') \cup expired' \subseteq 1 .. used'
  <2>1. CASE c = None
    BY <1>1, <1>2, <2>1
  <2>2. CASE c # None
    <3>1. c \in 1 .. used' /\ c \in Ids
      BY <1>t, <1>2, <2>2, CreatedIsNew
    <3>. QED BY <1>f, <1>2, <2>2, <3>1, Appended
  <2>. QED BY <2>1, <2>2
<1>3. ASSUME NEW w \in Workers, \/ Call(w) \/ Flag(w) \/ Warmed(w) \/ WarmDone(w) \/ Create(w)
                                \/ GetEmpty(w) \/ Track(w) \/ Run(w) \/ Release(w)
                                \/ Replace(w) \/ KillReleased(w)
      PROVE  UNCHANGED <<pool, fresh, expired>>
  BY <1>3 DEF Call, Flag, Warmed, WarmDone, GetEmpty, Track, Run, Release, Create,
     Replace, KillReleased, WorkerFrame, maintenance
<1>4. ASSUME NEW w \in Workers, Warm(w)
      PROVE  \E c \in Ids \cup {None} :
               /\ Created(c) /\ UNCHANGED <<fresh, expired>>
               /\ pool' = IF c = None THEN pool ELSE Append(pool, c)
  BY <1>4 DEF Warm, WorkerFrame, maintenance
<1>5. ASSUME NEW w \in Workers, Get(w)
      PROVE  /\ pool' \in Seq(Ids) /\ fresh' \in Seq(Ids)
             /\ ToSet(pool') \cup ToSet(fresh') \cup expired' \subseteq 1 .. used'
  <2>1. pool # << >> /\ pool' = Tail(pool) /\ UNCHANGED <<fresh, expired>>
    BY <1>5 DEF Get, WorkerFrame, maintenance
  <2>. QED BY <1>f, <2>1, Taken
<1>6. ASSUME NEW w \in Workers, Put(w)
      PROVE  /\ pool' \in Seq(Ids) /\ fresh' \in Seq(Ids)
             /\ ToSet(pool') \cup ToSet(fresh') \cup expired' \subseteq 1 .. used'
  <2>1. pool' = Append(pool, held[w]) /\ pc[w] = "put" /\ UNCHANGED <<fresh, expired>>
    BY <1>6 DEF Put, WorkerFrame, maintenance
  <2>2. held[w] \in Ids /\ held[w] <= used /\ used \in Nat
    BY <1>t, <2>1, SandboxPoolAssumption DEF Places, TypeOK, Holding
  <2>3. held[w] \in 1 .. used
    BY <2>2, SandboxPoolAssumption DEF Ids
  <2>. QED BY <1>f, <2>1, <2>2, <2>3, Appended
<1>7. CASE Wake \/ Drained \/ Recycle \/ Count \/ Listed \/ Replenished
  BY <1>1, <1>7 DEF Wake, Drained, Recycle, Count, Listed, Replenished
<1>8. CASE Drain
  <2>1. /\ pool # << >> /\ pool' = Tail(pool)
        /\ \/ expired' = expired \cup {Head(pool)} /\ fresh' = fresh
           \/ fresh' = Append(fresh, Head(pool)) /\ expired' = expired
    BY <1>8 DEF Drain
  <2>2. /\ pool' \in Seq(Ids) /\ Head(pool) \in Ids
        /\ ToSet(pool) = ToSet(pool') \cup {Head(pool)}
    BY <1>f, <2>1, Taken
  <2>3. /\ Append(fresh, Head(pool)) \in Seq(Ids)
        /\ ToSet(Append(fresh, Head(pool))) = ToSet(fresh) \cup {Head(pool)}
    BY <1>f, <2>2, Appended
  <2>. QED BY <1>f, <2>1, <2>2, <2>3
<1>9. CASE GiveBack
  <2>1. pool' = pool \o fresh /\ fresh' = << >> /\ expired' = expired
    BY <1>9 DEF GiveBack
  <2>. QED BY <1>f, <2>1, Joined, EmptyQueue
<1>10. CASE Replenish
  <2>1. PICK c \in Ids \cup {None} :
          /\ Created(c) /\ UNCHANGED <<fresh, expired>>
          /\ pool' = IF c = None THEN pool ELSE Append(pool, c)
    BY <1>10 DEF Replenish
  <2>. QED BY <1>2, <2>1
<1>11. CASE Start
  <2>1. UNCHANGED <<fresh, expired>>
    BY <1>11 DEF Start
  <2>2. CASE pool' = pool
    BY <1>1, <2>1, <2>2
  <2>3. CASE \E n \in 0 .. PoolSize : /\ used + n <= MaxSandboxes
                                      /\ \E k \in 0 .. PoolSize : used' = used + n + k
                                      /\ pool' = pool \o [i \in 1 .. n |-> used + i]
    <3>1. PICK n \in 0 .. PoolSize : /\ used + n <= MaxSandboxes
                                     /\ \E k \in 0 .. PoolSize : used' = used + n + k
                                     /\ pool' = pool \o [i \in 1 .. n |-> used + i]
      BY <2>3
    <3>. DEFINE w == [i \in 1 .. n |-> used + i]
    <3>2. used \in Nat /\ n \in Nat
      BY <1>t, SandboxPoolAssumption DEF Places
    <3>3. w \in Seq(Ids) /\ ToSet(w) = used + 1 .. used + n
      BY <3>1, <3>2, Warmth
    <3>. HIDE DEF w
    <3>4. ToSet(w) \subseteq 1 .. used'
      BY <3>1, <3>2, <3>3
    <3>5. pool' \in Seq(Ids) /\ ToSet(pool') = ToSet(pool) \cup ToSet(w)
      BY <1>f, <3>1, <3>3, Joined DEF w
    <3>. QED BY <1>f, <2>1, <3>4, <3>5
  <2>. QED BY <1>11, <1>t, <2>2, <2>3, WarmStart
<1>12. CASE Stop \/ Snapshot \/ KillAll
  BY <1>1, <1>12 DEF Stop, Snapshot, KillAll, OwnerFrame, maintenance
<1>13. CASE Stopped
  BY <1>f, <1>13, EmptyQueue DEF Stopped, OwnerFrame, maintenance
<1>14. CASE UNCHANGED vars \/ \E c \in Ids : Lapse(c)
  BY <1>1, <1>14 DEF vars, Lapse, maintenance
<1>. QED
  BY <1>1, <1>2, <1>3, <1>4, <1>5, <1>6, <1>7, <1>8, <1>9, <1>10, <1>11, <1>12, <1>13,
     <1>14 DEF Next, Step, Maintain, Owner

\* A worker goes to a place, with a container in its hands or none.
Moves(w, p, c) ==
  /\ pc' = [pc EXCEPT ![w] = p] /\ held' = [held EXCEPT ![w] = c]
  /\ p \in Spots /\ c \in Ids \cup {None} /\ c <= used'
  /\ p \in Holding <=> c # None

HandsAgree ==
  /\ pc \in [Workers -> Spots] /\ held \in [Workers -> Ids \cup {None}]
  /\ \A w \in Workers : pc[w] \in Holding <=> held[w] # None
  /\ \A w \in Workers : held[w] <= used

LEMMA WorkerMoves ==
  ASSUME IInv, [Next]_vars, NEW w \in Workers, Call(w) \/ Step(w)
  PROVE  \E p \in Spots, c \in Ids \cup {None} : Moves(w, p, c)
<1>t. TypeOK /\ Places
  BY DEF IInv
<1>f. /\ held \in [Workers -> Ids \cup {None}] /\ held[w] \in Ids \cup {None}
      /\ pc \in [Workers -> Spots] /\ None \in Ids \cup {None}
      /\ pc[w] \in Holding <=> held[w] # None
      /\ held[w] <= used /\ used' >= used /\ used \in Nat /\ used' \in Nat
      /\ held[w] \in Nat
  BY <1>t, Grows, SandboxPoolAssumption DEF TypeOK, Places, Ids, None
<1>1. held[w] <= used' /\ None <= used' /\ held = [held EXCEPT ![w] = held[w]]
  BY <1>f DEF None
<1>2. CASE Call(w) \/ Flag(w) \/ WarmDone(w) \/ GetEmpty(w)
  <2>1. /\ UNCHANGED held /\ pc[w] \notin Holding
        /\ \E p \in {"get", "flag", "warm", "create"} : pc' = [pc EXCEPT ![w] = p]
    BY <1>2 DEF Call, Flag, WarmDone, GetEmpty, Go, Holding
  <2>2. PICK p \in {"get", "flag", "warm", "create"} : pc' = [pc EXCEPT ![w] = p]
    BY <2>1
  <2>3. Moves(w, p, held[w])
    BY <1>1, <1>f, <2>1, <2>2 DEF Moves, Spots, Holding
  <2>. QED BY <1>f, <2>3 DEF Moves
<1>3. CASE Run(w) \/ Release(w) \/ Track(w)
  <2>1. /\ UNCHANGED held /\ pc[w] \in Holding
        /\ \E p \in {"run", "release", "kill", "put"} : pc' = [pc EXCEPT ![w] = p]
    BY <1>3 DEF Run, Release, Track, Go, Holding
  <2>2. PICK p \in {"run", "release", "kill", "put"} : pc' = [pc EXCEPT ![w] = p]
    BY <2>1
  <2>3. Moves(w, p, held[w])
    BY <1>1, <1>f, <2>1, <2>2 DEF Moves, Spots, Holding
  <2>. QED BY <1>f, <2>3 DEF Moves
<1>4. CASE Warmed(w) \/ Replace(w) \/ Put(w) \/ KillReleased(w)
  <2>1. /\ held' = [held EXCEPT ![w] = None]
        /\ \E p \in {"warm", "create", "idle"} : pc' = [pc EXCEPT ![w] = p]
    BY <1>4 DEF Warmed, Replace, Put, KillReleased, Go, Hold
  <2>2. PICK p \in {"warm", "create", "idle"} : pc' = [pc EXCEPT ![w] = p]
    BY <2>1
  <2>3. Moves(w, p, None)
    BY <1>1, <1>f, <2>1, <2>2 DEF Moves, Spots, Holding
  <2>. QED BY <1>f, <2>3 DEF Moves
<1>5. CASE Warm(w) \/ Create(w)
  <2>1. PICK c \in Ids \cup {None} :
          /\ Created(c) /\ held' = [held EXCEPT ![w] = c]
          /\ pc' \in {[pc EXCEPT ![w] = IF c = None THEN "warm" ELSE "warmed"],
                      [pc EXCEPT ![w] = IF c = None THEN "idle" ELSE "track"]}
    BY <1>5 DEF Warm, Create, Go, Hold
  <2>2. c <= used'
    <3>1. c = None \/ c = used'
      BY <1>t, <2>1, CreatedIsNew
    <3>. QED BY <1>1, <1>f, <3>1
  <2>3. CASE c = None
    <3>1. Moves(w, "warm", c) \/ Moves(w, "idle", c)
      BY <2>1, <2>2, <2>3 DEF Moves, Spots, Holding
    <3>. QED BY <3>1 DEF Spots
  <2>4. CASE c # None
    <3>1. Moves(w, "warmed", c) \/ Moves(w, "track", c)
      BY <2>1, <2>2, <2>4 DEF Moves, Spots, Holding
    <3>. QED BY <3>1 DEF Spots, Holding
  <2>. QED BY <2>3, <2>4
<1>6. CASE Get(w)
  <2>1. /\ pool # << >> /\ held' = [held EXCEPT ![w] = Head(pool)]
        /\ \E p \in {"replace", "run"} : pc' = [pc EXCEPT ![w] = p]
    BY <1>6 DEF Get, Go, Hold
  <2>2. Head(pool) \in Ids /\ Head(pool) \in 1 .. used
    BY <1>t, <2>1, Taken DEF TypeOK, Places
  <2>3. Head(pool) <= used' /\ Head(pool) # None
    BY <1>f, <2>2 DEF None
  <2>4. PICK p \in {"replace", "run"} : pc' = [pc EXCEPT ![w] = p]
    BY <2>1
  <2>5. Moves(w, p, Head(pool))
    BY <2>1, <2>2, <2>3, <2>4 DEF Moves, Spots, Holding
  <2>. QED BY <2>2, <2>5 DEF Moves
<1>. QED BY <1>2, <1>3, <1>4, <1>5, <1>6 DEF Step

LEMMA HandsStep == IInv /\ [Next]_vars => HandsAgree'
<1>. SUFFICES ASSUME IInv, [Next]_vars PROVE HandsAgree'
  OBVIOUS
<1>t. TypeOK /\ Places
  BY DEF IInv
<1>f. HandsAgree /\ used \in Nat /\ used' \in Nat /\ used <= used'
      /\ \A w \in Workers : held[w] \in Nat
  BY <1>t, Grows, SandboxPoolAssumption DEF HandsAgree, TypeOK, Places, Ids, None
<1>1. \A w \in Workers : held[w] <= used'
  BY <1>f DEF HandsAgree
<1>2. CASE UNCHANGED <<pc, held>>
  BY <1>1, <1>2, <1>f DEF HandsAgree
<1>3. ASSUME NEW w \in Workers, Call(w) \/ Step(w) PROVE HandsAgree'
  <2>1. PICK p \in Spots, c \in Ids \cup {None} : Moves(w, p, c)
    BY <1>3, WorkerMoves
  <2>. QED BY <1>1, <1>f, <2>1 DEF HandsAgree, Moves
<1>. QED
  BY <1>2, <1>3 DEF Next, Lapse, Maintain, Wake, Drain, Drained, Recycle, GiveBack, Count,
     Replenish, Listed, Replenished, MaintenanceFrame, Owner, Start, Stop, Snapshot,
     KillAll, Stopped, OwnerFrame, worker, vars


\* Every step keeps the types.
LEMMA TypeStep == IInv /\ [Next]_vars => TypeOK'
<1>. SUFFICES ASSUME IInv, [Next]_vars PROVE TypeOK'
  OBVIOUS
<1>t. TypeOK /\ Places
  BY DEF IInv
<1>f. /\ handles \subseteq Ids /\ expired \subseteq Ids /\ doomed \subseteq Ids
      /\ mine \in Ids \cup {None} /\ ToSet(pool) \subseteq Ids
      /\ \A w \in Workers : held[w] \in Ids \cup {None}
      /\ \A w \in Workers : pc[w] \in Holding => held[w] \in Ids
  BY <1>t DEF TypeOK, Places, ToSet
<1>1. alive' \subseteq 1 .. used' /\ old' \subseteq 1 .. used' /\ late' \subseteq 1 .. used'
  <2>1. alive \subseteq 1 .. used /\ late \subseteq 1 .. used /\ used \in Nat /\ used' \in Nat /\ used' >= used
    BY <1>t, Grows, SandboxPoolAssumption DEF TypeOK, Places
  <2>2. used + 1 .. used' \subseteq 1 .. used' /\ 1 .. used \subseteq 1 .. used'
    BY <2>1
  <2>. QED BY <2>1, <2>2, Grows
<1>2. {lazy, started, stopping, warmed}' \subseteq BOOLEAN
  <2>1. lazy' = lazy /\ started' \in {started, TRUE, FALSE}
        /\ stopping' \in {stopping, TRUE} /\ warmed' \in {warmed, TRUE}
    BY DEF Next, Lapse, Call, Step, Flag, Warm, Warmed, WarmDone, Get, GetEmpty, Replace,
       Create, Track, Run, Release, Put, KillReleased, WorkerFrame, Maintain, Wake, Drain,
       Drained, Recycle, GiveBack, Count, Replenish, Listed, Replenished,
       MaintenanceFrame, Owner, Start, Stop, Snapshot, KillAll, Stopped, OwnerFrame,
       lifecycle, vars
  <2>. QED BY <1>t, <2>1 DEF TypeOK
<1>3. warming' \in [Workers -> 0 .. PoolSize]
  <2>1. CASE UNCHANGED warming
    BY <1>t, <2>1 DEF TypeOK
  <2>2. ASSUME NEW w \in Workers, Flag(w) PROVE warming' \in [Workers -> 0 .. PoolSize]
    BY <1>t, <2>2, SandboxPoolAssumption DEF TypeOK, Flag
  <2>3. ASSUME NEW w \in Workers, Warm(w) PROVE warming' \in [Workers -> 0 .. PoolSize]
    <3>1. /\ warming[w] \in 0 .. PoolSize /\ warming[w] > 0 /\ PoolSize \in Nat
          /\ warming' = [warming EXCEPT ![w] = warming[w] - 1]
      BY <1>t, <2>3, SandboxPoolAssumption DEF TypeOK, Warm
    <3>2. warming[w] - 1 \in 0 .. PoolSize
      BY <3>1
    <3>. QED BY <1>t, <3>1, <3>2 DEF TypeOK
  <2>. QED
    BY <2>1, <2>2, <2>3 DEF Next, Lapse, Call, Step, Warmed, WarmDone, Get, GetEmpty,
       Replace, Create, Track, Run, Release, Put, KillReleased, Maintain, Wake, Drain,
       Drained, Recycle, GiveBack, Count, Replenish, Listed, Replenished,
       MaintenanceFrame, Owner, Start, Stop, Snapshot, KillAll, Stopped, OwnerFrame,
       worker, vars
<1>4. expired' \subseteq Ids
  <2>1. expired' \subseteq 1 .. used'
    BY StoredStep
  <2>. QED BY <2>1, Grows, SandboxPoolAssumption DEF Ids
<1>5. handles' \subseteq Ids /\ doomed' \subseteq Ids /\ mine' \in Ids \cup {None}
  <2>1. CASE UNCHANGED <<handles, doomed, mine>>
    BY <1>f, <2>1
  <2>2. ASSUME NEW w \in Workers, Warmed(w) \/ Track(w) \/ Replace(w)
        PROVE  handles' \subseteq Ids /\ UNCHANGED <<doomed, mine>>
    BY <1>f, <2>2 DEF Warmed, Track, Replace, WorkerFrame, maintenance, owner, Holding
  <2>3. ASSUME Maintain
        PROVE  handles' \subseteq Ids /\ doomed' = doomed /\ mine' \in Ids \cup {None}
    <3>1. CASE Listed
      <4>1. handles' = handles \cup {mine} /\ mpc = "list" /\ mine' = None /\ doomed' = doomed
        BY <3>1 DEF Listed, MaintenanceFrame, owner
      <4>. QED BY <1>f, <1>t, <4>1 DEF Places
    <3>2. CASE ~Listed
      BY <1>f, <2>3, <3>2 DEF Maintain, Wake, Drain, Drained, Recycle, GiveBack, Count,
         Replenish, Replenished, MaintenanceFrame, owner
    <3>. QED BY <3>1, <3>2
  <2>4. CASE Start
    <3>1. UNCHANGED <<doomed, mine>>
      BY <2>4 DEF Start
    <3>2. used + 1 .. used' \subseteq Ids
      BY <1>t, Grows, SandboxPoolAssumption DEF Ids, Places
    <3>3. \/ handles' = handles
          \/ \E n \in 0 .. PoolSize : /\ used + n <= used'
                                     /\ handles' = handles \cup (used + 1 .. used + n)
      <4>1. \A n, k \in 0 .. PoolSize : used' = used + n + k => used + n <= used'
        BY <1>t, SandboxPoolAssumption DEF Places
      <4>. QED BY <1>t, <2>4, <4>1, WarmStart
    <3>4. \A n \in 0 .. PoolSize :
            used + n <= used' => used + 1 .. used + n \subseteq used + 1 .. used'
      BY <1>t, Grows, SandboxPoolAssumption DEF Places
    <3>. QED BY <1>f, <3>1, <3>2, <3>3, <3>4
  <2>5. CASE Stop \/ Snapshot \/ KillAll \/ Stopped
    BY <1>f, <2>5 DEF Stop, Snapshot, KillAll, Stopped, OwnerFrame, maintenance
  <2>6. ASSUME NEW w \in Workers, Call(w) \/ Flag(w) \/ Warm(w) \/ WarmDone(w) \/ Get(w)
                    \/ GetEmpty(w) \/ Create(w) \/ Run(w) \/ Release(w) \/ Put(w)
                    \/ KillReleased(w)
        PROVE  UNCHANGED <<handles, doomed, mine>>
    BY <2>6 DEF Call, Flag, Warm, WarmDone, Get, GetEmpty, Create, Run, Release, Put,
       KillReleased, WorkerFrame, maintenance, owner
  <2>7. ASSUME NEW c \in Ids, Lapse(c) PROVE UNCHANGED <<handles, doomed, mine>>
    BY <2>7 DEF Lapse, maintenance, owner
  <2>8. CASE UNCHANGED vars
    BY <2>1, <2>8 DEF vars, maintenance, owner
  <2>9. CASE \E w \in Workers : Call(w) \/ Step(w)
    <3>1. PICK w \in Workers : Call(w) \/ Step(w)
      BY <2>9
    <3>2. CASE Warmed(w) \/ Track(w) \/ Replace(w)
      BY <1>f, <2>2, <3>2
    <3>3. CASE ~(Warmed(w) \/ Track(w) \/ Replace(w))
      BY <2>1, <2>6, <3>1, <3>3 DEF Step
    <3>. QED BY <3>2, <3>3
  <2>10. CASE Maintain
    BY <1>f, <2>3, <2>10
  <2>. QED
    BY <2>1, <2>4, <2>5, <2>7, <2>8, <2>9, <2>10 DEF Next, Owner
<1>. QED
  BY <1>1, <1>2, <1>3, <1>4, <1>5, HandsStep, StoredStep DEF TypeOK, HandsAgree

\* Every step keeps the places.
LEMMA PlacesStep == IInv /\ [Next]_vars => Places'
<1>. SUFFICES ASSUME IInv, [Next]_vars PROVE Places'
  OBVIOUS
<1>1. opc' \in {"join", "kill", "stopped"} => stopping'
  <2>t. opc \in {"join", "kill", "stopped"} => stopping
    BY DEF IInv, Places
  <2>1. CASE UNCHANGED <<opc, stopping>>
    BY <2>t, <2>1
  <2>2. CASE Start \/ Stop
    BY <2>2 DEF Start, Stop
  <2>3. CASE Snapshot \/ KillAll \/ Stopped
    BY <2>t, <2>3 DEF Snapshot, KillAll, Stopped, OwnerFrame
  <2>. QED
    BY <2>1, <2>2, <2>3 DEF Next, Lapse, Call, Step, Flag, Warm, Warmed, WarmDone, Get,
       GetEmpty, Replace, Create, Track, Run, Release, Put, KillReleased, WorkerFrame,
       Maintain, Wake, Drain, Drained, Recycle, GiveBack, Count, Replenish, Listed,
       Replenished, MaintenanceFrame, Owner, lifecycle, owner, vars
<1>2. mpc' = "list" => mine' # None
  <2>t. mpc = "list" => mine # None
    BY DEF IInv, Places
  <2>1. CASE UNCHANGED <<mpc, mine>>
    BY <2>t, <2>1
  <2>2. CASE Maintain
    BY <2>2 DEF Maintain, Wake, Drain, Drained, Recycle, GiveBack, Count, Replenish,
       Listed, Replenished
  <2>3. CASE Start
    BY <2>t, <2>3 DEF Start
  <2>. QED
    BY <2>1, <2>2, <2>3 DEF Next, Lapse, Call, Step, Flag, Warm, Warmed, WarmDone, Get,
       GetEmpty, Replace, Create, Track, Run, Release, Put, KillReleased, WorkerFrame,
       Owner, Stop, Snapshot, KillAll, Stopped, OwnerFrame, maintenance, vars
<1>. QED BY <1>1, <1>2, Grows, HandsStep, StoredStep DEF Places, HandsAgree

-----------------------------------------------------------------------------
(* Nothing is killed under its user, and nothing is forgotten              *)

\* What a step may kill: what a worker found too old or must give up, what the
\* maintenance took out of the queue, and during a stop everything.
LEMMA Kills ==
  ASSUME IInv, [Next]_vars, ~stopping', NEW c \in alive \cup old,
         c \notin alive' \cup old'
  PROVE  \/ c \in expired /\ UNCHANGED <<pc, held, pool, fresh>>
         \/ \E w \in Workers : /\ pc[w] \in {"replace", "kill"} /\ c = held[w]
                               /\ UNCHANGED <<pool, fresh>>
                               /\ pc'[w] \in {"create", "idle"}
                               /\ \A v \in Workers : v # w => UNCHANGED <<pc[v], held[v]>>
<1>t. TypeOK /\ Places
  BY DEF IInv
<1>1. ASSUME NEW w \in Workers, Replace(w) \/ KillReleased(w)
      PROVE  /\ pc[w] \in {"replace", "kill"} /\ c = held[w]
             /\ UNCHANGED <<pool, fresh>>
             /\ pc'[w] \in {"create", "idle"}
             /\ \A v \in Workers : v # w => UNCHANGED <<pc[v], held[v]>>
  BY <1>t, <1>1 DEF Replace, KillReleased, Kill, Go, Hold, WorkerFrame, maintenance,
     TypeOK, Places
<1>2. CASE Recycle
  BY <1>2 DEF Recycle, Kill, MaintenanceFrame, worker
<1>3. CASE KillAll
  BY <1>t, <1>3 DEF KillAll, OwnerFrame, Places
<1>4. ASSUME alive \cup old \subseteq alive' \cup old' PROVE FALSE
  BY <1>4
<1>5. ASSUME NEW w \in Workers, Call(w) \/ Flag(w) \/ Warm(w) \/ Warmed(w) \/ WarmDone(w)
                  \/ Get(w) \/ GetEmpty(w) \/ Create(w) \/ Track(w) \/ Run(w)
                  \/ Release(w) \/ Put(w)
      PROVE  alive \subseteq alive' /\ old' = old
  BY <1>5 DEF Call, Flag, Warm, Warmed, WarmDone, Get, GetEmpty, Create, Track, Run,
     Release, Put, WorkerFrame, Created, server
<1>6. ASSUME Maintain, ~Recycle PROVE alive \subseteq alive' /\ old' = old
  BY <1>6 DEF Maintain, Wake, Drain, Drained, GiveBack, Count, Replenish, Listed,
     Replenished, MaintenanceFrame, Created, server
<1>7. ASSUME Start \/ Stop \/ Snapshot \/ Stopped PROVE alive \subseteq alive' /\ old' = old
  BY <1>7 DEF Start, Stop, Snapshot, Stopped, OwnerFrame, server
<1>8. ASSUME NEW d \in Ids, Lapse(d) PROVE alive \cup old \subseteq alive' \cup old'
  BY <1>8 DEF Lapse
<1>9. CASE UNCHANGED vars
  BY <1>4, <1>9 DEF vars, server
<1>. QED
  BY <1>1, <1>2, <1>3, <1>4, <1>5, <1>6, <1>7, <1>8, <1>9 DEF Next, Step, Owner

\* A pool that has been stopped stays so.
LEMMA StopIsForEver == ASSUME [Next]_vars, ~stopping' PROVE ~stopping
BY DEF Next, Lapse, Call, Step, Flag, Warm, Warmed, WarmDone, Get, GetEmpty, Replace,
   Create, Track, Run, Release, Put, KillReleased, WorkerFrame, Maintain, Wake, Drain,
   Drained, Recycle, GiveBack, Count, Replenish, Listed, Replenished,
   MaintenanceFrame, Owner, Start, Stop, Snapshot, KillAll, Stopped, OwnerFrame,
   lifecycle, vars

\* Every step keeps what is in use, and what is kept for use, alive.
LEMMA AliveStep == IInv /\ [Next]_vars => KeptAlive'
<1>. DEFINE U == {"track", "run", "release", "put"}
            living == alive \cup old
            stored == ToSet(pool) \cup ToSet(fresh)
<1>. SUFFICES ASSUME IInv, [Next]_vars, ~stopping'
              PROVE  /\ stored' \subseteq living'
                     /\ \A w \in Workers : pc'[w] \in U => held'[w] \in living'
  BY DEF KeptAlive
<1>t. TypeOK /\ Places /\ Apart
  BY DEF IInv
<1>1. ~stopping
  BY StopIsForEver
<1>2. stored \subseteq living /\ \A w \in Workers : pc[w] \in U => held[w] \in living
  BY <1>1 DEF IInv, KeptAlive
<1>. HIDE DEF living
<1>3. ASSUME NEW c \in stored PROVE c \in living'
  <2>. SUFFICES ASSUME c \notin living' PROVE FALSE
    OBVIOUS
  <2>1. \/ c \in expired
        \/ \E w \in Workers : pc[w] \in {"replace", "kill"} /\ c = held[w]
    BY <1>2, <1>3, Kills DEF living
  <2>. QED BY <1>t, <1>3, <2>1 DEF Apart, AtWork, Holding
<1>4. ASSUME NEW w \in Workers, pc[w] \in U, pc'[w] \in U, held'[w] = held[w]
      PROVE  held'[w] \in living'
  <2>. SUFFICES ASSUME held[w] \notin living' PROVE FALSE
    BY <1>4
  <2>1. \/ held[w] \in expired
        \/ \E v \in Workers : /\ pc[v] \in {"replace", "kill"} /\ held[w] = held[v]
                              /\ pc'[v] \in {"create", "idle"}
    BY <1>2, <1>4, Kills DEF living
  <2>2. pc[w] \in AtWork
    BY <1>4 DEF AtWork, Holding
  <2>. QED BY <1>4, <1>t, <2>1, <2>2 DEF Apart, AtWork, Holding
<1>f. /\ pool \in Seq(Ids) /\ fresh \in Seq(Ids)
      /\ held \in [Workers -> Ids \cup {None}] /\ pc \in [Workers -> Spots]
  BY <1>t DEF TypeOK, Places
<1>5. \/ stored' \subseteq stored
      \/ \E c \in alive' : stored' \subseteq stored \cup {c}
      \/ stored' \subseteq stored \cup alive'
      \/ \E w \in Workers : /\ pc[w] = "put" /\ stored' \subseteq stored \cup {held[w]}
                            /\ UNCHANGED <<alive, old>>
  <2>1. CASE UNCHANGED <<pool, fresh>>
    BY <2>1
  <2>2. ASSUME NEW c \in Ids \cup {None}, Created(c), fresh' = fresh,
               pool' = IF c = None THEN pool ELSE Append(pool, c)
        PROVE  stored' \subseteq stored \/ \E d \in alive' : stored' \subseteq stored \cup {d}
    <3>1. CASE c = None
      BY <2>2, <3>1
    <3>2. CASE c # None
      <4>1. c \in alive' /\ c \in Ids
        BY <1>t, <2>2, <3>2, CreatedIsNew
      <4>2. stored' \subseteq stored \cup {c}
        BY <1>f, <2>2, <3>2, <4>1, Appended
      <4>. QED BY <4>1, <4>2
    <3>. QED BY <3>1, <3>2
  <2>3. ASSUME NEW w \in Workers, \/ Call(w) \/ Flag(w) \/ Warmed(w) \/ WarmDone(w)
                                  \/ Create(w) \/ GetEmpty(w) \/ Track(w) \/ Run(w)
                                  \/ Release(w) \/ Replace(w) \/ KillReleased(w)
        PROVE  UNCHANGED <<pool, fresh>>
    BY <2>3 DEF Call, Flag, Warmed, WarmDone, GetEmpty, Track, Run, Release, Create,
       Replace, KillReleased, WorkerFrame, maintenance
  <2>4. ASSUME NEW w \in Workers, Warm(w)
        PROVE  \E c \in Ids \cup {None} :
                 /\ Created(c) /\ fresh' = fresh
                 /\ pool' = IF c = None THEN pool ELSE Append(pool, c)
    BY <2>4 DEF Warm, WorkerFrame, maintenance
  <2>5. ASSUME NEW w \in Workers, Get(w) PROVE stored' \subseteq stored
    <3>1. pool # << >> /\ pool' = Tail(pool) /\ fresh' = fresh
      BY <2>5 DEF Get, WorkerFrame, maintenance
    <3>. QED BY <1>f, <3>1, Taken
  <2>6. ASSUME NEW w \in Workers, Put(w)
        PROVE  /\ pc[w] = "put" /\ stored' \subseteq stored \cup {held[w]}
               /\ UNCHANGED <<alive, old>>
    <3>1. /\ pool' = Append(pool, held[w]) /\ fresh' = fresh /\ pc[w] = "put"
          /\ UNCHANGED <<alive, old>>
      BY <2>6 DEF Put, WorkerFrame, maintenance, server
    <3>2. held[w] \in Ids
      BY <1>t, <1>f, <3>1 DEF Places, Holding
    <3>. QED BY <1>f, <3>1, <3>2, Appended
  <2>7. CASE Wake \/ Drained \/ Recycle \/ Count \/ Listed \/ Replenished
    BY <2>1, <2>7 DEF Wake, Drained, Recycle, Count, Listed, Replenished
  <2>8. CASE Drain
    <3>1. /\ pool # << >> /\ pool' = Tail(pool)
          /\ fresh' \in {fresh, Append(fresh, Head(pool))}
      BY <2>8 DEF Drain
    <3>2. Head(pool) \in Ids /\ ToSet(pool) = ToSet(pool') \cup {Head(pool)}
      BY <1>f, <3>1, Taken
    <3>3. ToSet(Append(fresh, Head(pool))) = ToSet(fresh) \cup {Head(pool)}
      BY <1>f, <3>2, Appended
    <3>4. stored' \subseteq stored
      BY <3>1, <3>2, <3>3
    <3>. QED BY <3>4
  <2>9. CASE GiveBack
    <3>1. pool' = pool \o fresh /\ fresh' = << >>
      BY <2>9 DEF GiveBack
    <3>2. stored' \subseteq stored
      BY <1>f, <3>1, Joined, EmptyQueue
    <3>. QED BY <3>2
  <2>10. CASE Replenish
    <3>1. PICK c \in Ids \cup {None} :
            /\ Created(c) /\ fresh' = fresh
            /\ pool' = IF c = None THEN pool ELSE Append(pool, c)
      BY <2>10 DEF Replenish
    <3>. QED BY <2>2, <3>1
  <2>11. CASE Start
    <3>1. CASE pool' = pool
      BY <2>1, <2>11, <3>1 DEF Start
    <3>2. CASE \E n \in 0 .. PoolSize : /\ used + n <= MaxSandboxes
                                        /\ used + 1 .. used + n \subseteq alive'
                                        /\ pool' = pool \o [i \in 1 .. n |-> used + i]
      <4>1. PICK n \in 0 .. PoolSize : /\ used + n <= MaxSandboxes
                                       /\ used + 1 .. used + n \subseteq alive'
                                       /\ pool' = pool \o [i \in 1 .. n |-> used + i]
        BY <3>2
      <4>. DEFINE new == [i \in 1 .. n |-> used + i]
      <4>2. used \in Nat /\ n \in Nat
        BY <1>t, SandboxPoolAssumption DEF Places
      <4>3. new \in Seq(Ids) /\ ToSet(new) = used + 1 .. used + n
        BY <4>1, <4>2, Warmth
      <4>. HIDE DEF new
      <4>4. ToSet(pool') = ToSet(pool) \cup ToSet(new)
        BY <1>f, <4>1, <4>3, Joined DEF new
      <4>5. stored' \subseteq stored \cup alive'
        BY <2>11, <4>1, <4>3, <4>4 DEF Start
      <4>. QED BY <4>5
    <3>3. \/ pool' = pool
          \/ \E n \in 0 .. PoolSize : /\ used + n <= MaxSandboxes
                                     /\ used + 1 .. used + n \subseteq alive'
                                     /\ pool' = pool \o [i \in 1 .. n |-> used + i]
      BY <1>t, <2>11, WarmStart
    <3>. QED BY <3>1, <3>2, <3>3
  <2>12. CASE Stop \/ Snapshot \/ KillAll
    BY <2>1, <2>12 DEF Stop, Snapshot, KillAll, OwnerFrame, maintenance
  <2>13. CASE Stopped
    <3>1. pool' = << >> /\ fresh' = fresh
      BY <2>13 DEF Stopped, OwnerFrame, maintenance
    <3>2. stored' \subseteq stored
      BY <3>1, EmptyQueue
    <3>. QED BY <3>2
  <2>14. CASE UNCHANGED vars \/ \E c \in Ids : Lapse(c)
    BY <2>1, <2>14 DEF vars, Lapse, maintenance
  <2>. HIDE DEF stored
  <2>. QED
    BY <2>1, <2>2, <2>3, <2>4, <2>5, <2>6, <2>7, <2>8, <2>9, <2>10, <2>11, <2>12, <2>13,
       <2>14 DEF Next, Step, Maintain, Owner
<1>6. ASSUME NEW w \in Workers, pc'[w] \in U
      PROVE  \/ pc[w] \in U /\ held'[w] = held[w]
             \/ held'[w] \in stored \cup alive'
  <2>1. ASSUME NEW v \in Workers, Warmed(v) \/ Replace(v) \/ Put(v) \/ KillReleased(v)
                    \/ Call(v) \/ Flag(v) \/ WarmDone(v) \/ GetEmpty(v) \/ Warm(v)
        PROVE  pc[w] = pc'[w] /\ held'[w] = held[w]
    BY <1>6, <1>f, <2>1 DEF Warmed, Replace, Put, KillReleased, Call, Flag, WarmDone,
       GetEmpty, Warm, Go, Hold
  <2>2. ASSUME NEW v \in Workers, Track(v) \/ Run(v) \/ Release(v)
        PROVE  pc[w] \in U /\ held'[w] = held[w]
    BY <1>6, <1>f, <2>2 DEF Track, Run, Release, Go
  <2>3. ASSUME NEW v \in Workers, Get(v)
        PROVE  \/ pc[w] \in U /\ held'[w] = held[w]
               \/ held'[w] \in stored
    <3>1. /\ pool # << >>
          /\ held' = [held EXCEPT ![v] = Head(pool)]
          /\ \A x \in Workers : x # v => pc'[x] = pc[x]
      BY <1>f, <2>3 DEF Get, Go, Hold
    <3>2. Head(pool) \in ToSet(pool)
      BY <1>f, <3>1, Taken
    <3>. QED BY <1>6, <1>f, <3>1, <3>2
  <2>4. ASSUME NEW v \in Workers, Create(v)
        PROVE  \/ pc[w] \in U /\ held'[w] = held[w]
               \/ held'[w] \in alive'
    <3>1. PICK c \in Ids \cup {None} :
            /\ Created(c) /\ held' = [held EXCEPT ![v] = c]
            /\ pc' = [pc EXCEPT ![v] = IF c = None THEN "idle" ELSE "track"]
      BY <2>4 DEF Create, Go, Hold
    <3>2. c # None => c \in alive'
      BY <1>t, <3>1, CreatedIsNew
    <3>. QED BY <1>6, <1>f, <3>1, <3>2
  <2>5. CASE UNCHANGED <<pc, held>>
    BY <1>6, <2>5
  <2>. QED
    BY <1>6, <2>1, <2>2, <2>3, <2>4, <2>5 DEF Next, Step, Lapse, Maintain, Wake, Drain,
       Drained, Recycle, GiveBack, Count, Replenish, Listed, Replenished,
       MaintenanceFrame, Owner, Start, Stop, Snapshot, KillAll, Stopped, OwnerFrame,
       worker, vars
<1>7. stored' \subseteq living'
  <2>. HIDE DEF stored
  <2>1. ASSUME NEW w \in Workers, pc[w] = "put", stored' \subseteq stored \cup {held[w]},
               UNCHANGED <<alive, old>>
        PROVE  stored' \subseteq living'
    BY <1>2, <1>3, <2>1 DEF living
  <2>2. alive' \subseteq living'
    BY DEF living
  <2>. QED BY <1>3, <1>5, <2>1, <2>2
<1>8. \A w \in Workers : pc'[w] \in U => held'[w] \in living'
  <2>. HIDE DEF stored
  <2>1. alive' \subseteq living'
    BY DEF living
  <2>. QED BY <1>3, <1>4, <1>6, <2>1
<1>. QED BY <1>7, <1>8

\* Every step keeps to the times to live.
LEMMA ExpiryStep == IInv /\ [Next]_vars => Expiry'
<1>. SUFFICES ASSUME IInv, [Next]_vars PROVE Expiry'
  OBVIOUS
<1>t. TypeOK /\ Places /\ Expiry
  BY DEF IInv
<1>f. pc \in [Workers -> Spots] /\ held \in [Workers -> Ids \cup {None}]
  BY <1>t DEF TypeOK, Places
<1>1. old \subseteq old' /\ alive' \cap old' = {}
  <2>1. CASE old' = old
    <3>1. (used + 1 .. used') \cap old = {}
      BY <1>t, Grows, SandboxPoolAssumption DEF TypeOK, Places
    <3>. QED BY <1>t, <2>1, <3>1, Grows DEF Expiry
  <2>2. ASSUME NEW c \in Ids, Lapse(c) PROVE old \subseteq old' /\ alive' \cap old' = {}
    BY <1>t, <2>2 DEF Lapse, Expiry
  <2>. QED
    BY <2>1, <2>2 DEF Next, Call, Step, Flag, Warm, Warmed, WarmDone, Get, GetEmpty,
       Replace, Create, Track, Run, Release, Put, KillReleased, WorkerFrame, Maintain,
       Wake, Drain, Drained, Recycle, GiveBack, Count, Replenish, Listed, Replenished,
       MaintenanceFrame, Owner, Start, Stop, Snapshot, KillAll, Stopped, OwnerFrame, vars
<1>2. expired' \subseteq expired \cup old
  BY DEF Next, Lapse, Call, Step, Flag, Warm, Warmed, WarmDone, Get, GetEmpty,
     Replace, Create, Track, Run, Release, Put, KillReleased, WorkerFrame, Maintain,
     Wake, Drain, Drained, Recycle, GiveBack, Count, Replenish, Listed, Replenished,
     MaintenanceFrame, Owner, Start, Stop, Snapshot, KillAll, Stopped, OwnerFrame, vars,
     maintenance
<1>3. ASSUME NEW v \in Workers, pc'[v] = "replace" PROVE held'[v] \in old
  <2>1. CASE pc'[v] = pc[v] /\ held'[v] = held[v]
    BY <1>t, <1>3, <2>1 DEF Expiry
  <2>2. CASE ~(pc'[v] = pc[v] /\ held'[v] = held[v])
    <3>1. PICK w \in Workers : Call(w) \/ Step(w)
      BY <2>2 DEF Next, Lapse, Maintain, Wake, Drain, Drained, Recycle, GiveBack, Count,
         Replenish, Listed, Replenished, MaintenanceFrame, Owner, Start, Stop, Snapshot,
         KillAll, Stopped, OwnerFrame, worker, vars
    <3>2. v = w
      <4>1. PICK p \in Spots, c \in Ids \cup {None} : Moves(w, p, c)
        BY <3>1, WorkerMoves
      <4>. QED BY <1>f, <2>2, <4>1 DEF Moves
    <3>3. Get(w)
      BY <1>f, <1>3, <3>1, <3>2 DEF Step, Call, Flag, Warm, Warmed, WarmDone, GetEmpty,
         Replace, Create, Track, Run, Release, Put, KillReleased, Go
    <3>. QED BY <1>f, <1>3, <3>2, <3>3 DEF Get, Go, Hold
  <2>. QED BY <2>1, <2>2
<1>. QED BY <1>t, <1>1, <1>2, <1>3 DEF Expiry

\* Every step keeps the containers remembered.
LEMMA RememberedStep == IInv /\ [Next]_vars => Remembered'
<1>. SUFFICES ASSUME IInv, [Next]_vars, ~stopping' PROVE alive' \subseteq Known'
  BY DEF Remembered
<1>t. /\ TypeOK /\ Places /\ Expiry /\ alive \subseteq Known /\ ~stopping
      /\ late \subseteq late'
  BY StopIsForEver, Grows DEF IInv, Remembered
<1>f. held \in [Workers -> Ids \cup {None}] /\ pc \in [Workers -> Spots]
  BY <1>t DEF TypeOK, Places
<1>1. CASE Known \subseteq Known' /\ alive' \subseteq alive
  BY <1>t, <1>1
<1>2. CASE \E w \in Workers : Call(w) \/ Flag(w) \/ WarmDone(w) \/ GetEmpty(w) \/ Get(w)
  <2>1. PICK w \in Workers : Call(w) \/ Flag(w) \/ WarmDone(w) \/ GetEmpty(w) \/ Get(w)
    BY <1>2
  <2>2. /\ w \notin Creating /\ UNCHANGED <<handles, alive, mpc, mine>>
        /\ \A v \in Creating : v # w => v \in Creating' /\ held'[v] = held[v]
    BY <1>f, <2>1 DEF Call, Flag, WarmDone, GetEmpty, Get, Go, Hold, WorkerFrame, server,
       maintenance, Creating
  <2>. QED BY <1>t, <1>1, <2>2 DEF Known
<1>3. CASE \E w \in Workers : Run(w) \/ Release(w) \/ Put(w) \/ KillReleased(w)
  <2>1. PICK w \in Workers : Run(w) \/ Release(w) \/ Put(w) \/ KillReleased(w)
    BY <1>3
  <2>2. /\ w \notin Creating /\ UNCHANGED <<handles, mpc, mine>> /\ alive' \subseteq alive
        /\ \A v \in Creating : v # w => v \in Creating' /\ held'[v] = held[v]
    BY <1>f, <2>1 DEF Run, Release, Put, KillReleased, Kill, Go, Hold, WorkerFrame, server,
       maintenance, Creating
  <2>. QED BY <1>t, <1>1, <2>2 DEF Known
<1>4. CASE \E w \in Workers : Warmed(w) \/ Track(w)
  <2>1. PICK w \in Workers : Warmed(w) \/ Track(w)
    BY <1>4
  <2>2. /\ handles' = handles \cup {held[w]} /\ UNCHANGED <<alive, mpc, mine>>
        /\ \A v \in Creating : v # w => v \in Creating' /\ held'[v] = held[v]
    BY <1>f, <2>1 DEF Warmed, Track, Go, Hold, WorkerFrame, server, maintenance, Creating
  <2>. QED BY <1>t, <1>1, <2>2 DEF Known
<1>5. CASE \E w \in Workers : Replace(w)
  <2>1. PICK w \in Workers : Replace(w)
    BY <1>5
  <2>2. /\ handles' = handles \ {held[w]} /\ alive' \subseteq alive /\ held[w] \notin alive
        /\ UNCHANGED <<mpc, mine>> /\ w \notin Creating
        /\ \A v \in Creating : v # w => v \in Creating' /\ held'[v] = held[v]
    BY <1>f, <1>t, <2>1 DEF Replace, Kill, Go, Hold, WorkerFrame, maintenance, Creating, Expiry
  <2>. QED BY <1>t, <2>2 DEF Known
<1>6. CASE \E w \in Workers : Warm(w) \/ Create(w)
  <2>1. PICK w \in Workers : Warm(w) \/ Create(w)
    BY <1>6
  <2>2. PICK c \in Ids \cup {None} :
          /\ Created(c) /\ held' = [held EXCEPT ![w] = c]
          /\ c # None => pc'[w] \in {"warmed", "track"}
    BY <1>f, <2>1 DEF Warm, Create, Go, Hold
  <2>3. /\ w \notin Creating /\ UNCHANGED <<handles, mpc, mine>>
        /\ \A v \in Creating : v # w => v \in Creating' /\ held'[v] = held[v]
    BY <1>f, <2>1, <2>2 DEF Warm, Create, Go, WorkerFrame, maintenance, Creating
  <2>4. Known \subseteq Known'
    BY <1>t, <2>3 DEF Known
  <2>5. CASE c = None
    <3>1. alive' \subseteq alive \cup late'
      BY <1>t, <2>2, <2>5, CreatedIsNew
    <3>. QED BY <1>t, <2>4, <3>1 DEF Known
  <2>6. CASE c # None
    <3>1. alive' = alive \cup {c} /\ held'[w] = c /\ w \in Creating'
      BY <1>t, <1>f, <2>2, <2>6, CreatedIsNew DEF Creating
    <3>2. c \in Known'
      BY <3>1 DEF Known
    <3>. QED BY <1>t, <2>4, <3>1, <3>2
  <2>. QED BY <2>5, <2>6
<1>7. CASE Wake \/ Drain \/ Drained \/ GiveBack \/ Count \/ Replenished
  <2>1. UNCHANGED <<handles, alive, pc, held>> /\ mpc # "list"
    BY <1>7 DEF Wake, Drain, Drained, GiveBack, Count, Replenished, MaintenanceFrame,
       worker, server
  <2>. QED BY <1>t, <1>1, <2>1 DEF Known, Creating
<1>8. CASE Recycle
  <2>1. PICK c \in expired : alive' \subseteq alive /\ c \notin alive /\ handles' = handles \ {c}
    BY <1>8, <1>t DEF Recycle, Kill, Expiry
  <2>2. UNCHANGED <<pc, held, mpc, mine>>
    BY <1>8 DEF Recycle, MaintenanceFrame, worker
  <2>. QED BY <1>t, <2>1, <2>2 DEF Known, Creating
<1>9. CASE Replenish
  <2>1. PICK c \in Ids \cup {None} :
          /\ Created(c) /\ mine' = c /\ mpc' = IF c = None THEN "wait" ELSE "list"
    BY <1>9 DEF Replenish
  <2>2. UNCHANGED <<pc, held, handles>> /\ mpc = "replenish"
    BY <1>9 DEF Replenish, MaintenanceFrame, worker
  <2>3. Known \subseteq Known' /\ (c # None => c \in Known')
    BY <1>t, <2>1, <2>2 DEF Known, Creating
  <2>4. alive' \subseteq alive \cup late' \cup (IF c = None THEN {} ELSE {c})
    BY <1>t, <2>1, CreatedIsNew
  <2>5. late' \subseteq Known'
    BY DEF Known
  <2>. QED BY <1>t, <2>3, <2>4, <2>5
<1>10. CASE Listed
  <2>1. handles' = handles \cup {mine} /\ UNCHANGED <<pc, held, alive>>
    BY <1>10 DEF Listed, MaintenanceFrame, worker, server
  <2>. QED BY <1>t, <1>1, <2>1 DEF Known, Creating
<1>11. CASE Start
  <2>1. UNCHANGED <<pc, held, mine>> /\ (mpc = "list" => mpc' = "list")
    BY <1>11 DEF Start, worker
  <2>2. \/ UNCHANGED <<handles, alive>>
        \/ \E S : handles' = handles \cup S /\ alive' \subseteq alive \cup S \cup late'
    BY <1>11, <1>t, WarmStart DEF server
  <2>. QED BY <1>t, <2>1, <2>2 DEF Known, Creating
<1>12. CASE Stop \/ Snapshot \/ KillAll \/ Stopped
  BY <1>t, <1>12 DEF Stop, Snapshot, KillAll, Stopped, OwnerFrame, Places
<1>13. ASSUME NEW c \in Ids, Lapse(c)
       PROVE  UNCHANGED <<handles, pc, held, mpc, mine>> /\ alive' \subseteq alive
  BY <1>13 DEF Lapse, worker, maintenance
<1>14. CASE UNCHANGED vars
  <2>1. UNCHANGED <<handles, pc, held, mpc, mine, alive>>
    BY <1>14 DEF vars, worker, maintenance, server
  <2>. QED BY <1>t, <1>1, <2>1 DEF Known, Creating
<1>15. CASE UNCHANGED <<handles, pc, held, mpc, mine>> /\ alive' \subseteq alive
  BY <1>t, <1>1, <1>15 DEF Known, Creating
<1>. QED
  BY <1>2, <1>3, <1>4, <1>5, <1>6, <1>7, <1>8, <1>9, <1>10, <1>11, <1>12, <1>13, <1>14,
     <1>15 DEF Next, Step, Maintain, Owner

-----------------------------------------------------------------------------

LEMMA InitIInv == Init => IInv
<1>. SUFFICES ASSUME Init PROVE IInv
  OBVIOUS
<1>1. /\ pool \in Seq(Ids) /\ ToSet(pool) = {} /\ IsInjective(pool)
      /\ fresh \in Seq(Ids) /\ ToSet(fresh) = {} /\ IsInjective(fresh)
  BY EmptyQueue DEF Init
<1>2. TypeOK
  <2>1. {lazy, started, stopping, warmed} \subseteq BOOLEAN
    BY DEF Init
  <2>2. /\ handles \subseteq Ids /\ alive \subseteq 1 .. used /\ old \subseteq 1 .. used
        /\ late \subseteq 1 .. used
    BY DEF Init
  <2>3. held \in [Workers -> Ids \cup {None}]
    BY DEF Init
  <2>4. 0 \in 0 .. PoolSize
    BY SandboxPoolAssumption
  <2>5. warming \in [Workers -> 0 .. PoolSize]
    BY <2>4 DEF Init
  <2>6. expired \subseteq Ids /\ doomed \subseteq Ids /\ mine \in Ids \cup {None}
    BY DEF Init
  <2>. QED BY <1>1, <2>1, <2>2, <2>3, <2>5, <2>6 DEF TypeOK
<1>3. Places
  BY <1>1, SandboxPoolAssumption DEF Init, Places, Spots, Holding, None
<1>4. Apart
  BY <1>1 DEF Init, Apart, AtWork, Holding
<1>5. KeptAlive /\ Expiry /\ Remembered
  BY <1>1 DEF Init, KeptAlive, Expiry, Remembered
<1>. QED BY <1>2, <1>3, <1>4, <1>5 DEF IInv

\* The inductive invariant holds in every behaviour.
THEOREM Invariance == Spec => []IInv
<1>1. IInv /\ [Next]_vars => IInv'
  BY TypeStep, PlacesStep, ApartStep, AliveStep, ExpiryStep, RememberedStep DEF IInv
<1>. QED BY InitIInv, <1>1, PTL DEF Spec

\* However workers, maintenance and stop interleave, no container is handed to
\* two tool calls, none is killed under its user before a stop, and none is
\* forgotten before one.
THEOREM Safety == Spec => []SandboxInv
<1>1. IInv => SandboxInv
  <2>. SUFFICES ASSUME IInv PROVE SandboxInv
    OBVIOUS
  <2>1. InOnePlace
    BY ApartIsOnePlace DEF IInv
  <2>2. UseIsUndisturbed
    BY DEF IInv, KeptAlive, UseIsUndisturbed
  <2>3. NothingIsForgotten
    BY DEF IInv, Remembered, Known, Creating, NothingIsForgotten
  <2>. QED BY <2>1, <2>2, <2>3 DEF IInv, SandboxInv
<1>. QED BY Invariance, <1>1, PTL

-----------------------------------------------------------------------------
\* SubTasks.

Stages == {"queued", "write", "loop", "continue", "search", "critic"} \cup Sub!Ended

\* The types of all variables.
TaskKinds ==
  /\ Sub!TypeOK /\ tools \in SUBSET Sub!Ids
  /\ at \in [Sub!Ids -> Stages] /\ noted \in [Sub!Ids -> BOOLEAN]
  /\ errored \in [Sub!Ids -> BOOLEAN]
  /\ status \in [Sub!Ids -> {"pending", "clarification_needed", "executed", "evaluated",
                         "completed", "failed"}]
  /\ searches \in Nat

Searching == {i \in Sub!Ids : at[i] = "search"}

\* Every lookup that was counted is under way or was made.
LookupsAreSearches == searches + Cardinality(Searching) = lookups

\* A result that is no failure is that of a thread that has ended with it, and the
\* node ends with every result of every thread.
ResultsAreFinal ==
  /\ \A i \in Sub!Ids :
       /\ at[i] = "done" => status[i] \in {"completed", "failed", "clarification_needed"}
       /\ results[i] \in {"completed", "clarification_needed"} =>
            at[i] = "done" /\ status[i] = results[i]
  /\ node = "merged" => \A i \in Sub!Ids : at[i] \in Sub!Ended /\ results[i] # "none"

\* A thread that goes on has a round and an attempt left.
WithinBounds ==
  \A i \in Sub!Ids :
    /\ at[i] \in {"continue", "search"} => round[i] < MaxRounds
    /\ at[i] \notin Sub!Ended => attempt[i] < MaxAttempts

TasksIInv == TaskKinds /\ WithinBounds /\ LookupsAreSearches /\ Sub!CallsAreAccountedFor /\ ResultsAreFinal

\* The finite sets and the cardinalities of SubTasks are those of the library.
LEMMA TaskSetsAreFinite ==
  \A S : (Sub!IsFiniteSet(S) <=> IsFiniteSet(S)) /\ Sub!Cardinality(S) = Cardinality(S)
BY DEF Sub!IsFiniteSet, IsFiniteSet, Sub!Cardinality, Cardinality

-----------------------------------------------------------------------------
\* Nothing was looked up and no result collected.
LEMMA TasksInitially == ASSUME Sub!SubTasksAssumption PROVE Sub!Init => TasksIInv
<1>. SUFFICES ASSUME Sub!Init PROVE TasksIInv
  OBVIOUS
<1>. USE DEF Sub!SubTasksAssumption, Sub!Init
<1>1. TaskKinds
  BY DEF TaskKinds, Sub!TypeOK, Stages, Sub!Outputs, Sub!Calls
<1>2. LookupsAreSearches
  <2>1. Searching = {}
    BY DEF Searching
  <2>. QED BY <2>1, FS_EmptySet DEF LookupsAreSearches
<1>3. Sub!CallsAreAccountedFor /\ ResultsAreFinal /\ WithinBounds
  BY DEF Sub!CallsAreAccountedFor, ResultsAreFinal, WithinBounds
<1>. QED BY <1>1, <1>2, <1>3 DEF TasksIInv

\* Every step keeps the types.
LEMMA TaskTypes ==
  ASSUME Sub!SubTasksAssumption, TasksIInv, [Sub!Next]_Sub!vars
  PROVE TaskKinds'
<1>0. TaskKinds /\ MaxRounds \in Nat /\ MaxAttempts \in Nat \ {0} /\ MaxLookups \in Nat
  BY DEF TasksIInv, Sub!SubTasksAssumption
<1>. USE DEF Sub!Frame, Sub!Go, Stages, Sub!Ended, Sub!Outputs, Sub!Calls
<1>1. ASSUME NEW i \in Sub!Ids, Sub!Take(i) \/ Sub!CallTool(i) PROVE TaskKinds'
  BY <1>0, <1>1 DEF Sub!Take, Sub!CallTool, TaskKinds, Sub!TypeOK
<1>2. ASSUME NEW i \in Sub!Ids, Sub!Write(i) PROVE TaskKinds'
  BY <1>0, <1>2 DEF Sub!Write, TaskKinds, Sub!TypeOK
<1>3. ASSUME NEW i \in Sub!Ids, Sub!Settle(i) \/ Sub!Misfire(i) PROVE TaskKinds'
  BY <1>0, <1>3 DEF Sub!Settle, Sub!Misfire, Sub!Leave, TaskKinds, Sub!TypeOK
<1>4. ASSUME NEW i \in Sub!Ids, Sub!LookUp(i) \/ Sub!Search(i) PROVE TaskKinds'
  BY <1>0, <1>4 DEF Sub!LookUp, Sub!Search, TaskKinds, Sub!TypeOK
<1>5. ASSUME NEW i \in Sub!Ids, Sub!Continue(i) PROVE TaskKinds'
  <2>1. round[i] + 1 \in 0 .. MaxRounds
    BY <1>0, <1>5 DEF Sub!Continue, TaskKinds, Sub!TypeOK, TasksIInv, WithinBounds
  <2>2. round' \in [Sub!Ids -> 0 .. MaxRounds]
    BY <1>0, <1>5, <2>1 DEF Sub!Continue, TaskKinds, Sub!TypeOK
  <2>. QED BY <1>0, <1>5, <2>2 DEF Sub!Continue, Sub!Leave, TaskKinds, Sub!TypeOK
<1>6. ASSUME NEW i \in Sub!Ids, Sub!Judge(i) PROVE TaskKinds'
  <2>1. attempt[i] + 1 \in 0 .. MaxAttempts
    BY <1>0, <1>6 DEF Sub!Judge, TaskKinds, Sub!TypeOK, TasksIInv, WithinBounds
  <2>2. attempt' \in [Sub!Ids -> 0 .. MaxAttempts]
    BY <1>0, <1>6, <2>1 DEF Sub!Judge, TaskKinds, Sub!TypeOK
  <2>3. round' \in [Sub!Ids -> 0 .. MaxRounds]
    BY <1>0, <1>6 DEF Sub!Judge, TaskKinds, Sub!TypeOK
  <2>5. output' \in [Sub!Ids -> Sub!Outputs]
    BY <1>0, <1>6 DEF Sub!Judge, TaskKinds, Sub!TypeOK
  <2>6. noted' \in [Sub!Ids -> BOOLEAN] /\ errored' \in [Sub!Ids -> BOOLEAN]
    BY <1>0, <1>6 DEF Sub!Judge, TaskKinds
  <2>4. /\ at' \in [Sub!Ids -> Stages]
        /\ status' \in [Sub!Ids -> {"pending", "clarification_needed", "executed", "evaluated",
                                "completed", "failed"}]
    BY <1>0, <1>6 DEF Sub!Judge, TaskKinds
  <2>. QED BY <1>0, <1>6, <2>2, <2>3, <2>4, <2>5, <2>6 DEF Sub!Judge, TaskKinds, Sub!TypeOK
<1>7. ASSUME NEW i \in Sub!Ids, Sub!Collect(i) PROVE TaskKinds'
  BY <1>0, <1>7 DEF TasksIInv, ResultsAreFinal, Sub!Collect, Sub!thread, TaskKinds,
     Sub!TypeOK
<1>8. CASE Sub!TimeOut \/ Sub!Merge
  BY <1>0, <1>8 DEF Sub!TimeOut, Sub!Merge, Sub!thread, TaskKinds, Sub!TypeOK
<1>9. CASE UNCHANGED Sub!vars
  BY <1>0, <1>9 DEF Sub!vars, Sub!thread, TaskKinds, Sub!TypeOK
<1>. QED
  BY <1>1, <1>2, <1>3, <1>4, <1>5, <1>6, <1>7, <1>8, <1>9 DEF Sub!Next, Sub!Run

\* A loop is left at its last round, and a sub-task at its last attempt.
LEMMA BoundsStep ==
  ASSUME Sub!SubTasksAssumption, TasksIInv, [Sub!Next]_Sub!vars
  PROVE WithinBounds'
<1>0. /\ at \in [Sub!Ids -> Stages] /\ round \in [Sub!Ids -> 0 .. MaxRounds]
      /\ attempt \in [Sub!Ids -> 0 .. MaxAttempts] /\ MaxRounds \in Nat
      /\ MaxAttempts \in Nat
      /\ WithinBounds
  BY DEF TasksIInv, TaskKinds, Sub!TypeOK, Sub!SubTasksAssumption
<1>1. ASSUME NEW i \in Sub!Ids, Sub!Run(i) PROVE WithinBounds'
  <2>1. ASSUME NEW j \in Sub!Ids, j # i
        PROVE  at'[j] = at[j] /\ round'[j] = round[j] /\ attempt'[j] = attempt[j]
    BY <1>0, <1>1, <2>1 DEF Sub!Run, Sub!Take, Sub!Write, Sub!Settle, Sub!CallTool,
       Sub!Misfire, Sub!LookUp, Sub!Search, Sub!Continue, Sub!Judge, Sub!Go, Sub!Leave
  <2>2. at'[i] \in {"continue", "search"} => round'[i] < MaxRounds
    BY <1>0, <1>1 DEF Sub!Run, Sub!Take, Sub!Write, Sub!Settle, Sub!CallTool, Sub!Misfire,
       Sub!LookUp, Sub!Search, Sub!Continue, Sub!Judge, Sub!Go, Sub!Leave, Sub!LastRound,
       WithinBounds
  <2>3. at'[i] \notin Sub!Ended => attempt'[i] < MaxAttempts
    <3>1. CASE Sub!Judge(i)
      BY <1>0, <3>1 DEF Sub!Judge, Sub!Go, Sub!Ended, WithinBounds
    <3>2. CASE ~Sub!Judge(i)
      <4>1. attempt' = attempt /\ at[i] \notin Sub!Ended
        BY <1>1, <3>2 DEF Sub!Run, Sub!Take, Sub!Write, Sub!Settle, Sub!CallTool,
           Sub!Misfire, Sub!LookUp, Sub!Search, Sub!Continue, Sub!Ended
      <4>. QED BY <4>1 DEF TasksIInv, WithinBounds
    <3>. QED BY <3>1, <3>2
  <2>. QED BY <2>1, <2>2, <2>3, <1>0 DEF WithinBounds
<1>2. CASE UNCHANGED Sub!thread
  BY <1>0, <1>2 DEF Sub!thread, WithinBounds
<1>. QED BY <1>1, <1>2 DEF Sub!Next, Sub!Collect, Sub!TimeOut, Sub!Merge, Sub!vars

\* The lock of the lookups counts each one before it is made.
LEMMA LookupsStep ==
  ASSUME Sub!SubTasksAssumption, TasksIInv, [Sub!Next]_Sub!vars
  PROVE LookupsAreSearches'
<1>0. /\ at \in [Sub!Ids -> Stages] /\ lookups \in Nat /\ searches \in Nat
      /\ searches + Cardinality(Searching) = lookups
  BY DEF TasksIInv, TaskKinds, Sub!TypeOK, LookupsAreSearches
<1>1. IsFiniteSet(Searching) /\ Cardinality(Searching) \in Nat
  <2>1. IsFiniteSet(Sub!Ids)
    BY FS_Interval DEF Sub!Ids, Sub!SubTasksAssumption
  <2>2. Searching \subseteq Sub!Ids
    BY DEF Searching
  <2>. QED BY <2>1, <2>2, FS_Subset, FS_CardinalityType
<1>2. ASSUME NEW i \in Sub!Ids, Sub!LookUp(i) PROVE LookupsAreSearches'
  <2>1. CASE lookups < MaxLookups
    <3>1. Searching' = Searching \cup {i} /\ i \notin Searching
      BY <1>0, <1>2, <2>1 DEF Sub!LookUp, Sub!Go, Searching
    <3>2. searches' = searches /\ lookups' = lookups + 1
      BY <1>2, <2>1 DEF Sub!LookUp
    <3>3. Cardinality(Searching') = Cardinality(Searching) + 1
      BY <1>1, <3>1, FS_AddElement
    <3>. QED BY <1>0, <1>1, <3>2, <3>3 DEF LookupsAreSearches
  <2>2. CASE ~(lookups < MaxLookups)
    <3>1. Searching' = Searching
      BY <1>0, <1>2, <2>2 DEF Sub!LookUp, Sub!Go, Searching
    <3>. QED BY <1>0, <1>2, <2>2, <3>1 DEF Sub!LookUp, LookupsAreSearches
  <2>. QED BY <2>1, <2>2
<1>3. ASSUME NEW i \in Sub!Ids, Sub!Search(i) PROVE LookupsAreSearches'
  <2>1. Searching' = Searching \ {i} /\ i \in Searching
    BY <1>0, <1>3 DEF Sub!Search, Sub!Go, Searching
  <2>2. searches' = searches + 1 /\ lookups' = lookups
    BY <1>3 DEF Sub!Search
  <2>3. Cardinality(Searching') = Cardinality(Searching) - 1
    BY <1>1, <2>1, FS_RemoveElement
  <2>. QED BY <1>0, <1>1, <2>2, <2>3 DEF LookupsAreSearches
<1>4. CASE \A i \in Sub!Ids : ~Sub!LookUp(i) /\ ~Sub!Search(i)
  <2>1. UNCHANGED <<lookups, searches>>
    BY <1>4 DEF Sub!Next, Sub!Run, Sub!Take, Sub!Write, Sub!Settle, Sub!CallTool,
       Sub!Misfire, Sub!Continue, Sub!Judge, Sub!Collect, Sub!TimeOut, Sub!Merge, Sub!vars
  <2>2. Searching' = Searching
    <3>1. ASSUME NEW i \in Sub!Ids, Sub!Run(i) PROVE Searching' = Searching
      <4>1. at[i] # "search"
        BY <1>4, <3>1 DEF Sub!Run, Sub!Take, Sub!Write, Sub!Settle, Sub!CallTool,
           Sub!Misfire, Sub!Continue, Sub!Judge
      <4>2. \E next \in Stages \ {"search"} : at' = [at EXCEPT ![i] = next]
        BY <1>4, <3>1 DEF Sub!Run, Sub!Take, Sub!Write, Sub!Settle, Sub!CallTool,
           Sub!Misfire, Sub!Continue, Sub!Judge, Sub!Leave, Sub!Go, Stages, Sub!Ended
      <4>. QED BY <1>0, <4>1, <4>2 DEF Searching
    <3>2. CASE at' = at
      BY <3>2 DEF Searching
    <3>. QED BY <3>1, <3>2 DEF Sub!Next, Sub!Collect, Sub!TimeOut, Sub!Merge, Sub!vars,
         Sub!thread
  <2>. QED BY <1>0, <2>1, <2>2 DEF LookupsAreSearches
<1>. QED BY <1>2, <1>3, <1>4

\* An output comes to the critic with its call run, noted, or in a broken loop.
LEMMA TaskCallsStep == ASSUME TasksIInv, [Sub!Next]_Sub!vars PROVE Sub!CallsAreAccountedFor'
<1>0. /\ at \in [Sub!Ids -> Stages] /\ output \in [Sub!Ids -> Sub!Outputs]
      /\ tools \subseteq Sub!Ids
      /\ noted \in [Sub!Ids -> BOOLEAN] /\ errored \in [Sub!Ids -> BOOLEAN]
      /\ Sub!CallsAreAccountedFor
  BY DEF TasksIInv, TaskKinds, Sub!TypeOK
<1>1. ASSUME NEW i \in Sub!Ids, Sub!Run(i) PROVE Sub!CallsAreAccountedFor'
  <2>1. tools' = tools
    BY <1>1 DEF Sub!Run, Sub!Take, Sub!Write, Sub!Settle, Sub!CallTool, Sub!Misfire,
       Sub!LookUp, Sub!Search, Sub!Continue, Sub!Judge, Sub!Frame
  <2>2. ASSUME NEW j \in Sub!Ids, j # i
        PROVE  /\ at'[j] = at[j] /\ output'[j] = output[j] /\ noted'[j] = noted[j]
               /\ errored'[j] = errored[j]
    BY <1>0, <1>1, <2>2 DEF Sub!Run, Sub!Take, Sub!Write, Sub!Settle, Sub!CallTool,
       Sub!Misfire, Sub!LookUp, Sub!Search, Sub!Continue, Sub!Judge, Sub!Go, Sub!Leave
  <2>3. ASSUME i \in tools, at'[i] = "critic", output'[i] \in Sub!Calls
        PROVE  noted'[i] \/ errored'[i]
    <3>1. CASE Sub!Settle(i)
      BY <1>0, <2>3, <3>1 DEF Sub!Settle
    <3>2. CASE Sub!Misfire(i) \/ Sub!Continue(i)
      BY <1>0, <2>3, <3>2 DEF Sub!Misfire, Sub!Continue, Sub!Go
    <3>3. ~Sub!Take(i) /\ ~Sub!Write(i) /\ ~Sub!CallTool(i) /\ ~Sub!LookUp(i) /\ ~Sub!Search(i) /\ ~Sub!Judge(i)
      BY <1>0, <2>3 DEF Sub!Take, Sub!Write, Sub!CallTool, Sub!LookUp, Sub!Search,
         Sub!Judge, Sub!Go
    <3>. QED BY <1>1, <3>1, <3>2, <3>3 DEF Sub!Run
  <2>. QED BY <1>0, <2>1, <2>2, <2>3 DEF Sub!CallsAreAccountedFor
<1>2. CASE UNCHANGED <<tools, Sub!thread>>
  BY <1>0, <1>2 DEF Sub!thread, Sub!CallsAreAccountedFor
<1>. QED BY <1>1, <1>2 DEF Sub!Next, Sub!Collect, Sub!TimeOut, Sub!Merge, Sub!vars

\* A thread that has ended is left alone, and so is its result.
LEMMA ResultsStep == ASSUME TasksIInv, [Sub!Next]_Sub!vars PROVE ResultsAreFinal'
<1>0. /\ at \in [Sub!Ids -> Stages] /\ ResultsAreFinal
      /\ node \in {"waiting", "late", "merged"}
      /\ status \in [Sub!Ids -> {"pending", "clarification_needed", "executed", "evaluated",
                             "completed", "failed"}]
      /\ results \in [Sub!Ids -> {"none", "completed", "failed", "clarification_needed"}]
  BY DEF TasksIInv, TaskKinds, Sub!TypeOK
<1>1. ASSUME NEW i \in Sub!Ids, Sub!Run(i) PROVE ResultsAreFinal'
  <2>1. UNCHANGED <<results, node>> /\ at[i] \notin Sub!Ended
    BY <1>1 DEF Sub!Run, Sub!Take, Sub!Write, Sub!Settle, Sub!CallTool, Sub!Misfire,
       Sub!LookUp, Sub!Search, Sub!Continue, Sub!Judge, Sub!Frame, Sub!Ended
  <2>2. ASSUME NEW j \in Sub!Ids, j # i PROVE at'[j] = at[j] /\ status'[j] = status[j]
    BY <1>0, <1>1, <2>2 DEF Sub!Run, Sub!Take, Sub!Write, Sub!Settle, Sub!CallTool,
       Sub!Misfire, Sub!LookUp, Sub!Search, Sub!Continue, Sub!Judge, Sub!Go, Sub!Leave
  <2>3. at'[i] = "done" => status'[i] \in {"completed", "failed", "clarification_needed"}
    BY <1>0, <1>1 DEF Sub!Run, Sub!Take, Sub!Write, Sub!Settle, Sub!CallTool, Sub!Misfire,
       Sub!LookUp, Sub!Search, Sub!Continue, Sub!Judge, Sub!Go, Sub!Leave
  <2>4. results[i] \notin {"completed", "clarification_needed"} /\ node # "merged"
    BY <1>0, <2>1 DEF ResultsAreFinal, Sub!Ended
  <2>. QED BY <1>0, <2>1, <2>2, <2>3, <2>4 DEF ResultsAreFinal
<1>2. ASSUME NEW i \in Sub!Ids, Sub!Collect(i) PROVE ResultsAreFinal'
  BY <1>0, <1>2 DEF Sub!Collect, Sub!thread, ResultsAreFinal, Sub!Ended
<1>3. CASE Sub!TimeOut
  BY <1>0, <1>3 DEF Sub!TimeOut, Sub!thread, ResultsAreFinal
<1>4. CASE Sub!Merge
  BY <1>0, <1>4 DEF Sub!Merge, Sub!thread, ResultsAreFinal
<1>5. CASE UNCHANGED Sub!vars
  BY <1>0, <1>5 DEF Sub!vars, Sub!thread, ResultsAreFinal
<1>. QED BY <1>1, <1>2, <1>3, <1>4, <1>5 DEF Sub!Next

\* The invariant of the sub-tasks is inductive.
LEMMA TasksStep ==
  ASSUME Sub!SubTasksAssumption
  PROVE TasksIInv /\ [Sub!Next]_Sub!vars => TasksIInv'
BY TaskTypes, BoundsStep, LookupsStep, TaskCallsStep, ResultsStep DEF TasksIInv

LEMMA TasksSound == ASSUME Sub!SubTasksAssumption PROVE TasksIInv => Sub!SubTasksInv
<1>. SUFFICES ASSUME TasksIInv PROVE Sub!SubTasksInv
  OBVIOUS
<1>1. Sub!LookupLimitHolds
  BY TaskSetsAreFinite DEF TasksIInv, TaskKinds, Sub!TypeOK, LookupsAreSearches, Searching,
     Sub!LookupLimitHolds
<1>2. Sub!MergeIsSettled
  <2>. SUFFICES ASSUME node = "merged", NEW i \in Sub!Ids
                PROVE  /\ at[i] \in Sub!Ended
                       /\ results[i] = "completed" => at[i] = "done" /\ status[i] = "completed"
                       /\ results[i] \in {"completed", "clarification_needed", "failed"}
                       /\ results[i] = "clarification_needed" => status[i] = "clarification_needed"
    BY DEF Sub!MergeIsSettled
  <2>. QED BY DEF TasksIInv, TaskKinds, Sub!TypeOK, ResultsAreFinal
<1>. QED BY <1>1, <1>2 DEF TasksIInv, TaskKinds, Sub!SubTasksInv

\* A step beside the sub-tasks leaves them alone.
LEMMA TasksFrame == [MCNext]_all => [Sub!Next]_Sub!vars
BY DEF MCNext, all, subtasks, Sub!vars, Sub!thread

\* However the threads of a node interleave, calls and lookups stay within their
\* limits, every call is accounted for, and what is merged are final results, for
\* any number of sub-tasks, workers, rounds, attempts and lookups.
THEOREM TasksSafety == ASSUME Sub!SubTasksAssumption PROVE MCSpec => []SubTasksInv
<1>1. MCInit => Sub!Init
  BY DEF MCInit
<1>. QED BY <1>1, TasksInitially, TasksStep, TasksSound, TasksFrame, PTL DEF MCSpec,
     SubTasksInv

-----------------------------------------------------------------------------
\* KeyPrompt.

\* A message of the conversation is looked at.
Looking == {"warn", "validate", "truncate", "dump", "confirm"}
\* The file is being rewritten.
Writing == {"truncate", "dump"}
Stands == {"idle", "ask", "send", "poll", "scan"} \cup Looking

Jobs == [want : KeyNames \cup {""}, since : Nat, late : BOOLEAN,
         todo : SUBSET Key!Ids, read : SUBSET Valid]

\* The types of all variables.
KeyKinds ==
  /\ messenger \in {"mattermost", "slack"} /\ torn \in BOOLEAN /\ raced \in BOOLEAN
  /\ file \subseteq Valid /\ cache \in [Procs -> SUBSET Valid]
  /\ chat \in Seq(Values) /\ Len(chat) <= MaxMessages
  /\ shown \subseteq 1 .. Len(chat) /\ warned \subseteq 1 .. Len(chat)
  /\ where \in [Procs -> Stands] /\ job \in [Procs -> Jobs]
  /\ \A p \in Procs : job[p].since <= Len(chat) /\ job[p].todo \subseteq 1 .. Len(chat)
  /\ faults \in 0 .. MaxFaults

\* A message that is looked at is one of the conversation, and what is stored of it
\* is valid.
Looked ==
  \A p \in Procs :
    /\ where[p] \in Looking => Key!Current(p) \in job[p].todo
    /\ where[p] \in Writing => Key!Entry(p) \in Valid

\* What could not be deleted failed once, and once more if the person was not told.
Exposed ==
  \A p \in Procs :
    /\ where[p] = "warn" => Key!Current(p) \notin shown \/ faults >= 1
    /\ where[p] \in Looking \ {"warn"} =>
         Key!Current(p) \notin shown \/ Key!Current(p) \in warned \/ faults >= 2

\* As long as no two saves overlap, the one that rewrites the file has read all that
\* was saved.
Saved ==
  /\ Key!SavedIsKept
  /\ ~raced =>
       /\ \A p, q \in Procs : where[p] \in Writing /\ where[q] \in Writing => p = q
       /\ \A p \in Procs : where[p] \in Writing => saved \subseteq Key!Names(job[p].read)

KeysIInv == KeyKinds /\ Looked /\ Exposed /\ Saved

-----------------------------------------------------------------------------
\* The next message is one of those not looked at.
LEMMA NextMessage ==
  ASSUME NEW n \in Nat, NEW T \in SUBSET (1 .. n), T # {}
  PROVE  Key!Max(T) \in T /\ Key!Min(T) \in T
<1>1. PICK lo \in T : \A y \in T : ~(y < lo)
  <2>1. T \subseteq Nat
    OBVIOUS
  <2>2. \E x \in T : \A y \in T : <<y, x>> \notin OpToRel(<, Nat)
    BY <2>1, NatLessThanWellFounded, WFMin
  <2>. QED BY <2>1, <2>2 DEF OpToRel
<1>2. PICK hi \in T : \A y \in T : ~(hi < y)
  <2>. DEFINE D == {n - x : x \in T}
  <2>1. D \subseteq Nat /\ D # {}
    OBVIOUS
  <2>2. \E x \in D : \A y \in D : <<y, x>> \notin OpToRel(<, Nat)
    BY <2>1, NatLessThanWellFounded, WFMin
  <2>3. PICK x \in T : \A y \in T : ~(n - y < n - x)
    BY <2>1, <2>2 DEF OpToRel
  <2>. QED BY <2>3
<1>3. \E x \in T : \A y \in T : x <= y
  BY <1>1
<1>4. \E x \in T : \A y \in T : x >= y
  BY <1>2
<1>. QED BY <1>3, <1>4 DEF Key!Max, Key!Min

-----------------------------------------------------------------------------
\* The locals of a process between its calls, and those that a call begins with.
LEMMA BlankJob ==
  /\ Key!NoJob \in Jobs /\ Key!NoJob.since = 0 /\ Key!NoJob.todo = {}
  /\ \A k \in KeyNames : /\ [Key!NoJob EXCEPT !.want = k] \in Jobs
                         /\ [Key!NoJob EXCEPT !.want = k].since = 0
                         /\ [Key!NoJob EXCEPT !.want = k].todo = {}
BY DEF Key!NoJob, Jobs

\* There is no conversation yet, and nothing is stored.
LEMMA KeysInitially == ASSUME Key!KeyPromptAssumption PROVE Key!Init => KeysIInv
<1>. SUFFICES ASSUME Key!Init PROVE KeysIInv
  OBVIOUS
<1>. USE DEF Key!KeyPromptAssumption, Key!Init
<1>1. chat \in Seq(Values) /\ Len(chat) = 0
  BY EmptySeq
<1>2. job \in [Procs -> Jobs] /\ \A p \in Procs : job[p].since = 0 /\ job[p].todo = {}
  BY BlankJob
<1>3. where \in [Procs -> Stands] /\ cache \in [Procs -> SUBSET Valid] /\ 0 \in 0 .. MaxFaults
  BY DEF Stands
<1>6. /\ Len(chat) <= MaxMessages /\ faults \in 0 .. MaxFaults
      /\ \A p \in Procs : job[p].since <= Len(chat) /\ job[p].todo \subseteq 1 .. Len(chat)
  BY <1>1, <1>2
<1>5. KeyKinds
  BY <1>1, <1>2, <1>3, <1>6 DEF KeyKinds
<1>4. Looked /\ Exposed /\ Saved
  BY DEF Looked, Looking, Writing, Exposed, Saved, Key!SavedIsKept
<1>. QED BY <1>4, <1>5 DEF KeysIInv

\* What a step of a process may make of its own locals.
Fits(j) == j \in Jobs /\ j.since <= Len(chat) /\ j.todo \subseteq 1 .. Len(chat)

\* A step of a process moves it to another place with fitting locals, and leaves the
\* conversation as it is but for the messages deleted and the warnings given.
LEMMA OwnStep ==
  ASSUME Key!KeyPromptAssumption, KeysIInv,
         NEW p \in Procs, Key!Get(p) \/ Key!Step(p) \/ Key!Deadline(p) \/ Key!Crash(p)
  PROVE  /\ UNCHANGED <<messenger, chat>> /\ shown' \subseteq shown /\ warned \subseteq warned'
         /\ faults' \in {faults, faults + 1}
         /\ \E next \in Stands, j \in Jobs :
              /\ Fits(j)
              /\ where' = [where EXCEPT ![p] = next] /\ job' = [job EXCEPT ![p] = j]
<1>. DEFINE Moved == \E next \in Stands, j \in Jobs :
                       /\ Fits(j)
                       /\ where' = [where EXCEPT ![p] = next]
                       /\ job' = [job EXCEPT ![p] = j]
<1>j. /\ job[p] \in Jobs /\ job[p].since \in Nat /\ job[p].todo \subseteq 1 .. Len(chat)
  BY DEF KeysIInv, KeyKinds, Jobs
<1>0. /\ where \in [Procs -> Stands] /\ job \in [Procs -> Jobs] /\ Fits(job[p])
      /\ Len(chat) \in Nat /\ Len(chat) <= MaxMessages /\ MaxMessages \in Nat
      /\ shown \subseteq 1 .. Len(chat) /\ file \subseteq Valid
  BY LenProperties DEF KeysIInv, KeyKinds, Fits, Key!KeyPromptAssumption
<1>1. Key!NoJob \in Jobs /\ Fits(Key!NoJob)
  BY <1>0, BlankJob DEF Fits
<1>2. ASSUME NEW next \in Stands, NEW j \in Jobs, Fits(j), Key!Go(p, next, j) PROVE Moved
  BY <1>1, <1>2 DEF Key!Go
<1>3. CASE Key!Get(p)
  <2>1. PICK k \in KeyNames : Key!Go(p, "idle", [Key!NoJob EXCEPT !.want = k])
                              \/ Key!Go(p, "ask", [Key!NoJob EXCEPT !.want = k])
    BY <1>3 DEF Key!Get
  <2>2. [Key!NoJob EXCEPT !.want = k] \in Jobs /\ Fits([Key!NoJob EXCEPT !.want = k])
    BY <1>0, BlankJob DEF Fits
  <2>3. Moved
    BY <1>2, <2>1, <2>2 DEF Stands
  <2>. QED BY <1>3, <2>3 DEF Key!Get, Key!FileFrame, Key!ChatFrame
<1>4. CASE Key!Ask(p)
  <2>1. [job[p] EXCEPT !.since = Len(chat)] \in Jobs
        /\ Fits([job[p] EXCEPT !.since = Len(chat)])
    <3>. DEFINE j == [job[p] EXCEPT !.since = Len(chat)]
    <3>1. j \in Jobs /\ j.since = Len(chat) /\ j.todo = job[p].todo
      BY <1>j, <1>0 DEF Jobs
    <3>. QED BY <1>j, <1>0, <3>1 DEF Fits
  <2>. QED BY <1>2, <1>4, <2>1 DEF Key!Ask, Stands, Key!Frame, Key!ChatFrame
<1>5. CASE Key!Deadline(p)
  <2>1. [job[p] EXCEPT !.late = TRUE] \in Jobs /\ Fits([job[p] EXCEPT !.late = TRUE])
        /\ job' = [job EXCEPT ![p] = [job[p] EXCEPT !.late = TRUE]]
    BY <1>0, <1>5 DEF Key!Deadline, Jobs, Fits
  <2>2. where' = [where EXCEPT ![p] = where[p]] /\ where[p] \in Stands
    BY <1>0, <1>5 DEF Key!Deadline
  <2>. QED BY <1>5, <2>1, <2>2 DEF Key!Deadline, Key!Frame, Key!ChatFrame
<1>6. CASE Key!Poll(p)
  <2>1. [job[p] EXCEPT !.todo = Key!Answers(p)] \in Jobs
        /\ Fits([job[p] EXCEPT !.todo = Key!Answers(p)])
    <3>. DEFINE j == [job[p] EXCEPT !.todo = Key!Answers(p)]
    <3>1. Key!Answers(p) \subseteq 1 .. Len(chat) /\ 1 .. Len(chat) \subseteq Key!Ids
      <4>1. Key!Answers(p) \subseteq shown
        BY DEF Key!Answers
      <4>2. 1 .. Len(chat) \subseteq Key!Ids
        BY <1>0 DEF Key!Ids
      <4>. QED BY <1>0, <4>1, <4>2
    <3>2. j \in Jobs /\ j.since = job[p].since /\ j.todo = Key!Answers(p)
      BY <1>j, <3>1 DEF Jobs
    <3>. QED BY <1>0, <3>1, <3>2 DEF Fits
  <2>. QED BY <1>2, <1>6, <2>1 DEF Key!Poll, Stands, Key!Frame, Key!ChatFrame
<1>7. CASE Key!Reject(p)
  <2>1. [job[p] EXCEPT !.todo = @ \ {Key!Current(p)}] \in Jobs
        /\ Fits([job[p] EXCEPT !.todo = @ \ {Key!Current(p)}])
    BY <1>0 DEF Jobs, Fits
  <2>. QED BY <1>2, <1>0, <1>7, <2>1 DEF Key!Reject, Key!Tell, Key!Works, Key!Fails, Stands,
       Key!Frame, Key!ChatFrame
<1>8. CASE Key!Read(p)
  <2>1. [job[p] EXCEPT !.read = file] \in Jobs /\ Fits([job[p] EXCEPT !.read = file])
    BY <1>0 DEF Jobs, Fits
  <2>. QED BY <1>2, <1>0, <1>8, <2>1 DEF Key!Read, Key!Works, Key!Fails, Stands, Looking,
       Key!Frame, Key!ChatFrame
<1>9. CASE Key!Send(p) \/ Key!GiveUp(p) \/ Key!ScanDone(p)
  BY <1>0, <1>2, <1>9 DEF Key!Send, Key!GiveUp, Key!ScanDone, Key!Tell, Key!Works,
     Key!Fails, Stands, Key!Frame, Key!ChatFrame
<1>10. CASE Key!Delete(p) \/ Key!Warn(p)
  BY <1>0, <1>2, <1>10 DEF Key!Delete, Key!Warn, Key!Tell, Key!Works, Key!Fails, Stands,
     Looking, Key!Frame
<1>11. CASE Key!Truncate(p) \/ Key!Dump(p) \/ Key!Confirm(p) \/ Key!Crash(p)
  BY <1>0, <1>2, <1>11 DEF Key!Truncate, Key!Dump, Key!Confirm, Key!Crash, Key!Works,
     Key!Fails, Stands, Looking, Key!Frame, Key!ChatFrame
<1>. QED BY <1>3, <1>4, <1>5, <1>6, <1>7, <1>8, <1>9, <1>10, <1>11 DEF Key!Step

\* The message of a process that stays with it is the same.
LEMMA SameMessage ==
  ASSUME messenger' = messenger, NEW q, job'[q].todo = job[q].todo
  PROVE  Key!Current(q)' = Key!Current(q)
BY DEF Key!Current

-----------------------------------------------------------------------------
\* What a step leaves of the types.
LEMMA KeyTypes ==
  ASSUME Key!KeyPromptAssumption, KeysIInv, [Key!Next]_Key!vars
  PROVE KeyKinds'
<1>0. /\ messenger \in {"mattermost", "slack"} /\ torn \in BOOLEAN /\ raced \in BOOLEAN
      /\ file \subseteq Valid /\ cache \in [Procs -> SUBSET Valid]
      /\ chat \in Seq(Values) /\ Len(chat) \in Nat /\ Len(chat) <= MaxMessages
      /\ shown \subseteq 1 .. Len(chat) /\ warned \subseteq 1 .. Len(chat)
      /\ where \in [Procs -> Stands] /\ job \in [Procs -> Jobs]
      /\ \A p \in Procs : /\ job[p].since \in Nat /\ job[p].since <= Len(chat)
                          /\ job[p].todo \subseteq 1 .. Len(chat)
                          /\ job[p].read \subseteq Valid
      /\ faults \in 0 .. MaxFaults /\ MaxFaults \in Nat /\ MaxMessages \in Nat
  BY LenProperties DEF KeysIInv, KeyKinds, Jobs, Key!KeyPromptAssumption
<1>1. ASSUME NEW p \in Procs, Key!Get(p) \/ Key!Step(p) \/ Key!Deadline(p) \/ Key!Crash(p)
      PROVE  KeyKinds'
  <2>1. PICK next \in Stands, j \in Jobs :
          Fits(j) /\ where' = [where EXCEPT ![p] = next] /\ job' = [job EXCEPT ![p] = j]
    BY <1>1, OwnStep
  <2>2. UNCHANGED <<messenger, chat>> /\ shown' \subseteq shown /\ warned \subseteq warned'
    BY <1>1, OwnStep
  <2>3. /\ where' \in [Procs -> Stands] /\ job' \in [Procs -> Jobs]
        /\ \A q \in Procs : job'[q].since <= Len(chat) /\ job'[q].todo \subseteq 1 .. Len(chat)
    BY <1>0, <2>1 DEF Fits
  <2>4. faults' \in 0 .. MaxFaults
    BY <1>0, <1>1 DEF Key!Get, Key!Step, Key!Deadline, Key!Crash, Key!Ask, Key!Send,
       Key!Poll, Key!GiveUp, Key!ScanDone, Key!Delete, Key!Warn, Key!Reject, Key!Read,
       Key!Truncate, Key!Dump, Key!Confirm, Key!Tell, Key!Works, Key!Fails
  <2>5. warned' \subseteq 1 .. Len(chat)
    <3>1. CASE Key!Warn(p)
      <4>1. Key!Current(p) \in job[p].todo
        BY <3>1 DEF Key!Warn, KeysIInv, Looked, Looking
      <4>. QED BY <1>0, <3>1, <4>1 DEF Key!Warn
    <3>2. CASE ~Key!Warn(p)
      BY <1>0, <1>1, <3>2 DEF Key!Get, Key!Step, Key!Deadline, Key!Crash, Key!Ask, Key!Send,
         Key!Poll, Key!GiveUp, Key!ScanDone, Key!Delete, Key!Reject, Key!Read, Key!Truncate,
         Key!Dump, Key!Confirm, Key!ChatFrame
    <3>. QED BY <3>1, <3>2
  <2>6. torn' \in BOOLEAN /\ raced' \in BOOLEAN
    BY <1>0, <1>1 DEF Key!Get, Key!Step, Key!Deadline, Key!Crash, Key!Ask, Key!Send,
       Key!Poll, Key!GiveUp, Key!ScanDone, Key!Delete, Key!Warn, Key!Reject, Key!Read,
       Key!Truncate, Key!Dump, Key!Confirm, Key!FileFrame
  <2>7. file' \subseteq Valid /\ cache' \in [Procs -> SUBSET Valid]
    <3>1. CASE Key!Dump(p)
      <4>1. Key!Entry(p) \in Valid
        BY <3>1 DEF Key!Dump, KeysIInv, Looked, Writing
      <4>2. /\ Key!Updated(job[p].read, {Key!Entry(p)}) \subseteq Valid
            /\ Key!Updated(cache[p], {Key!Entry(p)}) \subseteq Valid
        BY <1>0, <4>1 DEF Key!Updated
      <4>. QED BY <1>0, <3>1, <4>2 DEF Key!Dump
    <3>2. CASE Key!Get(p)
      <4>1. Key!Updated(cache[p], file) \subseteq Valid
        BY <1>0 DEF Key!Updated
      <4>. QED BY <1>0, <3>2, <4>1 DEF Key!Get, Key!FileFrame
    <3>3. CASE Key!Truncate(p) \/ Key!Crash(p)
      BY <1>0, <3>3 DEF Key!Truncate, Key!Crash
    <3>4. CASE ~Key!Dump(p) /\ ~Key!Get(p) /\ ~Key!Truncate(p) /\ ~Key!Crash(p)
      BY <1>0, <1>1, <3>4 DEF Key!Step, Key!Deadline, Key!Ask, Key!Send, Key!Poll,
         Key!GiveUp, Key!ScanDone, Key!Delete, Key!Warn, Key!Reject, Key!Read, Key!Confirm,
         Key!FileFrame
    <3>. QED BY <3>1, <3>2, <3>3, <3>4
  <2>. QED BY <1>0, <2>2, <2>3, <2>4, <2>5, <2>6, <2>7 DEF KeyKinds
<1>2. ASSUME NEW v \in Values, Key!Say(v) PROVE KeyKinds'
  <2>1. /\ chat' \in Seq(Values) /\ Len(chat') = Len(chat) + 1
    BY <1>0, <1>2, AppendProperties DEF Key!Say
  <2>5. Len(chat) < MaxMessages /\ shown' = shown \cup {Len(chat) + 1}
    BY <1>2 DEF Key!Say
  <2>6. Len(chat') <= MaxMessages /\ Len(chat) + 1 \in 1 .. Len(chat')
    BY <1>0, <2>1, <2>5
  <2>7. 1 .. Len(chat) \subseteq 1 .. Len(chat')
    BY <1>0, <2>1
  <2>2. /\ Len(chat') <= MaxMessages /\ 1 .. Len(chat) \subseteq 1 .. Len(chat')
        /\ shown' \subseteq 1 .. Len(chat')
    BY <1>0, <2>5, <2>6, <2>7
  <2>3. UNCHANGED <<messenger, file, torn, saved, raced, where, job, cache, warned, faults>>
    BY <1>2 DEF Key!Say, Key!Frame, Key!FileFrame
  <2>4. \A p \in Procs : job'[p].since <= Len(chat') /\ job'[p].todo \subseteq 1 .. Len(chat')
    BY <1>0, <2>1, <2>2, <2>3
  <2>. QED BY <1>0, <2>1, <2>2, <2>3, <2>4 DEF KeyKinds
<1>3. CASE UNCHANGED Key!vars
  BY <1>0, <1>3 DEF Key!vars, KeyKinds
<1>. QED BY <1>1, <1>2, <1>3 DEF Key!Next

\* A process looks at a message that it has not looked at, and writes what fits.
LEMMA LookedStep ==
  ASSUME Key!KeyPromptAssumption, KeysIInv, [Key!Next]_Key!vars
  PROVE Looked'
<1>0. /\ where \in [Procs -> Stands] /\ job \in [Procs -> Jobs] /\ Looked
      /\ chat \in Seq(Values) /\ Len(chat) \in Nat
      /\ \A p \in Procs : job[p].todo \subseteq 1 .. Len(chat)
  BY LenProperties DEF KeysIInv, KeyKinds
<1>1. ASSUME NEW p \in Procs, Key!Get(p) \/ Key!Step(p) \/ Key!Deadline(p) \/ Key!Crash(p)
      PROVE  Looked'
  <2>1. PICK next \in Stands, j \in Jobs :
          Fits(j) /\ where' = [where EXCEPT ![p] = next] /\ job' = [job EXCEPT ![p] = j]
    BY <1>1, OwnStep
  <2>2. UNCHANGED <<messenger, chat>>
    BY <1>1, OwnStep
  <2>3. ASSUME NEW q \in Procs, q # p
        PROVE  /\ where'[q] \in Looking => Key!Current(q)' \in job'[q].todo
               /\ where'[q] \in Writing => Key!Entry(q)' \in Valid
    <3>1. where'[q] = where[q] /\ job'[q] = job[q]
      BY <1>0, <2>1, <2>3
    <3>2. Key!Current(q)' = Key!Current(q)
      BY <2>2, <3>1, SameMessage
    <3>3. Key!Entry(q)' = Key!Entry(q)
      BY <2>2, <3>1, <3>2 DEF Key!Entry
    <3>. QED BY <1>0, <3>1, <3>2, <3>3 DEF Looked
  <2>4. CASE where'[p] \notin Looking
    BY <2>3, <2>4 DEF Looked, Looking, Writing
  <2>5. CASE Key!Delete(p)
    <3>1. /\ job[p].todo # {} /\ job[p].todo \in SUBSET (1 .. Len(chat))
          /\ where'[p] \in {"validate", "warn"} /\ job'[p] = job[p]
      BY <1>0, <2>5 DEF Key!Delete, Key!Go
    <3>2. Key!Current(p) \in job[p].todo
      BY <1>0, <3>1, NextMessage DEF Key!Current
    <3>3. Key!Current(p)' = Key!Current(p)
      BY <2>2, <3>1, SameMessage
    <3>. QED BY <2>3, <3>1, <3>2, <3>3 DEF Looked, Writing
  <2>6. CASE where'[p] \in Looking /\ ~Key!Delete(p)
    <3>1. /\ where[p] \in Looking /\ job'[p].todo = job[p].todo
          /\ job'[p].want = job[p].want
          /\ where'[p] \in Writing => where[p] \in Writing \/ Key!Entry(p) \in Valid
      <4>1. Key!Warn(p) \/ Key!Read(p) \/ Key!Truncate(p) \/ Key!Dump(p) \/ Key!Deadline(p)
        BY <1>0, <1>1, <2>6 DEF Key!Get, Key!Step, Key!Crash, Key!Ask, Key!Send, Key!Poll,
           Key!GiveUp, Key!ScanDone, Key!Reject, Key!Confirm, Key!Tell, Key!Go, Looking
      <4>2. CASE Key!Warn(p)
        BY <1>0, <2>6, <4>2 DEF Key!Warn, Key!Tell, Key!Go, Looking, Writing
      <4>3. CASE Key!Read(p)
        <5>1. job'[p] = [job[p] EXCEPT !.read = file] /\ where'[p] = "truncate"
          BY <1>0, <2>6, <4>3 DEF Key!Read, Key!Go, Looking
        <5>. QED BY <1>0, <4>3, <5>1 DEF Key!Read, Looking, Jobs
      <4>4. CASE Key!Truncate(p) \/ Key!Dump(p)
        BY <1>0, <4>4 DEF Key!Truncate, Key!Dump, Key!Go, Looking, Writing
      <4>5. CASE Key!Deadline(p)
        BY <1>0, <2>6, <4>5 DEF Key!Deadline, Looking
      <4>. QED BY <4>1, <4>2, <4>3, <4>4, <4>5
    <3>2. Key!Current(p)' = Key!Current(p)
      BY <2>2, <3>1, SameMessage
    <3>3. Key!Entry(p)' = Key!Entry(p)
      BY <2>2, <3>1, <3>2 DEF Key!Entry
    <3>. QED BY <1>0, <2>3, <3>1, <3>2, <3>3 DEF Looked
  <2>. QED BY <2>4, <2>5, <2>6
<1>2. ASSUME NEW v \in Values, Key!Say(v) PROVE Looked'
  <2>1. /\ UNCHANGED <<messenger, where, job>>
        /\ \A m \in 1 .. Len(chat) : chat'[m] = chat[m]
    BY <1>0, <1>2, AppendProperties DEF Key!Say, Key!Frame
  <2>2. ASSUME NEW q \in Procs
        PROVE  /\ where'[q] \in Looking => Key!Current(q)' \in job'[q].todo
               /\ where'[q] \in Writing => Key!Entry(q)' \in Valid
    <3>1. Key!Current(q)' = Key!Current(q)
      BY <2>1, SameMessage
    <3>2. where[q] \in Looking => Key!Current(q) \in job[q].todo /\ Key!Current(q) \in 1 .. Len(chat)
      BY <1>0 DEF Looked
    <3>3. where[q] \in Looking => Key!Entry(q)' = Key!Entry(q)
      BY <2>1, <3>1, <3>2 DEF Key!Entry
    <3>. QED BY <1>0, <2>1, <3>1, <3>2, <3>3 DEF Looked, Looking, Writing
  <2>. QED BY <2>2 DEF Looked
<1>3. CASE UNCHANGED Key!vars
  BY <1>0, <1>3 DEF Key!vars, Looked, Key!Current, Key!Entry
<1>. QED BY <1>1, <1>2, <1>3 DEF Key!Next

\* A message that is looked at is exposed in silence only after two failures.
LEMMA ExposedStep ==
  ASSUME Key!KeyPromptAssumption, KeysIInv, [Key!Next]_Key!vars
  PROVE Exposed'
<1>0. /\ where \in [Procs -> Stands] /\ job \in [Procs -> Jobs] /\ Looked /\ Exposed
      /\ chat \in Seq(Values) /\ Len(chat) \in Nat /\ faults \in Nat
      /\ \A p \in Procs : job[p].todo \subseteq 1 .. Len(chat)
  BY LenProperties DEF KeysIInv, KeyKinds, Key!KeyPromptAssumption
<1>1. ASSUME NEW p \in Procs, Key!Get(p) \/ Key!Step(p) \/ Key!Deadline(p) \/ Key!Crash(p)
      PROVE  Exposed'
  <2>1. /\ UNCHANGED messenger /\ shown' \subseteq shown /\ warned \subseteq warned'
        /\ faults' \in {faults, faults + 1}
    BY <1>1, OwnStep
  <2>2. ASSUME NEW q \in Procs, q # p
        PROVE  /\ where'[q] = "warn" => Key!Current(q)' \notin shown' \/ faults' >= 1
               /\ where'[q] \in Looking \ {"warn"} =>
                    Key!Current(q)' \notin shown' \/ Key!Current(q)' \in warned' \/ faults' >= 2
    <3>1. where'[q] = where[q] /\ job'[q] = job[q]
      BY <1>0, <1>1, <2>2, OwnStep
    <3>2. Key!Current(q)' = Key!Current(q)
      BY <2>1, <3>1, SameMessage
    <3>3. (faults >= 1 => faults' >= 1) /\ (faults >= 2 => faults' >= 2)
      BY <1>0, <2>1
    <3>. QED BY <1>0, <2>1, <3>1, <3>2, <3>3 DEF Exposed
  <2>3. /\ where'[p] = "warn" => Key!Current(p)' \notin shown' \/ faults' >= 1
        /\ where'[p] \in Looking \ {"warn"} =>
             Key!Current(p)' \notin shown' \/ Key!Current(p)' \in warned' \/ faults' >= 2
    <3>1. CASE Key!Delete(p)
      <4>1. job'[p] = job[p]
        BY <1>0, <3>1 DEF Key!Delete, Key!Go
      <4>2. Key!Current(p)' = Key!Current(p)
        BY <2>1, <4>1, SameMessage
      <4>3. \/ Key!Current(p) \notin shown'
            \/ faults' >= 1 /\ where'[p] = "warn"
        BY <1>0, <3>1 DEF Key!Delete, Key!Go, Key!Works, Key!Fails
      <4>4. where'[p] \in {"warn", "validate"} /\ (where'[p] = "validate" => Key!Current(p) \notin shown')
        BY <1>0, <3>1 DEF Key!Delete, Key!Go
      <4>. QED BY <4>2, <4>3, <4>4
    <3>2. CASE Key!Warn(p)
      <4>1. job'[p] = job[p] \/ where'[p] = "idle"
        BY <1>0, <3>2 DEF Key!Warn, Key!Tell, Key!Go
      <4>2. job'[p] = job[p] => Key!Current(p)' = Key!Current(p)
        BY <2>1, SameMessage
      <4>3. Key!Current(p) \notin shown \/ faults >= 1
        BY <3>2, <1>0 DEF Key!Warn, Exposed
      <4>4. where'[p] \in {"validate", "idle"} /\ shown' = shown
        BY <1>0, <3>2 DEF Key!Warn, Key!Tell, Key!Go
      <4>5. Key!Current(p) \in warned' \/ faults' = faults + 1
        BY <1>0, <3>2, <2>1 DEF Key!Warn
      <4>6. faults >= 1 /\ faults' = faults + 1 => faults' >= 2
        BY <1>0
      <4>. QED BY <4>1, <4>2, <4>3, <4>4, <4>5, <4>6 DEF Looking
    <3>3. CASE ~Key!Delete(p) /\ ~Key!Warn(p) /\ where'[p] \in Looking
      <4>1. Key!Read(p) \/ Key!Truncate(p) \/ Key!Dump(p) \/ Key!Deadline(p)
        BY <1>0, <1>1, <3>3 DEF Key!Get, Key!Step, Key!Crash, Key!Ask, Key!Send, Key!Poll,
           Key!GiveUp, Key!ScanDone, Key!Reject, Key!Confirm, Key!Tell, Key!Go, Looking
      <4>2. /\ where[p] \in Looking \ {"warn"} /\ job'[p].todo = job[p].todo
        <5>1. CASE Key!Read(p)
          <6>1. job'[p] = [job[p] EXCEPT !.read = file]
            BY <1>0, <3>3, <5>1 DEF Key!Read, Key!Go, Looking
          <6>. QED BY <1>0, <5>1, <6>1, ZenonT(40) DEF Key!Read, Looking, Jobs
        <5>2. CASE Key!Truncate(p) \/ Key!Dump(p)
          BY <1>0, <5>2 DEF Key!Truncate, Key!Dump, Key!Go, Looking
        <5>3. CASE Key!Deadline(p)
          BY <1>0, <3>3, <5>3 DEF Key!Deadline, Looking
        <5>. QED BY <4>1, <5>1, <5>2, <5>3
      <4>3. Key!Current(p)' = Key!Current(p)
        BY <2>1, <4>2, SameMessage
      <4>4. where'[p] # "warn"
        BY <1>0, <4>1, <3>3 DEF Key!Read, Key!Truncate, Key!Dump, Key!Deadline, Key!Go,
           Looking
      <4>5. faults >= 2 => faults' >= 2
        BY <1>0, <2>1
      <4>. QED BY <1>0, <2>1, <4>2, <4>3, <4>4, <4>5 DEF Exposed
    <3>. QED BY <3>1, <3>2, <3>3 DEF Looking
  <2>. QED BY <2>2, <2>3 DEF Exposed
<1>2. ASSUME NEW v \in Values, Key!Say(v) PROVE Exposed'
  <2>1. UNCHANGED <<messenger, where, job, warned, faults>> /\ shown' = shown \cup {Len(chat) + 1}
    BY <1>2 DEF Key!Say, Key!Frame
  <2>2. ASSUME NEW q \in Procs, where[q] \in Looking
        PROVE  Key!Current(q)' = Key!Current(q) /\ Key!Current(q) # Len(chat) + 1
    <3>1. Key!Current(q) \in 1 .. Len(chat)
      BY <1>0, <2>2 DEF Looked
    <3>2. Key!Current(q)' = Key!Current(q)
      BY <2>1, SameMessage
    <3>. QED BY <1>0, <3>1, <3>2
  <2>. QED BY <1>0, <2>1, <2>2 DEF Exposed, Looking
<1>3. CASE UNCHANGED Key!vars
  BY <1>0, <1>3 DEF Key!vars, Exposed, Key!Current
<1>. QED BY <1>1, <1>2, <1>3 DEF Key!Next

\* The only one that rewrites the file has read all that was saved.
LEMMA SavedStep ==
  ASSUME Key!KeyPromptAssumption, KeysIInv, [Key!Next]_Key!vars
  PROVE Saved'
<1>0. /\ where \in [Procs -> Stands] /\ job \in [Procs -> Jobs] /\ Saved
      /\ torn \in BOOLEAN /\ raced \in BOOLEAN
  BY DEF KeysIInv, KeyKinds
<1>1. ASSUME UNCHANGED <<file, torn, saved>>, raced => raced',
             \A q \in Procs : where'[q] \in Writing => where[q] \in Writing /\ job'[q].read = job[q].read
      PROVE  Saved'
  BY <1>0, <1>1 DEF Saved, Key!SavedIsKept
<1>2. ASSUME NEW p \in Procs, Key!Read(p) PROVE Saved'
  <2>1. UNCHANGED <<file, torn, saved>>
    BY <1>2 DEF Key!Read
  <2>2. ASSUME NEW q \in Procs, q # p PROVE where'[q] = where[q] /\ job'[q] = job[q]
    BY <1>0, <1>2, <2>2 DEF Key!Read, Key!Go
  <2>3. CASE torn
    <3>1. where'[p] = "idle" /\ raced' = raced
      BY <1>0, <1>2, <2>3 DEF Key!Read, Key!Go
    <3>. QED BY <1>1, <2>1, <2>2, <3>1 DEF Writing
  <2>4. CASE ~torn /\ ~raced'
    <3>1. ~raced /\ \A q \in Procs \ {p} : where[q] \notin Writing
      BY <1>2, <2>4 DEF Key!Read, Writing
    <3>2. where'[p] = "truncate" /\ job'[p].read = file
      <4>1. Key!Go(p, "truncate", [job[p] EXCEPT !.read = file])
        BY <1>2, <2>4 DEF Key!Read
      <4>2. where'[p] = "truncate" /\ job'[p] = [job[p] EXCEPT !.read = file]
        BY <1>0, <4>1 DEF Key!Go
      <4>. QED BY <1>0, <4>2 DEF Jobs
    <3>3. saved \subseteq Key!Names(file)
      BY <1>0, <2>4, <3>1 DEF Saved, Key!SavedIsKept
    <3>. QED BY <1>0, <2>1, <2>2, <3>1, <3>2, <3>3 DEF Saved, Key!SavedIsKept
  <2>5. CASE raced'
    BY <2>5 DEF Saved, Key!SavedIsKept
  <2>. QED BY <2>3, <2>4, <2>5
<1>3. ASSUME NEW p \in Procs, Key!Truncate(p) PROVE Saved'
  <2>1. /\ where[p] = "truncate" /\ torn' = TRUE /\ UNCHANGED <<saved, raced>>
        /\ where'[p] = "dump" /\ job'[p] = job[p]
        /\ \A q \in Procs : q # p => where'[q] = where[q] /\ job'[q] = job[q]
    BY <1>0, <1>3 DEF Key!Truncate, Key!Go
  <2>. QED BY <1>0, <2>1 DEF Saved, Key!SavedIsKept, Writing
<1>4. ASSUME NEW p \in Procs, Key!Dump(p) PROVE Saved'
  <2>1. /\ where[p] = "dump" /\ raced' = raced /\ where'[p] = "confirm"
        /\ saved' = saved \cup {job[p].want}
        /\ file' = Key!Updated(job[p].read, {Key!Entry(p)})
        /\ \A q \in Procs : q # p => where'[q] = where[q] /\ job'[q] = job[q]
    BY <1>0, <1>4 DEF Key!Dump, Key!Go
  <2>2. Key!Names(job[p].read) \cup {job[p].want} \subseteq Key!Names(file')
    <3>1. Key!Entry(p)[1] = job[p].want /\ Key!Names({Key!Entry(p)}) = {job[p].want}
      BY DEF Key!Entry, Key!Names
    <3>2. Key!Entry(p) \in file'
      BY <2>1 DEF Key!Updated
    <3>3. job[p].want \in Key!Names(file')
      BY <3>1, <3>2 DEF Key!Names
    <3>4. ASSUME NEW e \in job[p].read PROVE e[1] \in Key!Names(file')
      <4>1. CASE e[1] = job[p].want
        BY <3>3, <4>1
      <4>2. CASE e[1] # job[p].want
        <5>1. e \in file'
          BY <2>1, <3>1, <4>2 DEF Key!Updated
        <5>. QED BY <5>1 DEF Key!Names
      <4>. QED BY <4>1, <4>2
    <3>. QED BY <3>3, <3>4 DEF Key!Names
  <2>3. ~raced => /\ saved \subseteq Key!Names(job[p].read)
                  /\ \A q \in Procs : q # p => where[q] \notin Writing
    BY <1>0, <2>1 DEF Saved, Writing
  <2>. QED BY <1>0, <2>1, <2>2, <2>3 DEF Saved, Key!SavedIsKept, Writing
<1>5. ASSUME NEW p \in Procs, Key!Crash(p) PROVE Saved'
  <2>1. UNCHANGED <<file, torn, saved>> /\ (raced => raced') /\ where'[p] = "idle"
        /\ \A q \in Procs : q # p => where'[q] = where[q] /\ job'[q] = job[q]
    BY <1>0, <1>5 DEF Key!Crash, Key!Go
  <2>. QED BY <1>1, <2>1 DEF Writing
<1>6. ASSUME NEW p \in Procs, Key!Get(p) \/ Key!Step(p) \/ Key!Deadline(p),
             ~Key!Read(p), ~Key!Truncate(p), ~Key!Dump(p)
      PROVE  Saved'
  <2>1. UNCHANGED <<file, torn, saved, raced>>
    BY <1>6 DEF Key!Get, Key!Step, Key!Deadline, Key!Ask, Key!Send, Key!Poll, Key!GiveUp,
       Key!ScanDone, Key!Delete, Key!Warn, Key!Reject, Key!Confirm, Key!FileFrame
  <2>2. \A q \in Procs : q # p => where'[q] = where[q] /\ job'[q] = job[q]
    BY <1>0, <1>6, OwnStep
  <2>3. where'[p] \in Writing => Key!Deadline(p)
    BY <1>0, <1>6 DEF Key!Get, Key!Step, Key!Ask, Key!Send, Key!Poll, Key!GiveUp,
       Key!ScanDone, Key!Delete, Key!Warn, Key!Reject, Key!Confirm, Key!Tell, Key!Go,
       Writing
  <2>4. Key!Deadline(p) => where'[p] \notin Writing
    BY <1>0 DEF Key!Deadline, Writing
  <2>. QED BY <1>1, <2>1, <2>2, <2>3, <2>4
<1>7. ASSUME NEW v \in Values, Key!Say(v) PROVE Saved'
  BY <1>1, <1>7 DEF Key!Say, Key!FileFrame
<1>8. CASE UNCHANGED Key!vars
  BY <1>1, <1>8 DEF Key!vars
<1>. QED BY <1>2, <1>3, <1>4, <1>5, <1>6, <1>7, <1>8 DEF Key!Next, Key!Step

\* The invariant of the prompts is inductive.
LEMMA KeysStep ==
  ASSUME Key!KeyPromptAssumption
  PROVE KeysIInv /\ [Key!Next]_Key!vars => KeysIInv'
BY KeyTypes, LookedStep, ExposedStep, SavedStep DEF KeysIInv

LEMMA KeysSound == ASSUME Key!KeyPromptAssumption PROVE KeysIInv => Key!PromptInv
<1>. SUFFICES ASSUME KeysIInv PROVE Key!PromptInv
  OBVIOUS
<1>1. Key!TypeOK
  <2>1. /\ Valid \subseteq KeyNames \X Values /\ Len(chat) \in Nat /\ MaxMessages \in Nat
        /\ chat \in Seq(Values) /\ Len(chat) <= MaxMessages
    BY LenProperties DEF KeysIInv, KeyKinds, Key!KeyPromptAssumption
  <2>2. shown \subseteq Key!Ids /\ warned \subseteq Key!Ids
    BY <2>1 DEF KeysIInv, KeyKinds, Key!Ids
  <2>3. /\ file \subseteq KeyNames \X Values
        /\ cache \in [Procs -> SUBSET (KeyNames \X Values)]
    BY <2>1 DEF KeysIInv, KeyKinds
  <2>4. ASSUME NEW p \in Procs
        PROVE  /\ job[p].since \in 0 .. Len(chat) /\ job[p].todo \subseteq 1 .. Len(chat)
               /\ job[p].read \subseteq KeyNames \X Values
    <3>1. /\ job[p].since \in Nat /\ job[p].since <= Len(chat)
          /\ job[p].todo \subseteq 1 .. Len(chat) /\ job[p].read \subseteq Valid
      BY DEF KeysIInv, KeyKinds, Jobs
    <3>. QED BY <2>1, <3>1
  <2>. QED BY <2>1, <2>2, <2>3, <2>4 DEF Key!TypeOK, KeysIInv, KeyKinds
<1>2. Key!StoredKeysFit
  BY DEF KeysIInv, KeyKinds, Key!StoredKeysFit
<1>3. Key!ExposedIsWarned
  <2>. SUFFICES ASSUME faults <= 1, NEW p \in Procs, where[p] \in {"truncate", "dump", "confirm"}
                PROVE  Key!Current(p) \notin shown \ warned
    BY DEF Key!ExposedIsWarned
  <2>1. faults \in Nat /\ ~(faults >= 2)
    BY DEF KeysIInv, KeyKinds, Key!KeyPromptAssumption
  <2>. QED BY <2>1 DEF KeysIInv, Exposed, Looking
<1>. QED BY <1>1, <1>2, <1>3 DEF Key!PromptInv, KeysIInv, Saved

\* A step beside the prompts leaves them alone.
LEMMA KeysFrame == [MCNext]_all => [Key!Next]_Key!vars
BY DEF MCNext, all, keys, Key!vars

\* However prompts for keys interleave, what is stored or cached fits its name,
\* one failure leaves no key exposed in silence, and a key that was saved stays
\* unless two saves overlapped or one was cut short, for any processes, names,
\* values, messages and failures.
THEOREM KeysSafety == ASSUME Key!KeyPromptAssumption PROVE MCSpec => []PromptInv
<1>1. MCInit => Key!Init
  BY DEF MCInit
<1>. QED BY <1>1, KeysInitially, KeysStep, KeysSound, KeysFrame, PTL DEF MCSpec, PromptInv

=============================================================================
