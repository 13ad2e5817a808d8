---------------------------- MODULE SchedulerProofs ----------------------------
(***************************************************************************)
(* Proofs about Scheduler for any roles and priorities, any number of      *)
(* slots, any crash threshold and any number of issues and faults; and     *)
(* about MessageStore, which the processes it spawns share, for any        *)
(* number of agents and messages and any limits.                           *)
(***************************************************************************)
EXTENDS Scheduler, MCStores, FiniteSetTheorems, SequenceTheorems, TLAPS

\* The count of free slots is taken before the first spawn and stays true: no
\* process comes but through Register, and those that go only free more.
SlotsCounted ==
  /\ Cardinality(Active) <= MaxSlots
  /\ popped # None <=> pc = "register"
  /\ pc \in {"spawn", "register"} => available + Cardinality(Active) <= MaxSlots
  /\ pc = "register" => available > 0

\* What is popped no longer waits.
PoppedHasLeft == QueuedAreIdleAndReady /\ popped \notin Queued

\* A signal during the sleep empties the table, and the loop ends before it can
\* be filled again.
StoppedAsleep ==
  cut = "sleep" => ~running /\ Active = {} /\ pc \in {"sleep", "halted"}

IInv == TypeOK /\ SlotsCounted /\ PoppedHasLeft /\ StoppedAsleep

-----------------------------------------------------------------------------
(* Roles and queues                                                        *)

\* Any set of roles is finite, and an element more or less counts for one.
LEMMA RolesFinite ==
  ASSUME NEW S \in SUBSET Roles
  PROVE  /\ IsFiniteSet(S) /\ Cardinality(S) \in Nat
         /\ \A r : Cardinality(S \cup {r}) <= Cardinality(S) + 1
         /\ \A T \in SUBSET S : Cardinality(T) <= Cardinality(S)
<1>1. IsFiniteSet(Roles)
  <2>1. AgentMap \in [1..Len(AgentMap) -> STRING] /\ Len(AgentMap) \in Nat
    BY SchedulerAssumption, LenProperties
  <2>2. AgentMap \in Surjection(1..Len(AgentMap), Roles)
    BY <2>1 DEF Surjection, Roles, Range
  <2>. QED BY <2>1, <2>2, FS_Surjection, FS_Interval
<1>2. IsFiniteSet(S)
  BY <1>1, FS_Subset
<1>. QED BY <1>2, FS_CardinalityType, FS_AddElement, FS_Subset

\* A role is at some place of the map.
LEMMA RoleInMap == \A r \in Roles : \E i \in DOMAIN AgentMap : r = AgentMap[i]
BY DEF Roles, Range

\* Removing one place of a queue without repetitions removes its role.
LEMMA RemovedAt ==
  ASSUME NEW s \in Seq(Roles), IsInjective(s), NEW i \in DOMAIN s
  PROVE  /\ RemoveAt(s, i) \in Seq(Roles)
         /\ IsInjective(RemoveAt(s, i))
         /\ Range(RemoveAt(s, i)) \subseteq Range(s)
         /\ s[i] \in Range(s) /\ s[i] \in Roles
         /\ s[i] \notin Range(RemoveAt(s, i))
<1>. DEFINE a == SubSeq(s, 1, i - 1)
            b == SubSeq(s, i + 1, Len(s))
            r == RemoveAt(s, i)
<1>1. /\ Len(s) \in Nat /\ DOMAIN s = 1..Len(s) /\ i \in 1..Len(s)
      /\ \A k \in 1..Len(s) : s[k] \in Roles
  BY LenProperties, ElementOfSeq
<1>2. /\ a \in Seq(Roles) /\ Len(a) = i - 1
      /\ \A k \in 1..(i - 1) : a[k] = s[k]
  <2>1. 1 \in Int /\ i - 1 \in Int /\ \A k \in 1..(i - 1) : s[k] \in Roles
    BY <1>1
  <2>2. /\ a \in Seq(Roles)
        /\ Len(a) = IF 1 <= i - 1 THEN i - 1 - 1 + 1 ELSE 0
        /\ \A k \in 1..(i - 1 - 1 + 1) : a[k] = s[1 + k - 1]
    BY <2>1, SubSeqProperties
  <2>3. \A k \in 1..(i - 1) : k \in 1..(i - 1 - 1 + 1) /\ 1 + k - 1 = k
    BY <1>1
  <2>. QED BY <1>1, <2>2, <2>3
<1>3. /\ b \in Seq(Roles) /\ Len(b) = Len(s) - i
      /\ \A k \in 1..(Len(s) - i) : b[k] = s[i + k]
  <2>1. i + 1 \in Int /\ Len(s) \in Int /\ \A k \in (i + 1)..Len(s) : s[k] \in Roles
    BY <1>1
  <2>2. /\ b \in Seq(Roles)
        /\ Len(b) = IF i + 1 <= Len(s) THEN Len(s) - (i + 1) + 1 ELSE 0
        /\ \A k \in 1..(Len(s) - (i + 1) + 1) : b[k] = s[i + 1 + k - 1]
    BY <2>1, SubSeqProperties
  <2>3. \A k \in 1..(Len(s) - i) : k \in 1..(Len(s) - (i + 1) + 1) /\ i + 1 + k - 1 = i + k
    BY <1>1
  <2>. QED BY <1>1, <2>2, <2>3
<1>4. /\ r \in Seq(Roles) /\ Len(r) = Len(s) - 1
      /\ \A k \in 1..(Len(s) - 1) : r[k] = IF k < i THEN s[k] ELSE s[k + 1]
  <2>. HIDE DEF a, b
  <2>1. /\ r \in Seq(Roles) /\ Len(r) = Len(a) + Len(b)
        /\ \A k \in 1..(Len(a) + Len(b)) :
             r[k] = IF k <= Len(a) THEN a[k] ELSE b[k - Len(a)]
    BY <1>2, <1>3, ConcatProperties DEF RemoveAt, a, b
  <2>2. Len(a) + Len(b) = Len(s) - 1
    BY <1>1, <1>2, <1>3
  <2>3. ASSUME NEW k \in 1..(Len(s) - 1)
        PROVE  r[k] = IF k < i THEN s[k] ELSE s[k + 1]
    <3>1. CASE k < i
      <4>1. k <= Len(a) /\ k \in 1..(i - 1) /\ k \in 1..(Len(a) + Len(b))
        BY <1>1, <1>2, <2>2, <3>1
      <4>. QED BY <1>2, <2>1, <3>1, <4>1
    <3>2. CASE ~(k < i)
      <4>1. k \in 1..(Len(a) + Len(b))
        BY <2>2
      <4>2. ~(k <= i - 1) /\ k - (i - 1) \in 1..(Len(s) - i) /\ i + (k - (i - 1)) = k + 1
        BY <1>1, <3>2
      <4>. QED BY <1>2, <1>3, <2>1, <3>2, <4>1, <4>2, SMTT(30)
    <3>. QED BY <3>1, <3>2
  <2>. QED BY <2>1, <2>2, <2>3
<1>. HIDE DEF r
<1>5. DOMAIN r = 1..(Len(s) - 1)
  BY <1>4, LenProperties
<1>. DEFINE place(k) == IF k < i THEN k ELSE k + 1
<1>6. \A k \in DOMAIN r : place(k) \in DOMAIN s /\ place(k) # i /\ r[k] = s[place(k)]
  BY <1>1, <1>4, <1>5
<1>7. \A k, l \in DOMAIN r : place(k) = place(l) => k = l
  BY <1>1, <1>5
<1>. HIDE DEF place
<1>8. IsInjective(r)
  BY <1>6, <1>7 DEF IsInjective
<1>9. Range(r) \subseteq Range(s) /\ s[i] \notin Range(r)
  BY <1>6 DEF Range, IsInjective
<1>. QED BY <1>1, <1>4, <1>8, <1>9 DEF Range, r

\* Roles in the order of the map repeat none.
LEMMA MapOrderInjective ==
  ASSUME NEW n \in Nat, NEW S \in SUBSET Roles, NEW s \in [1..n -> S], InMapOrder(s)
  PROVE  IsInjective(s)
<1>. SUFFICES ASSUME NEW x \in 1..n, NEW y \in 1..n, s[x] = s[y], x < y PROVE FALSE
  BY DEF IsInjective
<1>1. PICK i \in DOMAIN AgentMap : s[x] = AgentMap[i]
  BY RoleInMap
<1>2. i < i
  BY <1>1 DEF InMapOrder
<1>. QED BY <1>2, SchedulerAssumption, LenProperties

\* Appending roles that do not wait yet, each once, keeps a queue without
\* repetitions.
LEMMA Enqueued ==
  ASSUME NEW s \in Seq(Roles), IsInjective(s),
         NEW n \in Nat, NEW S \in SUBSET Roles, S \cap Range(s) = {},
         NEW a \in [1..n -> S], IsInjective(a)
  PROVE  /\ s \o a \in Seq(Roles) /\ IsInjective(s \o a)
         /\ Range(s \o a) \subseteq Range(s) \cup S
<1>. DEFINE q == s \o a
<1>1. /\ Len(s) \in Nat /\ DOMAIN s = 1..Len(s)
      /\ \A k \in 1..Len(s) : s[k] \in Range(s)
  BY LenProperties DEF Range
<1>2. a \in Seq(Roles) /\ Len(a) = n /\ \A k \in 1..n : a[k] \in S
  OBVIOUS
<1>3. /\ q \in Seq(Roles) /\ Len(q) = Len(s) + n
      /\ \A k \in 1..(Len(s) + n) : q[k] = IF k <= Len(s) THEN s[k] ELSE a[k - Len(s)]
  BY <1>2, ConcatProperties
<1>4. DOMAIN q = 1..(Len(s) + n)
  BY <1>3, LenProperties
<1>. HIDE DEF q
<1>5. ASSUME NEW k \in 1..(Len(s) + n)
      PROVE  \/ k \in 1..Len(s) /\ q[k] = s[k]
             \/ ~(k <= Len(s)) /\ k - Len(s) \in 1..n /\ q[k] = a[k - Len(s)]
  BY <1>1, <1>3
<1>6. IsInjective(q)
  <2>. SUFFICES ASSUME NEW k \in 1..(Len(s) + n), NEW l \in 1..(Len(s) + n), q[k] = q[l]
                PROVE  k = l
    BY <1>4 DEF IsInjective
  <2>1. CASE k \in 1..Len(s) /\ l \in 1..Len(s)
    BY <1>1, <1>5, <2>1 DEF IsInjective
  <2>2. CASE ~(k <= Len(s)) /\ ~(l <= Len(s))
    <3>1. k - Len(s) \in 1..n /\ l - Len(s) \in 1..n /\ a[k - Len(s)] = a[l - Len(s)]
      BY <1>5, <2>2
    <3>2. k - Len(s) = l - Len(s)
      BY <3>1 DEF IsInjective
    <3>. QED BY <1>1, <3>2
  <2>3. CASE k \in 1..Len(s) /\ ~(l <= Len(s))
    BY <1>1, <1>2, <1>5, <2>3
  <2>4. CASE ~(k <= Len(s)) /\ l \in 1..Len(s)
    BY <1>1, <1>2, <1>5, <2>4
  <2>. QED BY <1>1, <2>1, <2>2, <2>3, <2>4
<1>7. Range(q) \subseteq Range(s) \cup S
  BY <1>1, <1>2, <1>4, <1>5 DEF Range
<1>. QED BY <1>3, <1>6, <1>7 DEF q

-----------------------------------------------------------------------------
(* The steps                                                               *)

LEMMA InitIInv == Init => IInv
<1>. SUFFICES ASSUME Init PROVE IInv
  OBVIOUS
<1>1. TypeOK
  <2>1. queue \in Seq(Roles)
    BY EmptySeq DEF Init
  <2>2. /\ board \in [Roles -> {None, "todo"}]
        /\ proc \in [Roles -> {None, "running", "ok", "crashed"}]
    BY DEF Init
  <2>3. failures \in [Roles -> 0..Threshold] /\ available \in 0..MaxSlots
    BY SchedulerAssumption DEF Init
  <2>4. overdue \subseteq Active /\ cooling \subseteq Roles /\ pending \subseteq Roles
    BY DEF Init
  <2>5. /\ paused \in BOOLEAN /\ pressure \in {"low", "mid", "high"} /\ running \in BOOLEAN
        /\ pc = "boot" /\ popped = None /\ cut = None
    BY DEF Init
  <2>. QED BY <2>1, <2>2, <2>3, <2>4, <2>5 DEF TypeOK
<1>2. SlotsCounted
  <2>1. Active = {}
    BY DEF Init, Active
  <2>. QED BY <2>1, FS_EmptySet, SchedulerAssumption DEF Init, SlotsCounted
<1>3. PoppedHasLeft
  BY DEF Init, PoppedHasLeft, QueuedAreIdleAndReady, Queued, Range, IsInjective
<1>4. StoppedAsleep
  BY DEF Init, StoppedAsleep, None
<1>. QED BY <1>1, <1>2, <1>3, <1>4 DEF IInv

\* What Spawn does to the queue.
LEMMA SpawnPops ==
  ASSUME TypeOK, QueuedAreIdleAndReady, Spawn
  PROVE  /\ queue' \in Seq(Roles) /\ IsInjective(queue') /\ Queued' \subseteq Queued
         /\ \/ /\ popped' \in Queued /\ popped' \in Roles /\ popped' \notin Queued'
               /\ pc' = "register"
            \/ UNCHANGED <<popped, pc>>
<1>1. queue \in Seq(Roles) /\ IsInjective(queue)
  BY DEF TypeOK, QueuedAreIdleAndReady
<1>2. PICK i \in DOMAIN queue :
        /\ queue' = RemoveAt(queue, i)
        /\ \/ popped' = queue[i] /\ pc' = "register"
           \/ UNCHANGED <<popped, pc>>
  BY DEF Spawn
<1>. QED BY <1>1, <1>2, RemovedAt DEF Queued

\* What EnqueuePending does to it.
LEMMA EnqueueAppends ==
  ASSUME TypeOK, QueuedAreIdleAndReady, EnqueuePending
  PROVE  /\ queue' \in Seq(Roles) /\ IsInjective(queue')
         /\ Queued' \subseteq Queued \cup Admitted
<1>1. queue \in Seq(Roles) /\ IsInjective(queue)
  BY DEF TypeOK, QueuedAreIdleAndReady
<1>2. Admitted \in SUBSET Roles /\ Admitted \cap Range(queue) = {}
  BY DEF TypeOK, Admitted, Queued
<1>3. Cardinality(Admitted) \in Nat
  BY <1>2, RolesFinite
<1>4. PICK s \in [1..Cardinality(Admitted) -> Admitted] :
        InMapOrder(s) /\ queue' = queue \o s
  BY DEF EnqueuePending
<1>5. IsInjective(s)
  BY <1>2, <1>3, <1>4, MapOrderInjective
<1>. QED BY <1>1, <1>2, <1>3, <1>4, <1>5, Enqueued DEF Queued

\* Every step keeps the types.
LEMMA TypeStep == IInv /\ [Next]_vars => TypeOK'
<1>. SUFFICES ASSUME IInv, [Next]_vars PROVE TypeOK'
  OBVIOUS
<1>. USE SchedulerAssumption DEF TypeOK, Active
<1>t. TypeOK /\ SlotsCounted /\ QueuedAreIdleAndReady
  BY DEF IInv, PoppedHasLeft
<1>1. CASE Run \/ Wake \/ TickEnds
  <2>1. CASE Run
    BY <2>1, <1>t DEF Run, tables, health, memory, locals
  <2>2. CASE Wake
    BY <2>2, <1>t DEF Wake, tables, health, memory, locals
  <2>3. CASE TickEnds
    BY <2>3, <1>t DEF TickEnds, tables, health, memory
  <2>. QED BY <1>1, <2>1, <2>2, <2>3
<1>1p. CASE PollPendingTasks
  <2>1. pending' \subseteq Roles
    BY <1>1p DEF PollPendingTasks
  <2>. QED BY <1>1p, <1>t, <2>1 DEF PollPendingTasks, tables, health, memory
<1>1m. CASE CheckMemoryPressure
  <2>1. paused' \in BOOLEAN /\ pc' \in {"sleep", "poll"}
    BY <1>1m DEF CheckMemoryPressure
  <2>. QED BY <1>1m, <1>t, <2>1 DEF CheckMemoryPressure, tables, health, locals
<1>2. CASE HandleFinished
  <2>1. failures' \in [Roles -> 0..Threshold] /\ cooling' \subseteq Roles
    BY <1>2, <1>t DEF HandleFinished
  <2>2. proc' \in [Roles -> {None, "running", "ok", "crashed"}] /\ overdue' \subseteq Active'
    BY <1>2, <1>t DEF HandleFinished, Exited
  <2>. QED BY <1>2, <1>t, <2>1, <2>2 DEF HandleFinished, memory, locals
<1>3. CASE HandleTimeouts
  <2>1. failures' \in [Roles -> 0..Threshold] /\ cooling' \subseteq Roles
    BY <1>3, <1>t DEF HandleTimeouts, Failed
  <2>. QED BY <1>3, <1>t, <2>1 DEF HandleTimeouts, memory, locals
<1>4. CASE EnqueuePending
  <2>1. available' \in 0..MaxSlots
    <3>1. Cardinality(Active) \in Nat
      BY RolesFinite DEF Active
    <3>. QED BY <1>4, <1>t, <3>1 DEF EnqueuePending, SlotsCounted
  <2>2. queue' \in Seq(Roles)
    BY <1>4, <1>t, EnqueueAppends
  <2>. QED BY <1>4, <1>t, <2>1, <2>2 DEF EnqueuePending, tables, health, memory
<1>5. CASE Spawn
  <2>1. queue' \in Seq(Roles) /\ popped' \in Roles \cup {None}
           /\ pc' \in {"register", "spawn"}
    BY <1>5, <1>t, SpawnPops DEF Spawn
  <2>. QED BY <1>5, <1>t, <2>1 DEF Spawn, tables, health, memory
<1>6. CASE Register
  <2>1. proc' \in [Roles -> {None, "running", "ok", "crashed"}]
    BY <1>6, <1>t DEF Register
  <2>2. overdue' \subseteq Active'
    BY <1>6, <1>t DEF Register, None
  <2>3. available' \in 0..MaxSlots
    BY <1>6, <1>t DEF Register, SlotsCounted
  <2>. QED BY <1>6, <1>t, <2>1, <2>2, <2>3 DEF Register, health, memory
<1>7. CASE Stop
  BY <1>7, <1>t DEF Stop, health, memory, locals, bounds
<1>8. ASSUME NEW r \in Roles, Arrive(r) PROVE TypeOK'
  BY <1>8, <1>t DEF Arrive, tables, health, memory, locals
<1>9. ASSUME NEW r \in Roles, Take(r) PROVE TypeOK'
  BY <1>9, <1>t DEF Take, tables, health, memory, locals
<1>10. ASSUME NEW r \in Roles, Exit(r) PROVE TypeOK'
  BY <1>10, <1>t DEF Exit, health, memory, locals, None
<1>11. ASSUME NEW r \in Roles, TimePasses(r) \/ BackoffEnds(r) PROVE TypeOK'
  BY <1>11, <1>t DEF TimePasses, BackoffEnds, tables, health, memory, locals, None
<1>12. CASE PressureChanges \/ PressureFalls
  BY <1>12, <1>t DEF PressureChanges, PressureFalls, tables, health, locals
<1>13. CASE UNCHANGED vars
  BY <1>13, <1>t DEF vars, tables, health, memory, locals
<1>. QED
  BY <1>1, <1>1p, <1>1m, <1>2, <1>3, <1>4, <1>5, <1>6, <1>7, <1>8, <1>9, <1>10, <1>11,
     <1>12, <1>13
     DEF Next, Tick

\* Processes only end, but for the one that Register enters.
LEMMA TableShrinks ==
  ASSUME TypeOK, [Next]_vars, ~Register PROVE Active' \subseteq Active
<1>1. ASSUME NEW r \in Roles, Exit(r) PROVE Active' \subseteq Active
  BY <1>1 DEF Exit, Active, TypeOK, None
<1>2. CASE HandleFinished \/ HandleTimeouts \/ Stop
  BY <1>2 DEF HandleFinished, HandleTimeouts, Stop, Active, TypeOK
<1>3. CASE UNCHANGED proc
  BY <1>3 DEF Active
<1>. QED
  BY <1>1, <1>2, <1>3
     DEF Next, Tick, Run, Wake, CheckMemoryPressure, PollPendingTasks, EnqueuePending,
         Spawn, TickEnds, Arrive, Take, TimePasses, BackoffEnds, PressureChanges,
         PressureFalls, vars, tables

\* Every step keeps SlotsCounted.
LEMMA SlotsStep == IInv /\ [Next]_vars => SlotsCounted'
<1>. SUFFICES ASSUME IInv, [Next]_vars PROVE SlotsCounted'
  OBVIOUS
<1>. USE DEF SlotsCounted
<1>t. /\ TypeOK /\ SlotsCounted /\ QueuedAreIdleAndReady
      /\ available \in Nat /\ MaxSlots \in Nat /\ popped \in Roles \cup {None}
      /\ None \notin Roles
  BY SchedulerAssumption DEF IInv, TypeOK, PoppedHasLeft
<1>c. /\ Active \in SUBSET Roles
      /\ Cardinality(Active) \in Nat /\ Cardinality(Active') \in Nat
      /\ ~Register => Cardinality(Active') <= Cardinality(Active)
  <2>1. Active \in SUBSET Roles /\ Active' \in SUBSET Roles
    BY DEF Active
  <2>2. ~Register => Active' \in SUBSET Active
    BY <1>t, TableShrinks
  <2>. QED BY <2>1, <2>2, RolesFinite
<1>1. ASSUME ~Register, UNCHANGED <<popped, pc, available>> PROVE SlotsCounted'
  BY <1>t, <1>c, <1>1
<1>2. ASSUME ~Register, UNCHANGED popped, pc # "register",
             pc' \notin {"spawn", "register"}
      PROVE  SlotsCounted'
  BY <1>t, <1>c, <1>2
<1>3. CASE Run \/ Wake \/ HandleFinished \/ HandleTimeouts \/ CheckMemoryPressure
             \/ PollPendingTasks \/ TickEnds
  BY <1>2, <1>3 DEF Run, Wake, HandleFinished, HandleTimeouts, CheckMemoryPressure,
                    PollPendingTasks, TickEnds, Register, locals
<1>4. CASE EnqueuePending
  <2>1. available' + Cardinality(Active') <= MaxSlots
    <3>1. available' = MaxSlots - Cardinality(Active) /\ Active' = Active
      BY <1>4 DEF EnqueuePending, tables, Active
    <3>. QED BY <1>t, <1>c, <3>1
  <2>2. pc = "enqueue" /\ pc' = "spawn" /\ popped' = popped /\ Active' = Active
    BY <1>4 DEF EnqueuePending, tables, Active
  <2>. QED BY <1>t, <2>1, <2>2
<1>5. CASE Spawn
  <2>1. /\ pc = "spawn" /\ available > 0 /\ available' = available
        /\ Active' = Active
    BY <1>5 DEF Spawn, tables, Active
  <2>2. \/ popped' \in Roles /\ pc' = "register"
        \/ UNCHANGED <<popped, pc>>
    BY <1>5, <1>t, SpawnPops
  <2>. QED BY <1>t, <2>1, <2>2
<1>6. CASE Register
  <2>1. /\ pc = "register" /\ pc' = "spawn" /\ popped' = None
        /\ available' = available - 1
        /\ proc' = [proc EXCEPT ![popped] = "running"]
    BY <1>6 DEF Register
  <2>2. Active' \in SUBSET (Active \cup {popped})
    BY <1>t, <2>1 DEF Active, TypeOK
  <2>3. popped \in Roles
    BY <1>t, <2>1
  <2>4. Cardinality(Active') <= Cardinality(Active) + 1
    <3>1. /\ Active \cup {popped} \in SUBSET Roles
          /\ Cardinality(Active \cup {popped}) \in Nat
      BY <1>c, <2>3, RolesFinite
    <3>2. /\ Cardinality(Active') <= Cardinality(Active \cup {popped})
          /\ Cardinality(Active \cup {popped}) <= Cardinality(Active) + 1
      BY <1>c, <2>2, <3>1, RolesFinite
    <3>. QED BY <1>c, <3>1, <3>2
  <2>. QED BY <1>t, <1>c, <2>1, <2>4
<1>7. CASE Stop
  BY <1>1, <1>7, <1>t DEF Stop, locals, Register
<1>8. ASSUME NEW r \in Roles,
             Arrive(r) \/ Take(r) \/ Exit(r) \/ TimePasses(r) \/ BackoffEnds(r)
      PROVE  UNCHANGED <<popped, pc, available>>
  BY <1>8 DEF Arrive, Take, Exit, TimePasses, BackoffEnds, locals
<1>9. CASE PressureChanges \/ PressureFalls \/ UNCHANGED vars
  BY <1>1, <1>6, <1>9 DEF PressureChanges, PressureFalls, vars, locals
<1>. QED
  BY <1>1, <1>3, <1>4, <1>5, <1>6, <1>7, <1>8, <1>9 DEF Next, Tick

\* Every step keeps PoppedHasLeft: what is done to processes and backoffs is done
\* to roles that do not wait.
LEMMA QueueStep == IInv /\ [Next]_vars => PoppedHasLeft'
<1>. SUFFICES ASSUME IInv, [Next]_vars PROVE PoppedHasLeft'
  OBVIOUS
<1>. USE DEF PoppedHasLeft, QueuedAreIdleAndReady, Queued
<1>t. /\ TypeOK /\ PoppedHasLeft /\ QueuedAreIdleAndReady
      /\ popped # None <=> pc = "register"
      /\ None \notin Roles
      /\ Queued \subseteq Roles
  <2>1. Range(queue) \subseteq Roles
    BY LenProperties, ElementOfSeq DEF IInv, TypeOK, Range
  <2>. QED BY <2>1, SchedulerAssumption DEF IInv, SlotsCounted
<1>1. CASE /\ UNCHANGED <<queue, popped>>
           /\ \A r \in Roles : proc[r] = None => proc'[r] = None
           /\ \A r \in Roles : proc[r] = None /\ IsReady(r) => IsReady(r)'
  BY <1>1, <1>t DEF TypeOK
<1>2. CASE UNCHANGED <<queue, popped, proc, failures, cooling>>
  BY <1>2, <1>t DEF IsReady, IsHealthy
<1>3. CASE HandleFinished
  <2>1. \A r \in Roles : proc[r] = None => proc'[r] = None
    BY <1>3 DEF HandleFinished
  <2>2. ASSUME NEW r \in Roles, proc[r] = None, IsReady(r) PROVE IsReady(r)'
    <3>1. failures'[r] = failures[r]
      BY <1>3, <2>2 DEF HandleFinished, None
    <3>2. r \notin cooling => r \notin cooling'
      BY <1>3, <2>2 DEF HandleFinished, None
    <3>. QED BY <2>2, <3>1, <3>2 DEF IsReady, IsHealthy
  <2>3. UNCHANGED <<queue, popped>>
    BY <1>3 DEF HandleFinished, locals
  <2>. QED BY <1>1, <2>1, <2>2, <2>3
<1>4. CASE HandleTimeouts
  <2>1. \A r \in Roles : proc[r] = None => proc'[r] = None
    BY <1>4 DEF HandleTimeouts
  <2>2. ASSUME NEW r \in Roles, proc[r] = None, IsReady(r) PROVE IsReady(r)'
    <3>1. r \notin overdue
      BY <1>t, <2>2 DEF TypeOK, Active
    <3>2. failures'[r] = failures[r]
      BY <1>4, <3>1 DEF HandleTimeouts, Failed
    <3>3. r \notin cooling => r \notin cooling'
      BY <1>4, <3>1 DEF HandleTimeouts, Failed
    <3>. QED BY <2>2, <3>2, <3>3 DEF IsReady, IsHealthy
  <2>3. UNCHANGED <<queue, popped>>
    BY <1>4 DEF HandleTimeouts, locals
  <2>. QED BY <1>1, <2>1, <2>2, <2>3
<1>5. CASE Stop
  BY <1>1, <1>5 DEF Stop, health, locals, IsReady, IsHealthy
<1>6. ASSUME NEW r \in Roles, BackoffEnds(r) PROVE PoppedHasLeft'
  BY <1>1, <1>6 DEF BackoffEnds, tables, locals, IsReady, IsHealthy
<1>7. ASSUME NEW r \in Roles, Exit(r) PROVE PoppedHasLeft'
  <2>1. \A q \in Roles : proc[q] = None => proc'[q] = None
    BY <1>7 DEF Exit, None, TypeOK
  <2>. QED BY <1>1, <1>7, <2>1 DEF Exit, health, locals, IsReady, IsHealthy
<1>8. CASE EnqueuePending
  <2>1. IsInjective(queue') /\ Queued' \subseteq Queued \cup Admitted
    BY <1>8, <1>t, EnqueueAppends
  <2>2. /\ popped = None /\ popped' = None
        /\ UNCHANGED <<proc, failures, cooling>>
    BY <1>8, <1>t DEF EnqueuePending, tables, health
  <2>3. \A r \in Admitted : r \in Roles /\ proc[r] = None /\ IsReady(r)
    BY <1>t DEF Admitted, TypeOK
  <2>. QED BY <1>t, <2>1, <2>2, <2>3 DEF IsReady, IsHealthy
<1>9. CASE Spawn
  <2>1. /\ IsInjective(queue') /\ Queued' \subseteq Queued
        /\ \/ popped' \in Queued /\ popped' \notin Queued'
           \/ UNCHANGED popped
    BY <1>9, <1>t, SpawnPops
  <2>2. UNCHANGED <<proc, failures, cooling>>
    BY <1>9 DEF Spawn, tables, health
  <2>. QED BY <1>t, <2>1, <2>2 DEF IsReady, IsHealthy
<1>10. CASE Register
  <2>1. /\ popped \notin Queued /\ popped' = None /\ queue' = queue
        /\ proc' = [proc EXCEPT ![popped] = "running"]
        /\ UNCHANGED <<failures, cooling>>
    BY <1>10, <1>t DEF Register, health
  <2>. QED BY <1>t, <2>1 DEF IsReady, IsHealthy, TypeOK
<1>11. CASE UNCHANGED <<queue, proc, health, popped>>
  BY <1>2, <1>11 DEF health
<1>. QED
  BY <1>3, <1>4, <1>5, <1>6, <1>7, <1>8, <1>9, <1>10, <1>11
     DEF Next, Tick, Run, Wake, CheckMemoryPressure, PollPendingTasks, TickEnds, Arrive,
         Take, TimePasses, PressureChanges, PressureFalls, tables, locals, vars

\* Every step keeps StoppedAsleep.
LEMMA StopStep == IInv /\ [Next]_vars => StoppedAsleep'
<1>. SUFFICES ASSUME IInv, [Next]_vars, cut' = "sleep"
              PROVE  ~running' /\ Active' = {} /\ pc' \in {"sleep", "halted"}
  BY DEF StoppedAsleep
<1>t. TypeOK /\ StoppedAsleep
  BY DEF IInv
<1>1. CASE Stop
  BY <1>1 DEF Stop, Active
<1>2. CASE ~Stop
  <2>1. cut' = cut
    BY <1>2 DEF Next, Tick, Run, Wake, HandleFinished, HandleTimeouts,
         CheckMemoryPressure, PollPendingTasks, EnqueuePending, Spawn, Register, TickEnds,
         Arrive, Take, Exit, TimePasses, BackoffEnds, PressureChanges, PressureFalls, vars
  <2>2. ~running /\ Active = {} /\ pc \in {"sleep", "halted"}
    BY <1>t, <2>1 DEF StoppedAsleep
  <2>3. \A r \in Roles : ~Exit(r)
    BY <2>2 DEF Exit, Active, None
  <2>4. UNCHANGED <<proc, running>> /\ pc' \in {"sleep", "halted"}
    BY <1>2, <2>2, <2>3 DEF Next, Tick, Run, Wake, HandleFinished, HandleTimeouts,
         CheckMemoryPressure, PollPendingTasks, EnqueuePending, Spawn, Register, TickEnds,
         Arrive, Take, TimePasses, BackoffEnds, PressureChanges, PressureFalls, vars,
         tables
  <2>. QED BY <2>2, <2>4 DEF Active
<1>. QED BY <1>1, <1>2

-----------------------------------------------------------------------------
\* The inductive invariant holds in every behaviour.
THEOREM Invariance == Spec => []IInv
<1>1. IInv /\ [Next]_vars => IInv'
  BY TypeStep, SlotsStep, QueueStep, StopStep DEF IInv
<1>. QED BY InitIInv, <1>1, PTL DEF Spec

\* The concurrency budget holds at every moment, also with the process that is
\* started and not yet in the table, wherever a signal falls.
THEOREM BudgetHolds == Spec => []SlotsRespected
<1>1. ASSUME IInv PROVE SlotsRespected
  <2>1. /\ Cardinality(Active) \in Nat /\ MaxSlots \in Nat /\ available \in Nat
        /\ SlotsCounted
    BY <1>1, RolesFinite, SchedulerAssumption DEF IInv, TypeOK, Active
  <2>. QED BY <2>1 DEF SlotsCounted, SlotsRespected
<1>. QED BY Invariance, <1>1, PTL

\* The slots hold, what waits is idle and ready, and a stop during the sleep leaves
\* no process, for any roles, priorities, budget and threshold.
THEOREM Safety == Spec => []SchedulerInv
<1>1. IInv => TypeOK /\ QueuedAreIdleAndReady /\ StopAsleepLeavesNothing
  BY DEF IInv, PoppedHasLeft, StoppedAsleep, StopAsleepLeavesNothing
<1>. QED BY Invariance, BudgetHolds, <1>1, PTL DEF SchedulerInv

-----------------------------------------------------------------------------
(* The message store: the inductive invariant                              *)

Turns == {"start", "import", "idle", "insert", "count", "evict", "embed", "look", "mark",
          "backfill", "fill"}

\* What is in a table or at hand bears an id that was given out.
StoreTypes ==
  /\ Messages!TypeOK
  /\ turn \in [Agents -> Turns] /\ excess \in [Agents -> Int] /\ got \in [Agents -> Nat]
  /\ Messages!Present \subseteq 1..sent
  /\ \A a \in Agents :
       todo[a] \subseteq 1..sent /\ draft[a] \in 0..sent /\ fields[a].parent \in 0..sent

\* An agent has ids at hand only while it marks or embeds them.
AtHand ==
  \A a \in Agents :
    /\ turn[a] \notin {"look", "mark", "fill"} => todo[a] = {}
    /\ turn[a] = "mark" => todo[a] # {} /\ a \notin readers[a]

\* Nobody but its sender knows of a message before it is inserted.
Inserting == {a \in Agents : turn[a] = "insert"}
DraftsAreNew ==
  \A a \in Inserting :
    /\ draft[a] \in 1..sent /\ draft[a] \notin Messages!Present
    /\ fields[a].readBy = {}
    /\ \A b \in Agents : /\ draft[a] \notin todo[b] /\ fields[b].parent # draft[a]
                         /\ b \in Inserting /\ b # a => draft[b] # draft[a]
    /\ \A i \in Messages!Present : messages[i].parent # draft[a]

\* A reply that is on its way answers a root.
RepliesAnswerRoots ==
  \A a \in Inserting :
    fields[a].parent \in Messages!Present => messages[fields[a].parent].parent = Messages!NoId

\* What an agent is going to evict is enough, however many rows came or went
\* since it counted.
Overdue == {a \in Agents : turn[a] \in {"count", "evict"}}
EvictionsSuffice ==
  \A a \in Agents : turn[a] = "evict" =>
    /\ excess[a] > 0
    /\ Cardinality(Messages!Present) <= MaxMessages + excess[a] + Cardinality(Overdue \ {a})

\* The marks to come of message 1.  Each takes one of these sets of agents away:
\* those that have no mark in the row, or in what one of them read of it and is
\* about to write back.
Marking(q) == turn[q] = "mark" /\ 1 \in todo[q]
Chances ==
  {Y \in (SUBSET Agents) \ {{}} :
     \/ Y \cap messages[1].readBy = {}
     \/ \E q \in Y : Marking(q) /\ Y \cap readers[q] = {}}
ChancesOf(a) == {Y \in Chances : a \in Y}
Sets(a) == {Y \in SUBSET Agents : a \in Y}

\* An agent that was given message 1 and has not marked it.
Given(a) == turn[a] \in {"look", "mark"} /\ 1 \in todo[a] /\ {a} \in Chances
RereadsAreCounted ==
  \A a \in Agents :
    /\ got[a] > 0 => sent > 0
    /\ \A b \in Inserting : draft[b] = 1 => got[a] = 0
    /\ got[a] <= Cardinality(Sets(a))
    /\ 1 \in Messages!Present =>
         got[a] + Cardinality(ChancesOf(a))
           <= Cardinality(Sets(a)) + (IF Given(a) THEN 1 ELSE 0)

StoreIInv ==
  /\ StoreTypes /\ AtHand /\ DraftsAreNew /\ RepliesAnswerRoots /\ EvictionsSuffice
  /\ Messages!EmbeddingsHaveMessages /\ Messages!ThreadsAreFlat /\ Messages!StoreIsBounded
  /\ RereadsAreCounted

LEMMA MsgCounts ==
  \A S : Messages!Cardinality(S) = Cardinality(S) /\ (Messages!IsFiniteSet(S) <=> IsFiniteSet(S))
BY DEF Messages!IsFiniteSet, IsFiniteSet, Messages!Cardinality, Cardinality

LEMMA StoreBound ==
  Messages!StoreIsBounded <=>
    Cardinality(Messages!Present) <= MaxMessages + Cardinality(Overdue)
<1>1. Overdue = {a \in Agents : turn[a] \in {"count", "evict"}}
  BY DEF Overdue
<1>. QED BY <1>1, MsgCounts DEF Messages!StoreIsBounded

LEMMA StoreInitially == ASSUME Messages!MessageStoreAssumption PROVE Messages!Init => StoreIInv
<1> SUFFICES ASSUME Messages!Init PROVE StoreIInv
  OBVIOUS
<1> USE DEF Messages!Init, Messages!Present
<1>1. /\ DOMAIN messages = {} /\ Cardinality({}) = 0 /\ IsFiniteSet(Agents)
      /\ MaxIds \in Nat /\ MaxMessages \in Nat
  BY FS_EmptySet, MsgCounts DEF Messages!MessageStoreAssumption
<1>2. StoreTypes
  <2>1. Messages!TypeOK
    BY <1>1 DEF Messages!TypeOK, Messages!Ids, Messages!NoId, Messages!NoRow, Messages!Row,
       Messages!All, Messages!V1
  <2>. QED BY <1>1, <2>1 DEF StoreTypes, Turns, Messages!NoId, Messages!NoRow
<1>3. AtHand /\ DraftsAreNew /\ RepliesAnswerRoots /\ EvictionsSuffice
  BY DEF AtHand, DraftsAreNew, RepliesAnswerRoots, EvictionsSuffice, Inserting
<1>4. Messages!EmbeddingsHaveMessages /\ Messages!ThreadsAreFlat
  BY DEF Messages!EmbeddingsHaveMessages, Messages!ThreadsAreFlat
<1>5. Messages!StoreIsBounded
  <2>1. Overdue = {}
    BY DEF Overdue
  <2>. QED BY <1>1, <2>1, StoreBound
<1>6. RereadsAreCounted
  <2>1. \A a \in Agents : IsFiniteSet(Sets(a)) /\ Cardinality(Sets(a)) \in Nat
    BY <1>1, FS_SUBSET, FS_Subset, FS_CardinalityType DEF Sets
  <2>2. 1 \notin Messages!Present /\ \A a \in Agents : got[a] = 0
    BY <1>1
  <2>3. ASSUME NEW a \in Agents
        PROVE  got[a] = 0 /\ ~(got[a] > 0) /\ got[a] <= Cardinality(Sets(a))
    BY <2>1, <2>2
  <2>. QED BY <2>2, <2>3 DEF RereadsAreCounted
<1>. QED BY <1>2, <1>3, <1>4, <1>5, <1>6 DEF StoreIInv

\* The next id to mark.
LEMMA CurrentIsAtHand ==
  ASSUME StoreTypes, NEW a \in Agents, todo[a] # {}
  PROVE  /\ Messages!Current(a) \in todo[a]
         /\ 1 \in todo[a] => Messages!Current(a) = 1
<1>1. todo[a] \subseteq Nat /\ \A i \in todo[a] : i >= 1
  BY DEF StoreTypes, Messages!TypeOK
<1>2. \E m \in todo[a] : \A i \in todo[a] : <<i, m>> \notin OpToRel(<, Nat)
  BY <1>1, NatLessThanWellFounded, WFMin
<1>m. PICK m \in todo[a] : \A i \in todo[a] : ~(i < m)
  BY <1>1, <1>2 DEF OpToRel
<1>3. \A i \in todo[a] : m <= i
  BY <1>1, <1>m
<1>4. /\ Messages!Current(a) \in todo[a]
      /\ \A i \in todo[a] : Messages!Current(a) <= i
  BY <1>3 DEF Messages!Current, Messages!Min
<1>. QED BY <1>1, <1>4

\* A new message in the hands of its sender.
LEMMA Composed ==
  ASSUME StoreIInv, Messages!MessageStoreAssumption, NEW a \in Agents,
         NEW row \in Messages!Row, Messages!Compose(a, row)
  PROVE  /\ sent < MaxIds /\ sent' = sent + 1
         /\ draft' = [draft EXCEPT ![a] = sent + 1]
         /\ fields' = [fields EXCEPT ![a] = row]
         /\ turn' = [turn EXCEPT ![a] = "insert"]
         /\ UNCHANGED <<messages, embedded, expired, excess, todo, readers, got>>
BY DEF Messages!Compose, Messages!Go, Messages!tables

Composing(a) == Messages!Import(a) \/ Messages!Post(a) \/ Messages!Reply(a)

\* What is composed: nobody has read it, and it answers a root, if anything.
LEMMA Composes ==
  ASSUME StoreIInv, Messages!MessageStoreAssumption, NEW a \in Agents, Composing(a)
  PROVE  \E row \in Messages!Row :
           /\ Messages!Compose(a, row)
           /\ row.readBy = {}
           /\ row.parent = 0 \/ (/\ row.parent \in Messages!Present
                                 /\ messages[row.parent].parent = 0)
           /\ turn[a] \in {"idle", "import"}
<1> USE DEF Messages!Row, Messages!NoRow, Messages!NoId, Messages!All, Messages!V1
<1>1. CASE Messages!Import(a)
  BY <1>1 DEF Messages!Import
<1>2. CASE Messages!Post(a)
  <2>1. PICK to \in Recipients :
          Messages!Compose(a, [Messages!NoRow EXCEPT !.sender = a, !.to = to])
    BY <1>2 DEF Messages!Post
  <2>2. [Messages!NoRow EXCEPT !.sender = a, !.to = to] \in Messages!Row
    BY DEF Messages!MessageStoreAssumption
  <2>. QED BY <1>2, <2>1, <2>2 DEF Messages!Post
<1>3. CASE Messages!Reply(a)
  <2>1. PICK i \in Messages!Present :
          Messages!Compose(a, [Messages!NoRow EXCEPT !.sender = a, !.parent = Messages!Root(i),
                                 !.to = messages[i].sender])
    BY <1>3 DEF Messages!Reply
  <2>2. messages[i] \in Messages!Row /\ Messages!Present \subseteq Messages!Ids
    BY <2>1 DEF StoreIInv, StoreTypes, Messages!TypeOK
  <2>3. Messages!Root(i) \in Messages!Present /\ messages[Messages!Root(i)].parent = 0
    BY <2>1, <2>2 DEF Messages!Root, StoreIInv, Messages!ThreadsAreFlat
  <2>. DEFINE row == [Messages!NoRow EXCEPT !.sender = a, !.parent = Messages!Root(i),
                                 !.to = messages[i].sender]
  <2>4. row \in Messages!Row /\ row.readBy = {} /\ row.parent = Messages!Root(i)
    BY <2>2, <2>3
  <2>. QED BY <1>3, <2>1, <2>3, <2>4 DEF Messages!Reply
<1>. QED BY <1>1, <1>2, <1>3 DEF Composing

\* The rows that are left are the same, but for replies to what is gone.
LEMMA Deleted ==
  ASSUME StoreIInv, NEW gone, Messages!Delete(gone)
  PROVE  /\ DOMAIN messages' = Messages!Present \ gone
         /\ \A i \in DOMAIN messages' :
              /\ messages'[i] \in Messages!Row
              /\ messages'[i].readBy = messages[i].readBy
              /\ messages'[i].parent =
                   IF messages[i].parent \in gone THEN 0 ELSE messages[i].parent
         /\ embedded' = embedded \ gone /\ expired' = expired \ gone
<1>1. \A i \in Messages!Present : messages[i] \in Messages!Row
  BY DEF StoreIInv, StoreTypes, Messages!TypeOK
<1>. QED BY <1>1 DEF Messages!Delete, Messages!Without, Messages!Row, Messages!NoId

\* The steps of an agent.
LEMMA AgentSteps ==
  ASSUME Messages!Next
  PROVE  \/ Messages!Expire
         \/ \E a \in Agents :
              \/ Messages!Migrate(a) \/ Composing(a)
              \/ Messages!Insert(a) \/ Messages!InsertFails(a) \/ Messages!Count(a)
              \/ Messages!Evict(a) \/ Messages!Embed(a)
              \/ Messages!Read(a) \/ Messages!Look(a) \/ Messages!Mark(a) \/ Messages!ReadDone(a)
              \/ Messages!Cleanup(a) \/ Messages!Backfill(a) \/ Messages!Fill(a)
BY DEF Messages!Next, Messages!Process, Composing

\* The messages and the agents are finitely many.
LEMMA StoreFinite ==
  ASSUME Messages!MessageStoreAssumption, StoreTypes
  PROVE  /\ IsFiniteSet(Messages!Present) /\ Cardinality(Messages!Present) \in Nat
         /\ \A S \in SUBSET Agents : IsFiniteSet(S) /\ Cardinality(S) \in Nat
<1>1. IsFiniteSet(1..sent)
  BY FS_Interval DEF StoreTypes, Messages!TypeOK
<1>. QED BY <1>1, MsgCounts, FS_Subset, FS_CardinalityType DEF StoreTypes,
     Messages!MessageStoreAssumption

LEMMA StoreTypesStep ==
  ASSUME Messages!MessageStoreAssumption, StoreIInv, Messages!Next
  PROVE  StoreTypes' /\ AtHand'
<1>t. /\ StoreTypes /\ Messages!TypeOK /\ AtHand
      /\ MaxIds \in Nat /\ MaxMessages \in Nat
  BY DEF StoreIInv, StoreTypes, Messages!MessageStoreAssumption
<1> USE DEF Messages!Go, Messages!tables, Messages!locals, Messages!Ids, Messages!NoId,
     Messages!Present, Turns
<1>1. CASE Messages!Expire
  BY <1>t, <1>1 DEF Messages!Expire, StoreTypes, AtHand, Messages!TypeOK
<1>2. ASSUME NEW a \in Agents, Messages!Migrate(a) PROVE StoreTypes' /\ AtHand'
  BY <1>t, <1>2 DEF Messages!Migrate, StoreTypes, AtHand, Messages!TypeOK
<1>3. ASSUME NEW a \in Agents, Composing(a) PROVE StoreTypes' /\ AtHand'
  <2>1. PICK row \in Messages!Row :
          /\ Messages!Compose(a, row) /\ turn[a] \in {"idle", "import"}
          /\ row.parent \in DOMAIN messages \cup {0}
    BY <1>3, Composes
  <2>2. /\ sent < MaxIds /\ sent' = sent + 1
        /\ draft' = [draft EXCEPT ![a] = sent + 1]
        /\ fields' = [fields EXCEPT ![a] = row]
        /\ turn' = [turn EXCEPT ![a] = "insert"]
        /\ UNCHANGED <<messages, embedded, expired, excess, todo, readers, got>>
    BY <2>1, Composed
  <2>3. todo[a] = {}
    BY <1>t, <2>1 DEF AtHand
  <2>4. StoreTypes'
    BY <1>t, <2>1, <2>2 DEF StoreTypes, Messages!TypeOK
  <2>. QED BY <1>t, <2>2, <2>3, <2>4 DEF StoreTypes, AtHand
<1>4. ASSUME NEW a \in Agents, Messages!Insert(a) PROVE StoreTypes' /\ AtHand'
  <2>1. /\ turn[a] = "insert" /\ DOMAIN messages' = DOMAIN messages \cup {draft[a]}
        /\ \A i \in DOMAIN messages' :
             messages'[i] = IF i = draft[a] THEN fields[a] ELSE messages[i]
        /\ fields' = [fields EXCEPT ![a] = Messages!NoRow]
        /\ turn' = [turn EXCEPT ![a] = "count"]
        /\ UNCHANGED <<embedded, expired, sent, draft, excess, todo, readers, got>>
    BY <1>4 DEF Messages!Insert
  <2>2. draft[a] \in 1..sent /\ Messages!NoRow \in Messages!Row /\ Messages!NoRow.parent = 0
    BY <2>1 DEF StoreIInv, DraftsAreNew, Inserting, Messages!NoRow, Messages!Row, Messages!V1,
       Messages!All
  <2>. QED BY <1>t, <2>1, <2>2 DEF StoreTypes, AtHand, Messages!TypeOK
<1>5. ASSUME NEW a \in Agents, Messages!InsertFails(a) PROVE StoreTypes' /\ AtHand'
  <2>1. Messages!NoRow \in Messages!Row /\ Messages!NoRow.parent = 0
    BY DEF Messages!NoRow, Messages!Row, Messages!V1, Messages!All
  <2>. QED BY <1>t, <1>5, <2>1 DEF Messages!InsertFails, StoreTypes, AtHand, Messages!TypeOK
<1>6. ASSUME NEW a \in Agents, Messages!Count(a) PROVE StoreTypes' /\ AtHand'
  <2>1. Messages!Cardinality(DOMAIN messages) \in Nat
    BY <1>t, StoreFinite, MsgCounts
  <2>. QED BY <1>t, <1>6, <2>1 DEF Messages!Count, StoreTypes, AtHand, Messages!TypeOK
<1>7. ASSUME NEW a \in Agents, Messages!Evict(a) \/ Messages!Cleanup(a) PROVE StoreTypes' /\ AtHand'
  <2>1. PICK gone : Messages!Delete(gone)
    BY <1>7 DEF Messages!Evict, Messages!Cleanup
  <2>2. /\ excess' = [excess EXCEPT ![a] = 0] \/ excess' = excess
        /\ turn[a] \in {"evict", "idle"}
        /\ turn' \in {[turn EXCEPT ![a] = "embed"], [turn EXCEPT ![a] = "backfill"]}
        /\ UNCHANGED <<sent, draft, fields, todo, readers, got>>
    BY <1>7 DEF Messages!Evict, Messages!Cleanup
  <2>3. /\ DOMAIN messages' = DOMAIN messages \ gone
        /\ \A i \in DOMAIN messages' : messages'[i] \in Messages!Row
        /\ embedded' = embedded \ gone /\ expired' = expired \ gone
    BY <2>1, Deleted
  <2>4. excess' \in [Agents -> Int] /\ turn' \in [Agents -> Turns]
    BY <1>t, <2>2 DEF StoreTypes
  <2>5. AtHand'
    BY <1>t, <2>2 DEF StoreTypes, AtHand
  <2>. QED BY <1>t, <2>2, <2>3, <2>4, <2>5 DEF StoreTypes, Messages!TypeOK
<1>8. ASSUME NEW a \in Agents, Messages!Embed(a) PROVE StoreTypes' /\ AtHand'
  BY <1>t, <1>8 DEF Messages!Embed, StoreTypes, AtHand, Messages!TypeOK
<1>9. ASSUME NEW a \in Agents, Messages!Read(a) PROVE StoreTypes' /\ AtHand'
  <2>1. PICK S \in SUBSET DOMAIN messages :
          /\ todo' = [todo EXCEPT ![a] = S]
          /\ got' \in {got, [got EXCEPT ![a] = @ + 1]}
    BY <1>9 DEF Messages!Read, Messages!Newest, Messages!Unread, Messages!Visible
  <2>. QED BY <1>t, <1>9, <2>1 DEF Messages!Read, StoreTypes, AtHand, Messages!TypeOK
<1>10. ASSUME NEW a \in Agents, Messages!Look(a) PROVE StoreTypes' /\ AtHand'
  <2>. DEFINE c == Messages!Current(a)
  <2>1. /\ turn[a] = "look" /\ todo[a] # {} /\ c \in todo[a]
        /\ UNCHANGED <<messages, embedded, expired, sent, draft, fields, excess, got>>
    BY <1>t, <1>10, CurrentIsAtHand DEF Messages!Look
  <2>2. CASE c \in DOMAIN messages /\ a \notin messages[c].readBy
    <3>1. /\ readers' = [readers EXCEPT ![a] = messages[c].readBy]
          /\ turn' = [turn EXCEPT ![a] = "mark"] /\ UNCHANGED todo
      BY <1>10, <2>2 DEF Messages!Look
    <3>2. messages[c].readBy \in SUBSET Agents
      BY <1>t, <2>2 DEF Messages!TypeOK, Messages!Row
    <3>. HIDE DEF c
    <3>. QED BY <1>t, <2>1, <2>2, <3>1, <3>2 DEF StoreTypes, AtHand, Messages!TypeOK
  <2>3. CASE ~(c \in DOMAIN messages /\ a \notin messages[c].readBy)
    <3>1. todo' = [todo EXCEPT ![a] = @ \ {c}] /\ UNCHANGED <<readers, turn>>
      BY <1>10, <2>3 DEF Messages!Look
    <3>. QED BY <1>t, <2>1, <3>1 DEF StoreTypes, AtHand, Messages!TypeOK
  <2>. QED BY <2>2, <2>3
<1>11. ASSUME NEW a \in Agents, Messages!Mark(a) PROVE StoreTypes' /\ AtHand'
  <2>1. /\ DOMAIN messages' = DOMAIN messages
        /\ \A i \in DOMAIN messages' : messages'[i] \in Messages!Row
    BY <1>t, <1>11 DEF Messages!Mark, Messages!TypeOK, Messages!Row
  <2>2. /\ turn[a] = "mark" /\ turn' = [turn EXCEPT ![a] = "look"]
        /\ todo' = [todo EXCEPT ![a] = @ \ {Messages!Current(a)}]
        /\ readers' = [readers EXCEPT ![a] = {}]
        /\ UNCHANGED <<embedded, expired, sent, draft, fields, excess, got>>
    BY <1>11 DEF Messages!Mark
  <2>. QED BY <1>t, <2>1, <2>2 DEF StoreTypes, AtHand, Messages!TypeOK
<1>12. ASSUME NEW a \in Agents, Messages!ReadDone(a) PROVE StoreTypes' /\ AtHand'
  BY <1>t, <1>12 DEF Messages!ReadDone, StoreTypes, AtHand, Messages!TypeOK
<1>13. ASSUME NEW a \in Agents, Messages!Backfill(a) PROVE StoreTypes' /\ AtHand'
  <2>1. PICK S \in SUBSET DOMAIN messages : todo' = [todo EXCEPT ![a] = S]
    BY <1>13 DEF Messages!Backfill, Messages!Oldest
  <2>. QED BY <1>t, <1>13, <2>1 DEF Messages!Backfill, StoreTypes, AtHand, Messages!TypeOK
<1>14. ASSUME NEW a \in Agents, Messages!Fill(a) PROVE StoreTypes' /\ AtHand'
  BY <1>t, <1>14 DEF Messages!Fill, StoreTypes, AtHand, Messages!TypeOK
<1>. QED
  BY AgentSteps, <1>1, <1>2, <1>3, <1>4, <1>5, <1>6, <1>7, <1>8, <1>9, <1>10, <1>11, <1>12,
     <1>13, <1>14

Rows ==
  /\ DraftsAreNew /\ RepliesAnswerRoots
  /\ Messages!EmbeddingsHaveMessages /\ Messages!ThreadsAreFlat

\* A step that adds no row and no draft.
LEMMA NoNewRow ==
  ASSUME StoreIInv, sent' = sent,
         Inserting' \subseteq Inserting,
         \A a \in Inserting' : draft'[a] = draft[a] /\ fields'[a] = fields[a],
         \A b \in Agents : /\ fields'[b].parent \in {fields[b].parent, 0}
                           /\ todo'[b] \subseteq todo[b] \cup Messages!Present,
         Messages!Present' \subseteq Messages!Present,
         \A i \in Messages!Present' :
           messages'[i].parent \in {messages[i].parent, 0} \cap (Messages!Present' \cup {0}),
         embedded' \subseteq Messages!Present'
  PROVE  Rows'
<1>1. Rows
  BY DEF StoreIInv, Rows
<1>2. DraftsAreNew'
  BY <1>1 DEF Rows, DraftsAreNew, Inserting
<1>3. RepliesAnswerRoots'
  BY <1>1 DEF Rows, RepliesAnswerRoots, Inserting, Messages!NoId
<1>4. Messages!EmbeddingsHaveMessages' /\ Messages!ThreadsAreFlat'
  BY <1>1 DEF Rows, Messages!EmbeddingsHaveMessages, Messages!ThreadsAreFlat, Messages!NoId
<1>. QED BY <1>2, <1>3, <1>4 DEF Rows

LEMMA RowsStep ==
  ASSUME Messages!MessageStoreAssumption, StoreIInv, Messages!Next
  PROVE  Rows'
<1>t. /\ StoreTypes /\ Messages!TypeOK /\ AtHand /\ Rows
  BY DEF StoreIInv, StoreTypes, Rows
<1>p. \A i \in Messages!Present : messages[i].parent \in Messages!Present \cup {0}
  BY <1>t DEF Rows, Messages!ThreadsAreFlat, Messages!NoId
<1>e. embedded \subseteq Messages!Present
  BY <1>t DEF Rows, Messages!EmbeddingsHaveMessages
<1> USE DEF Messages!Go, Messages!tables, Messages!locals, Messages!Present
<1>1. ASSUME UNCHANGED <<messages, sent, draft, fields>>,
             embedded' \subseteq DOMAIN messages,
             NEW a \in Agents, NEW l \in Turns \ {"insert"}, turn' = [turn EXCEPT ![a] = l],
             \A b \in Agents : todo'[b] \subseteq todo[b] \cup DOMAIN messages
      PROVE  Rows'
  <2>1. Inserting' \subseteq Inserting
    BY <1>t, <1>1 DEF Inserting, StoreTypes
  <2>. QED BY <1>1, <1>p, <2>1, NoNewRow
<1>2. CASE Messages!Expire
  <2>1. UNCHANGED <<messages, embedded, sent, turn, draft, fields, todo>>
    BY <1>2 DEF Messages!Expire
  <2>. QED BY <1>p, <1>e, <2>1, NoNewRow DEF Inserting
<1>3. ASSUME NEW a \in Agents, Messages!Migrate(a) PROVE Rows'
  <2>1. PICK l \in {"import", "idle"} : turn' = [turn EXCEPT ![a] = l]
    BY <1>3 DEF Messages!Migrate
  <2>2. UNCHANGED <<messages, embedded, sent, draft, fields, todo>>
    BY <1>3 DEF Messages!Migrate
  <2>. QED BY <1>1, <1>e, <2>1, <2>2 DEF Turns
<1>4. ASSUME NEW a \in Agents, Composing(a) PROVE Rows'
  <2>1. PICK row \in Messages!Row :
          /\ Messages!Compose(a, row) /\ row.readBy = {}
          /\ row.parent = 0 \/ (row.parent \in DOMAIN messages /\ messages[row.parent].parent = 0)
    BY <1>4, Composes
  <2>2. /\ sent' = sent + 1 /\ draft' = [draft EXCEPT ![a] = sent + 1]
        /\ fields' = [fields EXCEPT ![a] = row]
        /\ turn' = [turn EXCEPT ![a] = "insert"]
        /\ UNCHANGED <<messages, embedded, todo>>
    BY <2>1, Composed
  <2>3. Inserting' = Inserting \cup {a}
    BY <1>t, <2>2 DEF Inserting, StoreTypes
  <2>4. /\ sent \in Nat /\ DOMAIN messages \subseteq 1..sent
        /\ \A b \in Agents : /\ draft[b] \in 0..sent /\ todo[b] \subseteq 1..sent
                             /\ fields[b].parent \in Nat
        /\ row.parent \in 0..sent
    BY <1>t, <2>1 DEF StoreTypes, Messages!TypeOK, Messages!Row, Messages!Ids, Messages!NoId
  <2>5. \A b \in Agents : fields'[b].parent \in 0..sent /\ todo'[b] \subseteq 1..sent
    BY <1>t, <2>2, <2>4 DEF StoreTypes, Messages!TypeOK
  <2>6. DraftsAreNew'
    <3>1. ASSUME NEW b \in Inserting'
          PROVE  /\ draft'[b] \in 1..sent' /\ draft'[b] \notin DOMAIN messages
                 /\ fields'[b].readBy = {}
                 /\ \A i \in DOMAIN messages : messages[i].parent # draft'[b]
      BY <1>t, <1>p, <2>1, <2>2, <2>3, <2>4 DEF DraftsAreNew, Rows, StoreTypes, Messages!TypeOK
    <3>2. ASSUME NEW b \in Inserting', NEW c \in Agents
          PROVE  /\ draft'[b] \notin todo'[c] /\ fields'[c].parent # draft'[b]
                 /\ c \in Inserting' /\ c # b => draft'[c] # draft'[b]
      <4>1. CASE b = a
        BY <1>t, <2>2, <2>3, <2>4, <2>5, <4>1 DEF StoreTypes, Messages!TypeOK
      <4>2. CASE b # a
        <5>1. /\ b \in Inserting /\ draft'[b] = draft[b] /\ draft[b] \notin todo[c]
              /\ draft[b] \in 1..sent
              /\ fields[c].parent # draft[b] /\ (c \in Inserting /\ c # b => draft[c] # draft[b])
          BY <1>t, <2>2, <2>3, <4>2 DEF Rows, DraftsAreNew, StoreTypes, Messages!TypeOK, Inserting
        <5>2. row.parent # draft[b]
          BY <1>t, <2>1, <2>4, <5>1 DEF Rows, DraftsAreNew
        <5>. QED BY <1>t, <2>2, <2>3, <2>4, <5>1, <5>2 DEF StoreTypes, Messages!TypeOK
      <4>. QED BY <4>1, <4>2
    <3>. QED BY <2>2, <3>1, <3>2 DEF DraftsAreNew, Inserting
  <2>7. RepliesAnswerRoots'
    <3>1. ASSUME NEW b \in Inserting', fields'[b].parent \in DOMAIN messages
          PROVE  messages[fields'[b].parent].parent = 0
      <4>1. CASE b = a
        BY <1>t, <2>1, <2>2, <2>4, <3>1, <4>1 DEF StoreTypes, Messages!TypeOK
      <4>2. CASE b # a
        BY <1>t, <2>2, <2>3, <3>1, <4>2 DEF Rows, RepliesAnswerRoots, StoreTypes, Messages!TypeOK,
           Messages!NoId
      <4>. QED BY <4>1, <4>2
    <3>. QED BY <2>2, <3>1 DEF RepliesAnswerRoots, Inserting, Messages!NoId
  <2>8. Messages!EmbeddingsHaveMessages' /\ Messages!ThreadsAreFlat'
    BY <1>t, <2>2 DEF Rows, Messages!EmbeddingsHaveMessages, Messages!ThreadsAreFlat
  <2>. QED BY <2>6, <2>7, <2>8 DEF Rows
<1>5. ASSUME NEW a \in Agents, Messages!Insert(a) PROVE Rows'
  <2>1. /\ turn[a] = "insert" /\ a \in Inserting
        /\ fields[a].parent \in DOMAIN messages \cup {0}
        /\ DOMAIN messages' = DOMAIN messages \cup {draft[a]}
        /\ \A i \in DOMAIN messages' :
             messages'[i] = IF i = draft[a] THEN fields[a] ELSE messages[i]
        /\ fields' = [fields EXCEPT ![a] = Messages!NoRow]
        /\ turn' = [turn EXCEPT ![a] = "count"]
        /\ UNCHANGED <<embedded, sent, draft, todo>>
    BY <1>5 DEF Messages!Insert, Inserting, Messages!NoId
  <2>2. Inserting' = Inserting \ {a} /\ Messages!NoRow.parent = 0
    BY <1>t, <2>1 DEF Inserting, StoreTypes, Messages!NoRow, Messages!NoId
  <2>3. /\ draft[a] \in 1..sent /\ draft[a] \notin DOMAIN messages
        /\ \A b \in Agents : fields[b].parent # draft[a]
        /\ \A b \in Inserting \ {a} : draft[b] # draft[a]
        /\ \A i \in DOMAIN messages : messages[i].parent # draft[a]
    BY <1>t, <2>1 DEF Rows, DraftsAreNew
  <2>4. \A b \in Agents : fields'[b].parent \in {fields[b].parent, 0}
    BY <1>t, <2>1, <2>2 DEF StoreTypes, Messages!TypeOK
  <2>5. DraftsAreNew'
    <3>1. ASSUME NEW b \in Inserting'
          PROVE  /\ b \in Inserting /\ b # a /\ fields'[b] = fields[b]
                 /\ draft[b] \in 1..sent /\ draft[b] \notin DOMAIN messages'
                 /\ fields[b].readBy = {}
                 /\ \A c \in Agents : /\ draft[b] \notin todo[c] /\ fields'[c].parent # draft[b]
                                      /\ c \in Inserting' /\ c # b => draft[c] # draft[b]
      BY <1>t, <2>1, <2>2, <2>3, <2>4 DEF Rows, DraftsAreNew, StoreTypes, Messages!TypeOK
    <3>2. ASSUME NEW b \in Inserting', NEW i \in DOMAIN messages'
          PROVE  messages'[i].parent # draft[b]
      <4>1. b \in Inserting /\ messages'[i] \in {fields[a], messages[i]}
            /\ (i # draft[a] => i \in DOMAIN messages)
        BY <2>1, <3>1
      <4>. QED BY <1>t, <2>1, <3>1, <4>1 DEF Rows, DraftsAreNew
    <3>. QED BY <2>1, <3>1, <3>2 DEF DraftsAreNew, Inserting
  <2>6. RepliesAnswerRoots'
    <3>1. ASSUME NEW b \in Inserting', fields[b].parent \in DOMAIN messages'
          PROVE  messages'[fields[b].parent].parent = 0
      <4>1. b \in Inserting /\ fields[b].parent # draft[a]
        BY <2>2, <2>3 DEF Inserting
      <4>. QED BY <1>t, <2>1, <3>1, <4>1 DEF Rows, RepliesAnswerRoots, Messages!NoId
    <3>. QED BY <1>t, <2>1, <2>2, <3>1 DEF RepliesAnswerRoots, Inserting, Messages!NoId,
         StoreTypes, Messages!TypeOK
  <2>7. Messages!ThreadsAreFlat'
    <3>1. ASSUME NEW i \in DOMAIN messages', messages'[i].parent # 0
          PROVE  /\ messages'[i].parent \in DOMAIN messages
                 /\ messages[messages'[i].parent].parent = 0
      <4>1. CASE i = draft[a]
        BY <1>t, <2>1, <3>1, <4>1 DEF Rows, RepliesAnswerRoots, Messages!NoId
      <4>2. CASE i # draft[a]
        BY <1>t, <2>1, <3>1, <4>2 DEF Rows, Messages!ThreadsAreFlat, Messages!NoId
      <4>. QED BY <4>1, <4>2
    <3>. QED BY <2>1, <2>3, <3>1 DEF Messages!ThreadsAreFlat, Messages!NoId
  <2>8. Messages!EmbeddingsHaveMessages'
    BY <1>e, <2>1 DEF Messages!EmbeddingsHaveMessages
  <2>. QED BY <2>5, <2>6, <2>7, <2>8 DEF Rows
<1>6. ASSUME NEW a \in Agents, Messages!InsertFails(a) PROVE Rows'
  <2>1. /\ fields' = [fields EXCEPT ![a] = Messages!NoRow]
        /\ draft' = [draft EXCEPT ![a] = Messages!NoId]
        /\ turn' = [turn EXCEPT ![a] = "idle"]
        /\ UNCHANGED <<messages, embedded, sent, todo>>
    BY <1>6 DEF Messages!InsertFails
  <2>2. Inserting' \subseteq Inserting \ {a} /\ Messages!NoRow.parent = 0
    BY <1>t, <2>1 DEF Inserting, StoreTypes, Messages!NoRow, Messages!NoId
  <2>3. \A b \in Agents : fields'[b].parent \in {fields[b].parent, 0}
    BY <1>t, <2>1, <2>2 DEF StoreTypes, Messages!TypeOK
  <2>4. \A b \in Inserting' : draft'[b] = draft[b] /\ fields'[b] = fields[b]
    BY <1>t, <2>1, <2>2 DEF StoreTypes, Messages!TypeOK, Inserting
  <2>. QED BY <1>p, <1>e, <2>1, <2>2, <2>3, <2>4, NoNewRow
<1>7. ASSUME NEW a \in Agents, Messages!Count(a) PROVE Rows'
  <2>1. PICK l \in {"evict", "embed"} : turn' = [turn EXCEPT ![a] = l]
    BY <1>7 DEF Messages!Count
  <2>. QED BY <1>1, <1>7, <1>e, <2>1 DEF Messages!Count, Turns
<1>8. ASSUME NEW a \in Agents, Messages!Evict(a) \/ Messages!Cleanup(a) PROVE Rows'
  <2>1. PICK gone : Messages!Delete(gone)
    BY <1>8 DEF Messages!Evict, Messages!Cleanup
  <2>2. /\ turn' \in {[turn EXCEPT ![a] = "embed"], [turn EXCEPT ![a] = "backfill"]}
        /\ UNCHANGED <<sent, draft, fields, todo>>
    BY <1>8 DEF Messages!Evict, Messages!Cleanup
  <2>3. /\ DOMAIN messages' = DOMAIN messages \ gone
        /\ \A i \in DOMAIN messages' :
             messages'[i].parent = IF messages[i].parent \in gone THEN 0 ELSE messages[i].parent
        /\ embedded' = embedded \ gone
    BY <2>1, Deleted
  <2>4. Inserting' \subseteq Inserting
    BY <1>t, <2>2 DEF Inserting, StoreTypes
  <2>5. \A i \in DOMAIN messages' :
          messages'[i].parent \in {messages[i].parent, 0} \cap (DOMAIN messages' \cup {0})
    BY <1>p, <2>3
  <2>. QED BY <1>e, <2>2, <2>3, <2>4, <2>5, NoNewRow
<1>9. ASSUME NEW a \in Agents, Messages!Embed(a) PROVE Rows'
  <2>1. /\ embedded' \subseteq embedded \cup DOMAIN messages
        /\ turn' = [turn EXCEPT ![a] = "idle"]
        /\ draft' = [draft EXCEPT ![a] = Messages!NoId]
        /\ turn[a] = "embed"
        /\ UNCHANGED <<messages, sent, fields, todo>>
    BY <1>9 DEF Messages!Embed
  <2>2. Inserting' = Inserting /\ \A b \in Inserting' : draft'[b] = draft[b]
    BY <1>t, <2>1 DEF Inserting, StoreTypes, Messages!TypeOK
  <2>. QED BY <1>p, <1>e, <2>1, <2>2, NoNewRow
<1>10. ASSUME NEW a \in Agents, Messages!Read(a) PROVE Rows'
  <2>1. PICK S \in SUBSET DOMAIN messages : todo' = [todo EXCEPT ![a] = S]
    BY <1>10 DEF Messages!Read, Messages!Newest, Messages!Unread, Messages!Visible
  <2>2. \A b \in Agents : todo'[b] \subseteq todo[b] \cup DOMAIN messages
    BY <1>t, <2>1 DEF Messages!TypeOK
  <2>. QED BY <1>1, <1>10, <1>e, <2>2 DEF Messages!Read, Turns
<1>11. ASSUME NEW a \in Agents, Messages!Look(a) PROVE Rows'
  <2>1. /\ turn' \in {turn, [turn EXCEPT ![a] = "mark"]}
        /\ \A b \in Agents : todo'[b] \subseteq todo[b]
        /\ UNCHANGED <<messages, embedded, sent, draft, fields>>
    BY <1>t, <1>11 DEF Messages!Look, Messages!TypeOK
  <2>2. Inserting' \subseteq Inserting
    BY <1>t, <2>1 DEF Inserting, StoreTypes
  <2>. QED BY <1>p, <1>e, <2>1, <2>2, NoNewRow
<1>12. ASSUME NEW a \in Agents, Messages!Mark(a) PROVE Rows'
  <2>1. /\ DOMAIN messages' = DOMAIN messages
        /\ \A i \in DOMAIN messages' : messages'[i].parent = messages[i].parent
    BY <1>t, <1>12 DEF Messages!Mark, Messages!TypeOK, Messages!Row
  <2>2. /\ turn' = [turn EXCEPT ![a] = "look"]
        /\ \A b \in Agents : todo'[b] \subseteq todo[b]
        /\ UNCHANGED <<embedded, sent, draft, fields>>
    BY <1>t, <1>12 DEF Messages!Mark, Messages!TypeOK
  <2>3. Inserting' \subseteq Inserting
    BY <1>t, <2>2 DEF Inserting, StoreTypes
  <2>. QED BY <1>p, <1>e, <2>1, <2>2, <2>3, NoNewRow
<1>13. ASSUME NEW a \in Agents, Messages!ReadDone(a) PROVE Rows'
  BY <1>1, <1>13, <1>e DEF Messages!ReadDone, Turns
<1>14. ASSUME NEW a \in Agents, Messages!Backfill(a) PROVE Rows'
  <2>1. PICK S \in SUBSET DOMAIN messages : todo' = [todo EXCEPT ![a] = S]
    BY <1>14 DEF Messages!Backfill, Messages!Oldest
  <2>2. \A b \in Agents : todo'[b] \subseteq todo[b] \cup DOMAIN messages
    BY <1>t, <2>1 DEF Messages!TypeOK
  <2>. QED BY <1>1, <1>14, <1>e, <2>2 DEF Messages!Backfill, Turns
<1>15. ASSUME NEW a \in Agents, Messages!Fill(a) PROVE Rows'
  <2>1. embedded' \subseteq DOMAIN messages
    BY <1>t, <1>e, <1>15 DEF Messages!Fill, StoreTypes, Messages!TypeOK
  <2>2. \A b \in Agents : todo'[b] \subseteq todo[b]
    BY <1>t, <1>15 DEF Messages!Fill, Messages!TypeOK
  <2>. QED BY <1>1, <1>15, <2>1, <2>2 DEF Messages!Fill, Turns
<1>. QED
  BY AgentSteps, <1>2, <1>3, <1>4, <1>5, <1>6, <1>7, <1>8, <1>9, <1>10, <1>11, <1>12, <1>13,
     <1>14, <1>15

\* The n oldest of a set: as many go, or all.
LEMMA OldestGo ==
  ASSUME NEW S \in SUBSET Nat, IsFiniteSet(S), NEW n \in Nat
  PROVE  /\ IsFiniteSet(S \ Messages!Oldest(S, n))
         /\ Cardinality(S \ Messages!Oldest(S, n)) \in Nat
         /\ Cardinality(S \ Messages!Oldest(S, n)) <= Cardinality(S)
         /\ \/ Cardinality(S \ Messages!Oldest(S, n)) = 0
            \/ Cardinality(S \ Messages!Oldest(S, n)) <= Cardinality(S) - n
<1>. DEFINE D == Messages!Oldest(S, n)
            Before(i) == {j \in S : j < i}
<1>1. D = {i \in S : Cardinality(Before(i)) < n}
  BY MsgCounts DEF Messages!Oldest
<1>2. /\ IsFiniteSet(S \ D) /\ Cardinality(S \ D) \in Nat /\ Cardinality(S) \in Nat
      /\ Cardinality(S \ D) = Cardinality(S) - Cardinality(S \cap D)
      /\ Cardinality(S \ D) <= Cardinality(S)
  BY FS_Difference, FS_CardinalityType, FS_Subset
<1>3. CASE S \ D = {}
  BY <1>2, <1>3, FS_EmptySet
<1>4. CASE S \ D # {}
  <2>1. \E i \in S \ D : \A j \in S \ D : <<j, i>> \notin OpToRel(<, Nat)
    BY <1>4, NatLessThanWellFounded, WFMin
  <2>2. PICK i \in S \ D : \A j \in S \ D : ~(j < i)
    BY <2>1 DEF OpToRel
  <2>3. Before(i) \subseteq S \cap D /\ IsFiniteSet(S \cap D) /\ Cardinality(S \cap D) \in Nat
    BY <2>2, FS_Intersection, FS_CardinalityType
  <2>4. Cardinality(Before(i)) \in Nat /\ Cardinality(Before(i)) <= Cardinality(S \cap D)
    BY <2>3, FS_Subset, FS_CardinalityType
  <2>5. ~(Cardinality(Before(i)) < n)
    BY <1>1, <2>2
  <2>. HIDE DEF D, Before
  <2>. QED BY <1>2, <2>3, <2>4, <2>5 DEF D
<1>. QED BY <1>2, <1>3, <1>4

\* An agent more or less between its insert and its eviction.
LEMMA OneAgent ==
  ASSUME Messages!MessageStoreAssumption, NEW S \in SUBSET Agents, NEW a \in Agents
  PROVE  /\ Cardinality(S) \in Nat
         /\ Cardinality(S \cup {a}) = IF a \in S THEN Cardinality(S) ELSE Cardinality(S) + 1
         /\ Cardinality(S \ {a}) = IF a \in S THEN Cardinality(S) - 1 ELSE Cardinality(S)
<1>1. IsFiniteSet(S)
  BY MsgCounts, FS_Subset DEF Messages!MessageStoreAssumption
<1>. QED BY <1>1, FS_AddElement, FS_RemoveElement, FS_CardinalityType

Bounded ==
  /\ EvictionsSuffice
  /\ Cardinality(Messages!Present) <= MaxMessages + Cardinality(Overdue)

\* A step that adds no row and leaves the agents between insert and eviction as they are.
LEMMA NoMoreRows ==
  ASSUME Messages!MessageStoreAssumption, StoreIInv, StoreTypes',
         Messages!Present' \subseteq Messages!Present, Overdue' = Overdue,
         \A a \in Agents : turn'[a] = "evict" => turn[a] = "evict" /\ excess'[a] = excess[a]
  PROVE  Bounded'
<1>1. Bounded /\ StoreTypes
  BY StoreBound DEF StoreIInv, Bounded
<1>2. /\ Cardinality(Messages!Present') \in Nat /\ Cardinality(Messages!Present) \in Nat
      /\ Cardinality(Messages!Present') <= Cardinality(Messages!Present)
  BY <1>1, StoreFinite, FS_Subset, FS_CardinalityType
<1>3. /\ Overdue \subseteq Agents /\ Cardinality(Overdue) \in Nat /\ MaxMessages \in Nat
      /\ \A a \in Agents : excess[a] \in Int /\ Cardinality(Overdue \ {a}) \in Nat
  BY <1>1, StoreFinite DEF Overdue, StoreTypes, Messages!MessageStoreAssumption
<1>4. ASSUME NEW a \in Agents, turn'[a] = "evict"
      PROVE  /\ excess'[a] > 0
             /\ Cardinality(Messages!Present') <= MaxMessages + excess'[a] + Cardinality(Overdue' \ {a})
  BY <1>1, <1>2, <1>3, <1>4 DEF Bounded, EvictionsSuffice
<1>5. Cardinality(Messages!Present') <= MaxMessages + Cardinality(Overdue')
  BY <1>1, <1>2, <1>3 DEF Bounded
<1>. QED BY <1>4, <1>5 DEF Bounded, EvictionsSuffice

LEMMA BoundStep ==
  ASSUME Messages!MessageStoreAssumption, StoreIInv, Messages!Next
  PROVE  Bounded'
<1>t. /\ StoreTypes /\ Messages!TypeOK /\ Bounded /\ StoreTypes'
      /\ MaxMessages \in Nat \ {0}
  BY StoreBound, StoreTypesStep DEF StoreIInv, StoreTypes, Bounded, Messages!MessageStoreAssumption
<1>c. /\ Cardinality(DOMAIN messages) \in Nat /\ IsFiniteSet(DOMAIN messages)
      /\ \A S \in SUBSET Agents : Cardinality(S) \in Nat
      /\ \A a \in Agents : excess[a] \in Int
  BY <1>t, StoreFinite DEF Messages!Present, StoreTypes
<1> USE DEF Messages!Go, Messages!tables, Messages!locals, Messages!Present
<1>1. ASSUME UNCHANGED <<messages, excess>>,
             NEW a \in Agents, turn[a] \notin {"count", "evict"},
             NEW l \in Turns \ {"count", "evict"}, turn' = [turn EXCEPT ![a] = l]
      PROVE  Bounded'
  <2>1. Overdue' = Overdue /\ \A b \in Agents : turn'[b] = "evict" => turn[b] = "evict"
    BY <1>t, <1>1 DEF Overdue, StoreTypes
  <2>. QED BY <1>t, <1>1, <2>1, NoMoreRows
<1>2. CASE Messages!Expire
  <2>1. UNCHANGED <<messages, turn, excess>>
    BY <1>2 DEF Messages!Expire
  <2>. QED BY <1>t, <2>1, NoMoreRows DEF Overdue
<1>3. ASSUME NEW a \in Agents, Messages!Migrate(a) PROVE Bounded'
  <2>1. PICK l \in {"import", "idle"} : turn' = [turn EXCEPT ![a] = l]
    BY <1>3 DEF Messages!Migrate
  <2>. QED BY <1>1, <1>3, <2>1 DEF Messages!Migrate, Turns
<1>4. ASSUME NEW a \in Agents, Composing(a) PROVE Bounded'
  <2>1. PICK row \in Messages!Row : Messages!Compose(a, row) /\ turn[a] \in {"idle", "import"}
    BY <1>4, Composes
  <2>2. turn' = [turn EXCEPT ![a] = "insert"] /\ UNCHANGED <<messages, excess>>
    BY <2>1, Composed
  <2>. QED BY <1>1, <2>1, <2>2 DEF Turns
<1>5. ASSUME NEW a \in Agents, Messages!Insert(a) PROVE Bounded'
  <2>1. /\ turn[a] = "insert" /\ turn' = [turn EXCEPT ![a] = "count"]
        /\ DOMAIN messages' = DOMAIN messages \cup {draft[a]} /\ excess' = excess
    BY <1>5 DEF Messages!Insert
  <2>2. /\ Cardinality(DOMAIN messages') \in Nat
        /\ Cardinality(DOMAIN messages') <= Cardinality(DOMAIN messages) + 1
    <3>1. /\ Cardinality(DOMAIN messages \cup {draft[a]}) \in Nat
          /\ Cardinality(DOMAIN messages \cup {draft[a]}) <= Cardinality(DOMAIN messages) + 1
      <4>1. /\ IsFiniteSet(DOMAIN messages \cup {draft[a]})
            /\ \/ Cardinality(DOMAIN messages \cup {draft[a]}) = Cardinality(DOMAIN messages)
               \/ Cardinality(DOMAIN messages \cup {draft[a]}) = Cardinality(DOMAIN messages) + 1
        BY <1>c, FS_AddElement
      <4>. QED BY <1>c, <4>1, FS_CardinalityType
    <3>. QED BY <2>1, <3>1
  <2>3. Overdue' = Overdue \cup {a} /\ a \notin Overdue /\ Overdue \subseteq Agents
    BY <1>t, <2>1 DEF Overdue, StoreTypes
  <2>4. Cardinality(Overdue') = Cardinality(Overdue) + 1
    BY <2>3, OneAgent
  <2>5. ASSUME NEW b \in Agents, turn'[b] = "evict"
        PROVE  /\ excess'[b] > 0
               /\ Cardinality(DOMAIN messages') <= MaxMessages + excess'[b] + Cardinality(Overdue' \ {b})
    <3>1. b # a /\ turn[b] = "evict"
      BY <1>t, <2>1, <2>5 DEF StoreTypes
    <3>2. Overdue' \ {b} = (Overdue \ {b}) \cup {a} /\ a \notin Overdue \ {b}
      BY <2>3, <3>1
    <3>3. Cardinality(Overdue' \ {b}) = Cardinality(Overdue \ {b}) + 1
      BY <2>3, <3>2, OneAgent
    <3>4. /\ excess[b] > 0
          /\ Cardinality(DOMAIN messages) <= MaxMessages + excess[b] + Cardinality(Overdue \ {b})
      BY <1>t, <3>1 DEF Bounded, EvictionsSuffice
    <3>5. Cardinality(Overdue \ {b}) \in Nat
      BY <1>c, <2>3
    <3>. QED BY <1>t, <1>c, <2>1, <2>2, <3>3, <3>4, <3>5
  <2>6. Cardinality(DOMAIN messages') <= MaxMessages + Cardinality(Overdue')
    BY <1>t, <1>c, <2>2, <2>3, <2>4 DEF Bounded
  <2>. QED BY <2>5, <2>6 DEF Bounded, EvictionsSuffice
<1>6. ASSUME NEW a \in Agents, Messages!InsertFails(a) PROVE Bounded'
  BY <1>1, <1>6 DEF Messages!InsertFails, Turns
<1>7. ASSUME NEW a \in Agents, Messages!Count(a) PROVE Bounded'
  <2>1. /\ turn[a] = "count" /\ messages' = messages
        /\ excess' = [excess EXCEPT ![a] = Cardinality(DOMAIN messages) - MaxMessages]
        /\ turn' = [turn EXCEPT ![a] = IF excess'[a] > 0 THEN "evict" ELSE "embed"]
    BY <1>7, MsgCounts DEF Messages!Count
  <2>2. excess'[a] = Cardinality(DOMAIN messages) - MaxMessages
    BY <1>t, <2>1 DEF StoreTypes
  <2>3. CASE excess'[a] > 0
    <3>1. Overdue' = Overdue /\ turn' = [turn EXCEPT ![a] = "evict"]
      BY <1>t, <2>1, <2>3 DEF Overdue, StoreTypes
    <3>2. ASSUME NEW b \in Agents, turn'[b] = "evict"
          PROVE  /\ excess'[b] > 0
                 /\ Cardinality(DOMAIN messages) <= MaxMessages + excess'[b] + Cardinality(Overdue \ {b})
      <4>1. Cardinality(Overdue \ {b}) \in Nat
        BY <1>c DEF Overdue
      <4>2. CASE b = a
        BY <1>t, <1>c, <2>2, <2>3, <4>1, <4>2
      <4>3. CASE b # a
        BY <1>t, <1>c, <2>1, <3>1, <3>2, <4>3 DEF Bounded, EvictionsSuffice, StoreTypes
      <4>. QED BY <4>2, <4>3
    <3>. QED BY <1>t, <2>1, <3>1, <3>2 DEF Bounded, EvictionsSuffice
  <2>4. CASE ~(excess'[a] > 0)
    <3>1. /\ Overdue' = Overdue \ {a} /\ turn' = [turn EXCEPT ![a] = "embed"]
          /\ Cardinality(DOMAIN messages) <= MaxMessages
      BY <1>t, <1>c, <2>1, <2>2, <2>4 DEF Overdue, StoreTypes
    <3>2. ASSUME NEW b \in Agents, turn'[b] = "evict"
          PROVE  /\ excess'[b] > 0
                 /\ Cardinality(DOMAIN messages) <= MaxMessages + excess'[b] + Cardinality(Overdue' \ {b})
      <4>1. Cardinality(Overdue' \ {b}) \in Nat
        BY <1>c, <3>1 DEF Overdue
      <4>2. turn[b] = "evict" /\ excess'[b] = excess[b]
        BY <1>t, <2>1, <3>1, <3>2 DEF StoreTypes
      <4>3. excess[b] \in Int /\ excess[b] > 0
        BY <1>t, <1>c, <4>2 DEF Bounded, EvictionsSuffice
      <4>. QED BY <1>t, <1>c, <3>1, <4>1, <4>2, <4>3
    <3>3. Cardinality(Overdue') \in Nat
      BY <1>c, <3>1 DEF Overdue
    <3>. QED BY <1>t, <1>c, <2>1, <3>1, <3>2, <3>3 DEF Bounded, EvictionsSuffice
  <2>. QED BY <2>3, <2>4
<1>8. ASSUME NEW a \in Agents, Messages!Evict(a) PROVE Bounded'
  <2>. DEFINE gone == Messages!Oldest(DOMAIN messages, excess[a])
              left == DOMAIN messages \ gone
  <2>1. /\ turn[a] = "evict" /\ turn' = [turn EXCEPT ![a] = "embed"]
        /\ excess' = [excess EXCEPT ![a] = 0]
        /\ DOMAIN messages' = left
    BY <1>8, Deleted DEF Messages!Evict
  <2>2. /\ excess[a] \in Nat /\ excess[a] > 0 /\ DOMAIN messages \subseteq Nat
        /\ Cardinality(DOMAIN messages) <= MaxMessages + excess[a] + Cardinality(Overdue \ {a})
    BY <1>t, <1>c, <2>1 DEF Bounded, EvictionsSuffice, StoreTypes, Messages!TypeOK
  <2>3. /\ Cardinality(left) \in Nat /\ Cardinality(left) <= Cardinality(DOMAIN messages)
        /\ Cardinality(left) = 0 \/ Cardinality(left) <= Cardinality(DOMAIN messages) - excess[a]
    BY <1>c, <2>2, OldestGo
  <2>4. /\ Overdue' = Overdue \ {a} /\ a \in Overdue /\ Overdue \subseteq Agents
    BY <1>t, <2>1 DEF Overdue, StoreTypes
  <2>. HIDE DEF left, gone
  <2>5. ASSUME NEW b \in Agents, turn'[b] = "evict"
        PROVE  /\ excess'[b] > 0
               /\ Cardinality(left) <= MaxMessages + excess'[b] + Cardinality(Overdue' \ {b})
    <3>1. b # a /\ turn[b] = "evict" /\ excess'[b] = excess[b]
      BY <1>t, <2>1, <2>5 DEF StoreTypes
    <3>2. Overdue' \ {b} = (Overdue \ {b}) \ {a} /\ a \in Overdue \ {b} /\ Overdue \ {b} \subseteq Agents
      BY <2>4, <3>1
    <3>3. /\ Cardinality(Overdue' \ {b}) = Cardinality(Overdue \ {b}) - 1
          /\ Cardinality(Overdue' \ {b}) \in Nat /\ Cardinality(Overdue \ {b}) \in Nat
      BY <1>c, <2>4, <3>2, OneAgent
    <3>4. /\ excess[b] > 0
          /\ Cardinality(DOMAIN messages) <= MaxMessages + excess[b] + Cardinality(Overdue \ {b})
      BY <1>t, <3>1 DEF Bounded, EvictionsSuffice
    <3>. QED BY <1>t, <1>c, <2>2, <2>3, <3>1, <3>3, <3>4
  <2>6. Cardinality(left) <= MaxMessages + Cardinality(Overdue')
    <3>1. Cardinality(Overdue') \in Nat
      BY <1>c, <2>4
    <3>. QED BY <1>t, <1>c, <2>2, <2>3, <2>4, <3>1
  <2>. QED BY <2>1, <2>5, <2>6 DEF Bounded, EvictionsSuffice
<1>9. ASSUME NEW a \in Agents, Messages!Cleanup(a) PROVE Bounded'
  <2>1. /\ turn[a] = "idle" /\ turn' = [turn EXCEPT ![a] = "backfill"] /\ excess' = excess
        /\ DOMAIN messages' \subseteq DOMAIN messages
    BY <1>9, Deleted DEF Messages!Cleanup
  <2>2. Overdue' = Overdue /\ \A b \in Agents : turn'[b] = "evict" => turn[b] = "evict"
    BY <1>t, <2>1 DEF Overdue, StoreTypes
  <2>. QED BY <1>t, <2>1, <2>2, NoMoreRows
<1>10. ASSUME NEW a \in Agents, Messages!Embed(a) PROVE Bounded'
  BY <1>1, <1>10 DEF Messages!Embed, Turns
<1>11. ASSUME NEW a \in Agents, Messages!Read(a) PROVE Bounded'
  BY <1>1, <1>11 DEF Messages!Read, Turns
<1>12. ASSUME NEW a \in Agents, Messages!Look(a) PROVE Bounded'
  <2>1. /\ turn[a] = "look" /\ turn' \in {turn, [turn EXCEPT ![a] = "mark"]}
        /\ UNCHANGED <<messages, excess>>
    BY <1>12 DEF Messages!Look
  <2>2. Overdue' = Overdue /\ \A b \in Agents : turn'[b] = "evict" => turn[b] = "evict"
    BY <1>t, <2>1 DEF Overdue, StoreTypes
  <2>. QED BY <1>t, <2>1, <2>2, NoMoreRows
<1>13. ASSUME NEW a \in Agents, Messages!Mark(a) PROVE Bounded'
  <2>1. /\ turn[a] = "mark" /\ turn' = [turn EXCEPT ![a] = "look"] /\ excess' = excess
        /\ DOMAIN messages' = DOMAIN messages
    BY <1>13 DEF Messages!Mark
  <2>2. Overdue' = Overdue /\ \A b \in Agents : turn'[b] = "evict" => turn[b] = "evict"
    BY <1>t, <2>1 DEF Overdue, StoreTypes
  <2>. QED BY <1>t, <2>1, <2>2, NoMoreRows
<1>14. ASSUME NEW a \in Agents, Messages!ReadDone(a) PROVE Bounded'
  BY <1>1, <1>14 DEF Messages!ReadDone, Turns
<1>15. ASSUME NEW a \in Agents, Messages!Backfill(a) PROVE Bounded'
  BY <1>1, <1>15 DEF Messages!Backfill, Turns
<1>16. ASSUME NEW a \in Agents, Messages!Fill(a) PROVE Bounded'
  BY <1>1, <1>16 DEF Messages!Fill, Turns
<1>. QED
  BY AgentSteps, <1>2, <1>3, <1>4, <1>5, <1>6, <1>7, <1>8, <1>9, <1>10, <1>11, <1>12, <1>13,
     <1>14, <1>15, <1>16

LEMMA SetsFinite ==
  ASSUME Messages!MessageStoreAssumption, NEW a \in Agents
  PROVE  /\ IsFiniteSet(Sets(a)) /\ Cardinality(Sets(a)) \in Nat
         /\ \A T \in SUBSET Sets(a) : IsFiniteSet(T) /\ Cardinality(T) \in Nat
                                      /\ Cardinality(T) <= Cardinality(Sets(a))
<1>1. IsFiniteSet(SUBSET Agents)
  BY MsgCounts, FS_SUBSET DEF Messages!MessageStoreAssumption
<1>2. IsFiniteSet(Sets(a))
  BY <1>1, FS_Subset DEF Sets
<1>. QED BY <1>2, FS_Subset, FS_CardinalityType

\* Every agent but the one itself doubles the number of sets it is in.
LEMMA SetsDouble ==
  ASSUME Messages!MessageStoreAssumption, NEW a \in Agents
  PROVE  Cardinality(Sets(a)) = 2 ^ (Cardinality(Agents) - 1)
<1>. DEFINE others == Agents \ {a}
            f == [Y \in SUBSET others |-> Y \cup {a}]
<1>1. /\ IsFiniteSet(others) /\ Cardinality(others) = Cardinality(Agents) - 1
  BY MsgCounts, FS_RemoveElement DEF Messages!MessageStoreAssumption
<1>2. /\ IsFiniteSet(SUBSET others) /\ Cardinality(SUBSET others) = 2 ^ (Cardinality(Agents) - 1)
  BY <1>1, FS_SUBSET
<1>3. f \in Bijection(SUBSET others, Sets(a))
  <2>1. f \in [SUBSET others -> Sets(a)]
    BY DEF Sets
  <2>2. \A Y, Z \in SUBSET others : f[Y] = f[Z] => Y = Z
    OBVIOUS
  <2>3. ASSUME NEW Z \in Sets(a) PROVE \E Y \in SUBSET others : f[Y] = Z
    <3>1. Z \ {a} \in SUBSET others /\ f[Z \ {a}] = Z
      BY DEF Sets
    <3>. QED BY <3>1
  <2>. HIDE DEF f
  <2>. QED BY <2>1, <2>2, <2>3 DEF Bijection, Injection, Surjection, IsInjective
<1>4. ExistsBijection(SUBSET others, Sets(a))
  BY <1>3 DEF ExistsBijection
<1>. QED BY <1>2, <1>4, FS_Bijection

LEMMA ChancesAreSets ==
  \A a : ChancesOf(a) \subseteq Sets(a)
BY DEF ChancesOf, Chances, Sets

Handling(a) == turn[a] \in {"look", "mark"} /\ 1 \in todo[a]

\* The marks to come are the same when the row and the agents at it are.
LEMMA SameChances ==
  ASSUME messages'[1].readBy = messages[1].readBy,
         \A q \in Agents : Marking(q)' <=> Marking(q),
         \A q \in Agents : Marking(q) => readers'[q] = readers[q]
  PROVE  Chances' = Chances /\ \A a : ChancesOf(a)' = ChancesOf(a)
<1>1. \A Y \in SUBSET Agents :
        (\E q \in Y : Marking(q)' /\ Y \cap readers'[q] = {})
          <=> (\E q \in Y : Marking(q) /\ Y \cap readers[q] = {})
  OBVIOUS
<1>2. Chances' = Chances
  BY <1>1 DEF Chances
<1>. QED BY <1>2 DEF ChancesOf

\* A step that neither reads nor marks message 1, nor inserts it.
LEMMA NoReading ==
  ASSUME Messages!MessageStoreAssumption, StoreIInv, got' = got, sent' \in Nat, sent' >= sent,
         \A b \in Inserting' : draft'[b] = 1 => sent = 0 \/ (b \in Inserting /\ draft[b] = 1),
         1 \in Messages!Present' =>
           /\ 1 \in Messages!Present /\ messages'[1].readBy = messages[1].readBy,
         \A q \in Agents : Marking(q)' <=> Marking(q),
         \A q \in Agents : Marking(q) => readers'[q] = readers[q],
         \A q \in Agents : Handling(q)' <=> Handling(q)
  PROVE  RereadsAreCounted'
<1>1. RereadsAreCounted /\ StoreTypes
  BY DEF StoreIInv
<1>2. ASSUME NEW a \in Agents
      PROVE  /\ got'[a] > 0 => sent' > 0
             /\ \A b \in Inserting' : draft'[b] = 1 => got'[a] = 0
             /\ got'[a] <= Cardinality(Sets(a))
  <2>1. got[a] \in Nat /\ sent \in Nat
    BY <1>1 DEF StoreTypes, Messages!TypeOK
  <2>2. /\ got[a] > 0 => sent > 0
        /\ \A b \in Inserting : draft[b] = 1 => got[a] = 0
        /\ got[a] <= Cardinality(Sets(a))
    BY <1>1 DEF RereadsAreCounted
  <2>. QED BY <2>1, <2>2
<1>3. ASSUME NEW a \in Agents, 1 \in Messages!Present'
      PROVE  got'[a] + Cardinality(ChancesOf(a)')
               <= Cardinality(Sets(a)) + (IF Given(a)' THEN 1 ELSE 0)
  <2>1. ChancesOf(a)' = ChancesOf(a) /\ Chances' = Chances
    BY <1>3, SameChances
  <2>2. Given(a)' <=> Given(a)
    BY <2>1 DEF Given, Handling
  <2>. QED BY <1>1, <1>3, <2>1, <2>2 DEF RereadsAreCounted
<1>. QED BY <1>2, <1>3 DEF RereadsAreCounted, Sets

\* What a mark of message 1 does to the marks to come: a set that is new takes
\* the place of one with the marking agent, which is gone, and the agent alone
\* is gone for good.
LEMMA MarkTakesAChance ==
  ASSUME NEW a \in Agents, Marking(a), ~Marking(a)', a \notin readers[a],
         messages'[1].readBy = readers[a] \cup {a},
         \A q \in Agents \ {a} : (Marking(q)' <=> Marking(q)) /\ readers'[q] = readers[q],
         NEW b \in Agents, NEW E \in {{}, {{a}}, {{b}}},
         E \cap ChancesOf(b)' = {}
  PROVE  \E f : f \in Injection(ChancesOf(b)', ChancesOf(b) \ E)
<1>. DEFINE f == [Y \in ChancesOf(b)' |-> IF Y \in Chances THEN Y ELSE Y \cup {a}]
<1>1. ASSUME NEW Y \in Chances', a \in Y
      PROVE  Y \in Chances
  <2>1. PICK q \in Y : Marking(q)' /\ Y \cap readers'[q] = {}
    BY <1>1 DEF Chances
  <2>2. q # a /\ q \in Agents /\ Y \in (SUBSET Agents) \ {{}}
    BY <2>1 DEF Chances
  <2>. QED BY <2>1, <2>2 DEF Chances
<1>2. ASSUME NEW Y \in Chances', Y \notin Chances
      PROVE  a \notin Y /\ Y \cup {a} \in Chances /\ Y \cup {a} \notin Chances'
  <2>1. Y \in (SUBSET Agents) \ {{}} /\ a \notin Y
    BY <1>1, <1>2 DEF Chances
  <2>2. ~ \E q \in Y : Marking(q)' /\ Y \cap readers'[q] = {}
    BY <1>2, <2>1 DEF Chances
  <2>3. Y \cap readers[a] = {}
    BY <1>2, <2>1, <2>2 DEF Chances
  <2>4. Y \cup {a} \in Chances
    <3>1. Y \cup {a} \in (SUBSET Agents) \ {{}} /\ a \in Y \cup {a}
      <4>1. Y \subseteq Agents /\ a \in Y \cup {a}
        BY <2>1
      <4>2. Y \cup {a} \subseteq Agents /\ Y \cup {a} # {}
        BY <4>1
      <4>. QED BY <4>1, <4>2
    <3>2. \A x \in Y \cup {a} : x \notin readers[a]
      BY <2>3
    <3>3. (Y \cup {a}) \cap readers[a] = {}
      BY <3>2
    <3>. QED BY <3>1, <3>3 DEF Chances
  <2>5. ASSUME Y \cup {a} \in Chances' PROVE FALSE
    <3>1. PICK q \in Y \cup {a} : Marking(q)' /\ (Y \cup {a}) \cap readers'[q] = {}
      BY <2>5 DEF Chances
    <3>. QED BY <2>2, <3>1
  <2>. QED BY <2>1, <2>4, <2>5
<1>3. {a} \notin Chances'
  BY DEF Chances
<1>4. ASSUME NEW Y \in ChancesOf(b)'
      PROVE  f[Y] \in ChancesOf(b) \ E
  <2>1. Y \in Chances' /\ b \in Y
    BY DEF ChancesOf
  <2>2. CASE Y \in Chances
    BY <2>1, <2>2 DEF ChancesOf
  <2>3. CASE Y \notin Chances
    <3>1. f[Y] = Y \cup {a} /\ a \notin Y /\ Y \cup {a} \in Chances
      BY <1>2, <2>1, <2>3
    <3>2. Y \cup {a} # {b} /\ Y \cup {a} # {a}
      BY <2>1, <3>1
    <3>. QED BY <2>1, <3>1, <3>2 DEF ChancesOf
  <2>. QED BY <2>2, <2>3
<1>5. ASSUME NEW Y \in ChancesOf(b)', NEW Z \in ChancesOf(b)', f[Y] = f[Z]
      PROVE  Y = Z
  <2>1. Y \in Chances' /\ Z \in Chances'
    BY DEF ChancesOf
  <2>2. /\ f[Y] = IF Y \in Chances THEN Y ELSE Y \cup {a}
        /\ f[Z] = IF Z \in Chances THEN Z ELSE Z \cup {a}
    OBVIOUS
  <2>. HIDE DEF f
  <2>3. CASE Y \in Chances /\ Z \in Chances
    BY <1>5, <2>2, <2>3
  <2>4. CASE Y \in Chances /\ Z \notin Chances
    <3>1. Z \cup {a} \notin Chances'
      BY <1>2, <2>1, <2>4
    <3>. QED BY <1>5, <2>1, <2>2, <2>4, <3>1
  <2>5. CASE Y \notin Chances /\ Z \in Chances
    <3>1. Y \cup {a} \notin Chances'
      BY <1>2, <2>1, <2>5
    <3>. QED BY <1>5, <2>1, <2>2, <2>5, <3>1
  <2>6. CASE Y \notin Chances /\ Z \notin Chances
    <3>1. a \notin Y /\ a \notin Z /\ Y \cup {a} = Z \cup {a}
      BY <1>2, <1>5, <2>1, <2>2, <2>6
    <3>2. \A x : x \in Y <=> x \in Z
      BY <3>1
    <3>. QED BY <3>2
  <2>. QED BY <2>3, <2>4, <2>5, <2>6
<1>6. f \in [ChancesOf(b)' -> ChancesOf(b) \ E]
  BY <1>4
<1>. HIDE DEF f
<1>7. f \in Injection(ChancesOf(b)', ChancesOf(b) \ E)
  <2>1. DOMAIN f = ChancesOf(b)'
    BY <1>6
  <2>. QED BY <1>5, <1>6, <2>1 DEF Injection, IsInjective
<1>. QED BY <1>7

\* So does it to their number.
LEMMA MarkCounts ==
  ASSUME Messages!MessageStoreAssumption,
         NEW a \in Agents, Marking(a), ~Marking(a)', a \notin readers[a],
         messages'[1].readBy = readers[a] \cup {a},
         \A q \in Agents \ {a} : (Marking(q)' <=> Marking(q)) /\ readers'[q] = readers[q],
         NEW b \in Agents
  PROVE  /\ Cardinality(ChancesOf(b)') \in Nat /\ Cardinality(ChancesOf(b)) \in Nat
         /\ Cardinality(ChancesOf(b)') <= Cardinality(ChancesOf(b))
         /\ {b} \in Chances /\ {b} \notin Chances' =>
              Cardinality(ChancesOf(b)') <= Cardinality(ChancesOf(b)) - 1
<1>1. /\ IsFiniteSet(ChancesOf(b)) /\ Cardinality(ChancesOf(b)) \in Nat
      /\ IsFiniteSet(ChancesOf(b)') /\ Cardinality(ChancesOf(b)') \in Nat
  <2>1. ChancesOf(b) \subseteq Sets(b) /\ ChancesOf(b)' \subseteq Sets(b)
    BY DEF ChancesOf, Chances, Sets
  <2>. QED BY <2>1, SetsFinite
<1>2. Cardinality(ChancesOf(b)') <= Cardinality(ChancesOf(b))
  <2>1. PICK f : f \in Injection(ChancesOf(b)', ChancesOf(b) \ {})
    BY MarkTakesAChance
  <2>2. ChancesOf(b) \ {} = ChancesOf(b)
    OBVIOUS
  <2>. QED BY <1>1, <2>1, <2>2, FS_Injection
<1>3. ASSUME {b} \in Chances, {b} \notin Chances'
      PROVE  Cardinality(ChancesOf(b)') <= Cardinality(ChancesOf(b)) - 1
  <2>. DEFINE rest == ChancesOf(b) \ {{b}}
  <2>1. {{b}} \cap ChancesOf(b)' = {} /\ {b} \in ChancesOf(b)
    BY <1>3 DEF ChancesOf
  <2>2. PICK f : f \in Injection(ChancesOf(b)', rest)
    BY <2>1, MarkTakesAChance
  <2>3. IsFiniteSet(rest) /\ Cardinality(rest) = Cardinality(ChancesOf(b)) - 1
    BY <1>1, <2>1, FS_RemoveElement
  <2>. HIDE DEF rest
  <2>. QED BY <1>1, <2>2, <2>3, FS_Injection
<1>. QED BY <1>1, <1>2, <1>3

\* One agent's mark of message 1, whatever the others are about to write.
LEMMA MarkStep ==
  ASSUME Messages!MessageStoreAssumption, StoreIInv, NEW a \in Agents, Messages!Mark(a)
  PROVE  RereadsAreCounted'
<1>t. StoreTypes /\ Messages!TypeOK /\ AtHand /\ RereadsAreCounted
  BY DEF StoreIInv, StoreTypes
<1>. DEFINE c == Messages!Current(a)
<1>1. /\ turn[a] = "mark" /\ turn' = [turn EXCEPT ![a] = "look"]
      /\ todo' = [todo EXCEPT ![a] = @ \ {c}]
      /\ readers' = [readers EXCEPT ![a] = {}]
      /\ DOMAIN messages' = DOMAIN messages
      /\ UNCHANGED <<sent, draft, got>>
  BY DEF Messages!Mark, Messages!Go, Messages!Present
<1>2. /\ c \in todo[a] /\ (1 \in todo[a] => c = 1) /\ a \notin readers[a]
      /\ \A i \in DOMAIN messages :
           messages'[i].readBy = IF i = c THEN readers[a] \cup {a} ELSE messages[i].readBy
  <2>1. todo[a] # {} /\ a \notin readers[a]
    BY <1>t, <1>1 DEF AtHand
  <2>2. \A i \in DOMAIN messages : messages[i] \in Messages!Row
    BY <1>t DEF Messages!TypeOK, Messages!Present
  <2>3. \A i \in DOMAIN messages :
           messages'[i] = IF i = c THEN [messages[i] EXCEPT !.readBy = readers[a] \cup {a}]
                          ELSE messages[i]
    BY DEF Messages!Mark, Messages!Present
  <2>. HIDE DEF c
  <2>4. \A i \in DOMAIN messages :
           messages'[i].readBy = IF i = c THEN readers[a] \cup {a} ELSE messages[i].readBy
    BY <2>2, <2>3 DEF Messages!Row
  <2>. QED BY <1>t, <2>1, <2>4, CurrentIsAtHand DEF c
<1>. HIDE DEF c
<1>3. /\ Inserting' = Inserting /\ sent \in Nat
      /\ \A q \in Agents \ {a} :
           /\ turn'[q] = turn[q] /\ todo'[q] = todo[q] /\ readers'[q] = readers[q]
      /\ turn'[a] = "look" /\ todo'[a] = todo[a] \ {c}
  BY <1>t, <1>1 DEF Inserting, StoreTypes, Messages!TypeOK
<1>4. CASE 1 \notin todo[a]
  <2>1. c # 1
    BY <1>2, <1>4
  <2>2. \A q \in Agents : /\ Marking(q)' <=> Marking(q)
                          /\ Marking(q) => readers'[q] = readers[q]
                          /\ Handling(q)' <=> Handling(q)
    BY <1>3, <1>4 DEF Marking, Handling
  <2>. QED BY <1>1, <1>2, <1>3, <2>1, <2>2, NoReading DEF Messages!Present
<1>5. CASE 1 \in todo[a] /\ 1 \notin DOMAIN messages
  BY <1>t, <1>1, <1>3, <1>5 DEF RereadsAreCounted, Messages!Present, Sets
<1>6. CASE 1 \in todo[a] /\ 1 \in DOMAIN messages
  <2>1. /\ Marking(a) /\ ~Marking(a)' /\ messages'[1].readBy = readers[a] \cup {a}
        /\ \A q \in Agents \ {a} : Marking(q)' <=> Marking(q)
    BY <1>1, <1>2, <1>3, <1>6 DEF Marking
  <2>2. \A b \in Agents : /\ Cardinality(ChancesOf(b)') \in Nat /\ Cardinality(ChancesOf(b)) \in Nat
                          /\ Cardinality(ChancesOf(b)') <= Cardinality(ChancesOf(b))
                          /\ {b} \in Chances /\ {b} \notin Chances' =>
                               Cardinality(ChancesOf(b)') <= Cardinality(ChancesOf(b)) - 1
    BY <1>2, <1>3, <2>1, MarkCounts
  <2>3. {a} \notin Chances'
    BY <2>1 DEF Chances
  <2>4. ASSUME NEW b \in Agents
        PROVE  got[b] + Cardinality(ChancesOf(b)')
                 <= Cardinality(Sets(b)) + (IF Given(b)' THEN 1 ELSE 0)
    <3>1. got[b] \in Nat /\ Cardinality(Sets(b)) \in Nat
      BY <1>t, SetsFinite DEF StoreTypes
    <3>2. got[b] + Cardinality(ChancesOf(b)) <= Cardinality(Sets(b)) + (IF Given(b) THEN 1 ELSE 0)
      BY <1>t, <1>6 DEF RereadsAreCounted, Messages!Present
    <3>3. CASE ~Given(b) \/ Given(b)'
      <4>1. (IF Given(b) THEN 1 ELSE 0) \in 0..1 /\ (IF Given(b)' THEN 1 ELSE 0) \in 0..1
            /\ (IF Given(b) THEN 1 ELSE 0) <= (IF Given(b)' THEN 1 ELSE 0)
        BY <3>3
      <4>2. Cardinality(ChancesOf(b)') \in Nat /\ Cardinality(ChancesOf(b)) \in Nat
            /\ Cardinality(ChancesOf(b)') <= Cardinality(ChancesOf(b))
        BY <2>2
      <4>. QED BY <3>1, <3>2, <4>1, <4>2
    <3>4. CASE Given(b) /\ ~Given(b)'
      <4>1. {b} \in Chances /\ {b} \notin Chances'
        BY <1>3, <2>3, <3>4 DEF Given
      <4>. QED BY <2>2, <3>1, <3>2, <3>4, <4>1
    <3>. QED BY <3>3, <3>4
  <2>. QED BY <1>t, <1>1, <1>3, <2>4 DEF RereadsAreCounted, Sets
<1>. QED BY <1>4, <1>5, <1>6

LEMMA RereadStep ==
  ASSUME Messages!MessageStoreAssumption, StoreIInv, Messages!Next
  PROVE  RereadsAreCounted'
<1>t. /\ StoreTypes /\ Messages!TypeOK /\ AtHand /\ RereadsAreCounted /\ DraftsAreNew
      /\ StoreTypes' /\ sent \in Nat
  BY StoreTypesStep DEF StoreIInv, StoreTypes, Messages!TypeOK
<1>h. \A q \in Agents : turn[q] \notin {"look", "mark"} => ~Handling(q) /\ ~Marking(q)
  BY DEF Handling, Marking
<1> USE DEF Messages!Go, Messages!tables, Messages!locals, Messages!Present
\* An agent that neither begins to read nor is reading goes on.
<1>1. ASSUME UNCHANGED <<readers, got>>, sent' \in Nat, sent' >= sent,
             NEW a \in Agents, ~Handling(a) /\ ~Marking(a),
             NEW l \in Turns \ {"look", "mark"}, turn' = [turn EXCEPT ![a] = l],
             \A q \in Agents \ {a} : todo'[q] = todo[q],
             \A b \in Inserting' : draft'[b] = 1 => sent = 0 \/ (b \in Inserting /\ draft[b] = 1),
             1 \in DOMAIN messages' =>
               1 \in DOMAIN messages /\ messages'[1].readBy = messages[1].readBy
      PROVE  RereadsAreCounted'
  <2>1. turn'[a] = l /\ \A q \in Agents \ {a} : turn'[q] = turn[q]
    BY <1>t, <1>1 DEF StoreTypes
  <2>2. \A q \in Agents : /\ Marking(q)' <=> Marking(q)
                          /\ Handling(q)' <=> Handling(q)
    BY <1>1, <2>1 DEF Marking, Handling
  <2>. QED BY <1>1, <2>2, NoReading
\* The same, of an agent that has no draft to insert then.
<1>0. ASSUME UNCHANGED <<sent, readers, got>>,
             NEW a \in Agents, ~Handling(a) /\ ~Marking(a),
             NEW l \in Turns \ {"look", "mark", "insert"}, turn' = [turn EXCEPT ![a] = l],
             \A q \in Agents \ {a} : todo'[q] = todo[q] /\ draft'[q] = draft[q],
             1 \in DOMAIN messages' =>
               1 \in DOMAIN messages /\ messages'[1].readBy = messages[1].readBy
      PROVE  RereadsAreCounted'
  <2>1. \A b \in Inserting' : b \in Inserting /\ draft'[b] = draft[b]
    BY <1>t, <1>0 DEF Inserting, StoreTypes
  <2>2. sent' \in Nat /\ sent' >= sent
    BY <1>t, <1>0
  <2>. QED BY <1>0, <1>1, <2>1, <2>2
<1>2. CASE Messages!Expire
  <2>1. UNCHANGED <<messages, sent, turn, draft, todo, readers, got>>
    BY <1>2 DEF Messages!Expire
  <2>. QED BY <1>t, <2>1, NoReading DEF Inserting, Marking, Handling
<1>3. ASSUME NEW a \in Agents, Messages!Migrate(a) PROVE RereadsAreCounted'
  <2>1. PICK l \in {"import", "idle"} : turn' = [turn EXCEPT ![a] = l]
    BY <1>3 DEF Messages!Migrate
  <2>2. turn[a] = "start" /\ UNCHANGED <<messages, sent, draft, todo, readers, got>>
    BY <1>3 DEF Messages!Migrate
  <2>3. ~Handling(a) /\ ~Marking(a) /\ l \in Turns \ {"look", "mark", "insert"}
    BY <1>h, <2>1, <2>2 DEF Turns
  <2>. QED BY <1>0, <2>1, <2>2, <2>3
<1>4. ASSUME NEW a \in Agents, Composing(a) PROVE RereadsAreCounted'
  <2>1. PICK row \in Messages!Row : Messages!Compose(a, row) /\ turn[a] \in {"idle", "import"}
    BY <1>4, Composes
  <2>2. /\ turn' = [turn EXCEPT ![a] = "insert"] /\ sent' = sent + 1
        /\ draft' = [draft EXCEPT ![a] = sent + 1]
        /\ UNCHANGED <<messages, todo, readers, got>>
    BY <2>1, Composed
  <2>3. ~Handling(a) /\ ~Marking(a) /\ "insert" \in Turns \ {"look", "mark"}
    BY <1>h, <2>1 DEF Turns
  <2>4. sent' \in Nat /\ sent' >= sent
    BY <1>t, <2>2
  <2>5. ASSUME NEW b \in Inserting', draft'[b] = 1
        PROVE  sent = 0 \/ (b \in Inserting /\ draft[b] = 1)
    BY <1>t, <2>2, <2>5 DEF Inserting, StoreTypes, Messages!TypeOK
  <2>. QED BY <1>1, <2>2, <2>3, <2>4, <2>5
<1>5. ASSUME NEW a \in Agents, Messages!Insert(a) PROVE RereadsAreCounted'
  <2>1. /\ turn[a] = "insert" /\ a \in Inserting
        /\ DOMAIN messages' = DOMAIN messages \cup {draft[a]}
        /\ \A i \in DOMAIN messages' :
             messages'[i] = IF i = draft[a] THEN fields[a] ELSE messages[i]
        /\ turn' = [turn EXCEPT ![a] = "count"]
        /\ UNCHANGED <<sent, draft, todo, readers, got>>
    BY <1>5 DEF Messages!Insert, Inserting
  <2>2. CASE draft[a] # 1
    <3>1. 1 \in DOMAIN messages' =>
               1 \in DOMAIN messages /\ messages'[1].readBy = messages[1].readBy
      BY <2>1, <2>2
    <3>2. ~Handling(a) /\ ~Marking(a) /\ "count" \in Turns \ {"look", "mark", "insert"}
      BY <1>h, <2>1 DEF Turns
    <3>. QED BY <1>0, <2>1, <3>1, <3>2
  <2>3. CASE draft[a] = 1
    <3>1. /\ \A b \in Agents : 1 \notin todo[b] /\ got[b] = 0
          /\ Inserting' = Inserting \ {a}
          /\ \A b \in Inserting \ {a} : draft[b] # 1
      BY <1>t, <2>1, <2>3 DEF DraftsAreNew, RereadsAreCounted, Inserting, StoreTypes
    <3>2. ASSUME NEW b \in Agents
          PROVE  /\ Cardinality(Sets(b)) \in Nat /\ Cardinality(ChancesOf(b)') \in Nat
                 /\ Cardinality(ChancesOf(b)') <= Cardinality(Sets(b))
                 /\ ~Given(b)'
      <4>1. ChancesOf(b)' \subseteq Sets(b)
        BY DEF ChancesOf, Chances, Sets
      <4>2. ~Given(b)'
        BY <2>1, <3>1 DEF Given
      <4>. QED BY <4>1, <4>2, SetsFinite
    <3>3. ASSUME NEW b \in Agents
          PROVE  /\ got'[b] = 0 /\ ~(got'[b] > 0) /\ got'[b] <= Cardinality(Sets(b))
                 /\ got'[b] + Cardinality(ChancesOf(b)')
                      <= Cardinality(Sets(b)) + (IF Given(b)' THEN 1 ELSE 0)
      <4>1. got'[b] = 0
        BY <2>1, <3>1
      <4>. QED BY <3>2, <4>1
    <3>. QED BY <3>3 DEF RereadsAreCounted, Sets
  <2>. QED BY <2>2, <2>3
<1>6. ASSUME NEW a \in Agents, Messages!InsertFails(a) PROVE RereadsAreCounted'
  <2>1. /\ turn[a] = "insert" /\ turn' = [turn EXCEPT ![a] = "idle"]
        /\ draft' = [draft EXCEPT ![a] = Messages!NoId]
        /\ UNCHANGED <<messages, sent, todo, readers, got>>
    BY <1>6 DEF Messages!InsertFails
  <2>2. \A q \in Agents \ {a} : draft'[q] = draft[q]
    BY <1>t, <2>1 DEF Messages!TypeOK
  <2>3. ~Handling(a) /\ ~Marking(a) /\ "idle" \in Turns \ {"look", "mark", "insert"}
    BY <1>h, <2>1 DEF Turns
  <2>. QED BY <1>0, <2>1, <2>2, <2>3
<1>7. ASSUME NEW a \in Agents, Messages!Count(a) PROVE RereadsAreCounted'
  <2>1. PICK l \in {"evict", "embed"} : turn' = [turn EXCEPT ![a] = l]
    BY <1>7 DEF Messages!Count
  <2>2. turn[a] = "count" /\ UNCHANGED <<messages, sent, draft, todo, readers, got>>
    BY <1>7 DEF Messages!Count
  <2>3. ~Handling(a) /\ ~Marking(a) /\ l \in Turns \ {"look", "mark", "insert"}
    BY <1>h, <2>1, <2>2 DEF Turns
  <2>. QED BY <1>0, <2>1, <2>2, <2>3
<1>8. ASSUME NEW a \in Agents, Messages!Evict(a) \/ Messages!Cleanup(a) PROVE RereadsAreCounted'
  <2>1. PICK gone : Messages!Delete(gone)
    BY <1>8 DEF Messages!Evict, Messages!Cleanup
  <2>2. PICK l \in {"embed", "backfill"} :
          /\ turn' = [turn EXCEPT ![a] = l] /\ turn[a] \in {"evict", "idle"}
          /\ UNCHANGED <<sent, draft, todo, readers, got>>
    BY <1>8 DEF Messages!Evict, Messages!Cleanup
  <2>3. 1 \in DOMAIN messages' =>
               1 \in DOMAIN messages /\ messages'[1].readBy = messages[1].readBy
    BY <2>1, Deleted
  <2>4. ~Handling(a) /\ ~Marking(a) /\ l \in Turns \ {"look", "mark", "insert"}
    BY <1>h, <2>2 DEF Turns
  <2>. QED BY <1>0, <2>2, <2>3, <2>4
<1>9. ASSUME NEW a \in Agents, Messages!Embed(a) PROVE RereadsAreCounted'
  <2>1. /\ turn[a] = "embed" /\ turn' = [turn EXCEPT ![a] = "idle"]
        /\ draft' = [draft EXCEPT ![a] = Messages!NoId]
        /\ UNCHANGED <<messages, sent, todo, readers, got>>
    BY <1>9 DEF Messages!Embed
  <2>2. \A q \in Agents \ {a} : draft'[q] = draft[q]
    BY <1>t, <2>1 DEF Messages!TypeOK
  <2>3. ~Handling(a) /\ ~Marking(a) /\ "idle" \in Turns \ {"look", "mark", "insert"}
    BY <1>h, <2>1 DEF Turns
  <2>. QED BY <1>0, <2>1, <2>2, <2>3
<1>10. ASSUME NEW a \in Agents, Messages!Read(a) PROVE RereadsAreCounted'
  <2>1. PICK S \in SUBSET DOMAIN messages :
          /\ todo' = [todo EXCEPT ![a] = S]
          /\ got' = IF 1 \in S \cap Messages!Unread(a) THEN [got EXCEPT ![a] = @ + 1] ELSE got
    BY <1>10 DEF Messages!Read, Messages!Newest, Messages!Unread, Messages!Visible
  <2>2. /\ turn[a] = "idle" /\ turn' = [turn EXCEPT ![a] = "look"]
        /\ UNCHANGED <<messages, sent, draft, readers>>
    BY <1>10 DEF Messages!Read
  <2>3. /\ \A q \in Agents : Marking(q)' <=> Marking(q)
        /\ \A q \in Agents \ {a} : turn'[q] = turn[q] /\ todo'[q] = todo[q] /\ got'[q] = got[q]
        /\ turn'[a] = "look" /\ todo'[a] = S
    BY <1>t, <2>1, <2>2 DEF Marking, StoreTypes, Messages!TypeOK
  <2>4. Chances' = Chances /\ \A b : ChancesOf(b)' = ChancesOf(b)
    BY <2>2, <2>3, SameChances
  <2>5. Inserting' = Inserting
    BY <1>t, <2>2 DEF Inserting, StoreTypes
  <2>6. \A b \in Agents :
          /\ got[b] \in Nat /\ Cardinality(Sets(b)) \in Nat
          /\ IsFiniteSet(ChancesOf(b)) /\ Cardinality(ChancesOf(b)) \in Nat
    BY <1>t, SetsFinite, ChancesAreSets DEF StoreTypes
  <2>7. \A b \in Agents \ {a} : Given(b)' <=> Given(b)
    BY <2>3, <2>4 DEF Given
  <2>8. ~Given(a)
    BY <2>2 DEF Given
  <2>9. CASE 1 \in S \cap Messages!Unread(a)
    <3>1. /\ got' = [got EXCEPT ![a] = got[a] + 1] /\ got'[a] = got[a] + 1
          /\ 1 \in DOMAIN messages /\ sent > 0
      BY <1>t, <2>1, <2>9 DEF StoreTypes
    <3>2. {a} \in Chances
      <4>1. a \notin messages[1].readBy
        BY <2>9 DEF Messages!Unread
      <4>2. {a} \in (SUBSET Agents) \ {{}} /\ {a} \cap messages[1].readBy = {}
        BY <4>1
      <4>. QED BY <4>2 DEF Chances
    <3>3. Given(a)'
      BY <2>3, <2>4, <2>9, <3>2 DEF Given
    <3>4. Cardinality(ChancesOf(a)) >= 1
      <4>1. {a} \in ChancesOf(a)
        BY <3>2 DEF ChancesOf
      <4>. QED BY <2>6, <4>1, FS_EmptySet
    <3>5. got[a] + Cardinality(ChancesOf(a)) <= Cardinality(Sets(a))
      BY <1>t, <2>6, <2>8, <3>1 DEF RereadsAreCounted
    <3>6. \A b \in Inserting : draft[b] # 1
      BY <1>t, <3>1 DEF DraftsAreNew
    <3>7. ASSUME NEW b \in Agents
          PROVE  /\ got'[b] <= Cardinality(Sets(b))
                 /\ got'[b] + Cardinality(ChancesOf(b))
                      <= Cardinality(Sets(b)) + (IF Given(b)' THEN 1 ELSE 0)
      <4>1. CASE b = a
        BY <2>6, <3>1, <3>3, <3>4, <3>5, <4>1
      <4>2. CASE b # a
        BY <1>t, <2>3, <2>7, <3>1, <4>2 DEF RereadsAreCounted
      <4>. QED BY <4>1, <4>2
    <3>. QED BY <2>2, <2>4, <2>5, <3>1, <3>6, <3>7 DEF RereadsAreCounted, Sets
  <2>10. CASE 1 \notin S \cap Messages!Unread(a)
    <3>1. got' = got
      BY <2>1, <2>10
    <3>2. ASSUME NEW b \in Agents, 1 \in DOMAIN messages
          PROVE  got[b] + Cardinality(ChancesOf(b))
                   <= Cardinality(Sets(b)) + (IF Given(b)' THEN 1 ELSE 0)
      <4>1. got[b] + Cardinality(ChancesOf(b))
                   <= Cardinality(Sets(b)) + (IF Given(b) THEN 1 ELSE 0)
        BY <1>t, <3>2 DEF RereadsAreCounted
      <4>2. CASE b = a
        BY <2>6, <2>8, <4>1, <4>2
      <4>3. CASE b # a
        BY <2>7, <4>1, <4>3
      <4>. QED BY <4>2, <4>3
    <3>. QED BY <1>t, <2>2, <2>4, <2>5, <3>1, <3>2 DEF RereadsAreCounted, Sets
  <2>. QED BY <2>9, <2>10
<1>11. ASSUME NEW a \in Agents, Messages!Look(a) PROVE RereadsAreCounted'
  <2>. DEFINE c == Messages!Current(a)
  <2>1. /\ turn[a] = "look" /\ c \in todo[a] /\ (1 \in todo[a] => c = 1)
        /\ UNCHANGED <<messages, sent, draft, got>>
    BY <1>t, <1>11, CurrentIsAtHand DEF Messages!Look
  <2>2. \A q \in Agents : got[q] \in Nat
    BY <1>t DEF StoreTypes
  <2>3. CASE c \in DOMAIN messages /\ a \notin messages[c].readBy
    <3>1. /\ readers' = [readers EXCEPT ![a] = messages[c].readBy]
          /\ turn' = [turn EXCEPT ![a] = "mark"] /\ UNCHANGED todo
      BY <1>11, <2>3 DEF Messages!Look
    <3>. HIDE DEF c
    <3>2. /\ Inserting' = Inserting
          /\ turn'[a] = "mark" /\ readers'[a] = messages[c].readBy
          /\ \A q \in Agents \ {a} : turn'[q] = turn[q] /\ readers'[q] = readers[q]
      BY <1>t, <2>1, <3>1 DEF Inserting, StoreTypes, Messages!TypeOK
    <3>3. CASE 1 \notin todo[a]
      <4>1. \A q \in Agents : /\ Marking(q)' <=> Marking(q)
                              /\ Marking(q) => readers'[q] = readers[q]
                              /\ Handling(q)' <=> Handling(q)
        BY <2>1, <3>1, <3>2, <3>3 DEF Marking, Handling
      <4>. QED BY <1>t, <2>1, <3>2, <4>1, NoReading
    <3>4. CASE 1 \in todo[a]
      <4>1. c = 1
        BY <2>1, <3>4
      <4>2. /\ ~Marking(a) /\ Marking(a)'
            /\ \A q \in Agents \ {a} : Marking(q)' <=> Marking(q)
        BY <2>1, <3>1, <3>2, <3>4 DEF Marking
      <4>3. ASSUME NEW Y \in (SUBSET Agents) \ {{}}
            PROVE  Y \in Chances' <=> Y \in Chances
        <5>1. (\E q \in Y : Marking(q)' /\ Y \cap readers'[q] = {})
                <=> \/ a \in Y /\ Y \cap messages[1].readBy = {}
                    \/ \E q \in Y : Marking(q) /\ Y \cap readers[q] = {}
          BY <3>2, <4>1, <4>2
        <5>. QED BY <2>1, <5>1 DEF Chances
      <4>4. Chances' = Chances
        BY <4>3 DEF Chances
      <4>5. \A b \in Agents : ChancesOf(b)' = ChancesOf(b) /\ (Given(b)' <=> Given(b))
        BY <2>1, <3>1, <3>2, <4>4 DEF ChancesOf, Given
      <4>. QED BY <1>t, <2>1, <3>2, <4>5 DEF RereadsAreCounted, Sets
    <3>. QED BY <3>3, <3>4
  <2>4. CASE ~(c \in DOMAIN messages /\ a \notin messages[c].readBy)
    <3>1. todo' = [todo EXCEPT ![a] = @ \ {c}] /\ UNCHANGED <<readers, turn>>
      BY <1>11, <2>4 DEF Messages!Look
    <3>. HIDE DEF c
    <3>2. /\ Inserting' = Inserting /\ todo'[a] = todo[a] \ {c}
          /\ \A q \in Agents \ {a} : todo'[q] = todo[q]
      BY <1>t, <3>1 DEF Inserting, StoreTypes, Messages!TypeOK
    <3>3. \A q \in Agents : Marking(q)' <=> Marking(q)
      BY <2>1, <3>1, <3>2 DEF Marking
    <3>4. CASE 1 \notin todo[a]
      <4>1. \A q \in Agents : Handling(q)' <=> Handling(q)
        BY <3>1, <3>2, <3>4 DEF Handling
      <4>. QED BY <1>t, <2>1, <3>1, <3>2, <3>3, <4>1, NoReading
    <3>5. CASE 1 \in todo[a]
      <4>1. c = 1
        BY <2>1, <3>5
      <4>2. Chances' = Chances /\ \A b : ChancesOf(b)' = ChancesOf(b)
        BY <2>1, <3>1, <3>3, SameChances
      <4>3. ASSUME 1 \in DOMAIN messages PROVE \A b \in Agents : Given(b)' <=> Given(b)
        <5>1. a \in messages[1].readBy
          BY <2>4, <4>1, <4>3
        <5>2. {a} \notin Chances
          <6>1. ~Marking(a)
            BY <2>1 DEF Marking
          <6>. QED BY <5>1, <6>1 DEF Chances
        <5>. QED BY <3>1, <3>2, <4>2, <5>2 DEF Given
      <4>. QED BY <1>t, <2>1, <3>2, <4>2, <4>3 DEF RereadsAreCounted, Sets
    <3>. QED BY <3>4, <3>5
  <2>. QED BY <2>3, <2>4
<1>12. ASSUME NEW a \in Agents, Messages!Mark(a) PROVE RereadsAreCounted'
  BY <1>12, MarkStep
<1>13. ASSUME NEW a \in Agents, Messages!ReadDone(a) PROVE RereadsAreCounted'
  <2>1. /\ turn[a] = "look" /\ todo[a] = {} /\ turn' = [turn EXCEPT ![a] = "idle"]
        /\ UNCHANGED <<messages, sent, draft, todo, readers, got>>
    BY <1>13 DEF Messages!ReadDone
  <2>2. ~Handling(a) /\ ~Marking(a) /\ "idle" \in Turns \ {"look", "mark", "insert"}
    BY <2>1 DEF Handling, Marking, Turns
  <2>. QED BY <1>0, <2>1, <2>2
<1>14. ASSUME NEW a \in Agents, Messages!Backfill(a) \/ Messages!Fill(a) PROVE RereadsAreCounted'
  <2>1. PICK l \in {"fill", "start"} :
          /\ turn' = [turn EXCEPT ![a] = l] /\ turn[a] \in {"backfill", "fill"}
          /\ UNCHANGED <<messages, sent, draft, readers, got>>
    BY <1>14 DEF Messages!Backfill, Messages!Fill
  <2>2. \A q \in Agents \ {a} : todo'[q] = todo[q]
    BY <1>t, <1>14 DEF Messages!Backfill, Messages!Fill, Messages!TypeOK
  <2>3. ~Handling(a) /\ ~Marking(a) /\ l \in Turns \ {"look", "mark", "insert"}
    BY <1>h, <2>1 DEF Turns
  <2>. QED BY <1>0, <2>1, <2>2, <2>3
<1>. QED
  BY AgentSteps, <1>2, <1>3, <1>4, <1>5, <1>6, <1>7, <1>8, <1>9, <1>10, <1>11, <1>12, <1>13,
     <1>14

LEMMA StoreStep ==
  ASSUME Messages!MessageStoreAssumption
  PROVE  StoreIInv /\ [Messages!Next]_(Messages!vars) => StoreIInv'
<1>1. ASSUME StoreIInv, Messages!Next PROVE StoreIInv'
  <2>1. Rows'
    BY <1>1, RowsStep
  <2>2. Bounded'
    BY <1>1, BoundStep
  <2>3. Messages!StoreIsBounded'
    <3>1. Overdue' = {a \in Agents : turn'[a] \in {"count", "evict"}}
      BY DEF Overdue
    <3>. QED BY <2>2, <3>1, MsgCounts DEF Bounded, Messages!StoreIsBounded
  <2>. QED BY <1>1, <2>1, <2>2, <2>3, StoreTypesStep, RereadStep DEF StoreIInv, Rows, Bounded
<1>2. ASSUME StoreIInv, UNCHANGED Messages!vars PROVE StoreIInv'
  <2>1. UNCHANGED <<messages, embedded, expired, sent, turn, draft, fields, excess, todo,
                    readers, got>>
    BY <1>2 DEF Messages!vars
  <2>2. StoreTypes' /\ AtHand' /\ Rows'
    BY <1>2, <2>1 DEF StoreIInv, StoreTypes, Messages!TypeOK, Messages!Present, AtHand, Rows,
       DraftsAreNew, Inserting, RepliesAnswerRoots, Messages!EmbeddingsHaveMessages,
       Messages!ThreadsAreFlat
  <2>3. Overdue' = Overdue /\ Messages!Present' = Messages!Present
    BY <2>1 DEF Overdue, Messages!Present
  <2>4. Messages!StoreIsBounded' /\ EvictionsSuffice'
    BY <1>2, <2>1, <2>3, StoreBound DEF StoreIInv, EvictionsSuffice, Messages!StoreIsBounded
  <2>5. RereadsAreCounted'
    BY <1>2, <2>1 DEF StoreIInv, RereadsAreCounted, Messages!Present, Inserting, Sets, ChancesOf,
       Chances, Marking, Given
  <2>. QED BY <2>2, <2>4, <2>5 DEF StoreIInv, Rows
<1>. QED BY <1>1, <1>2

\* However posts, replies, evictions, expiry, marks and backfills of any number
\* of agent processes interleave, no embedding outlives its message, threads
\* stay flat, the table holds at most the limit and a row per process on its way
\* to the eviction, and an agent is given a message as unread at most 2^(n-1) times.
THEOREM MessagesSafety ==
  ASSUME Messages!MessageStoreAssumption PROVE Messages!Spec => []MessagesInv
<1>1. StoreIInv => MessagesInv
  <2>1. ASSUME StoreIInv, NEW a \in Agents
        PROVE  got[a] <= 2 ^ (Cardinality(Agents) - 1)
    <3>1. got[a] <= Cardinality(Sets(a))
      BY <2>1 DEF StoreIInv, RereadsAreCounted
    <3>. QED BY <3>1, SetsDouble
  <2>2. StoreIInv => Messages!RereadIsBounded
    BY <2>1, MsgCounts DEF Messages!RereadIsBounded
  <2>. QED BY <2>2 DEF MessagesInv, Messages!MessagesInv, StoreIInv, StoreTypes
<1>. QED BY <1>1, StoreInitially, StoreStep, PTL DEF Messages!Spec

=============================================================================
