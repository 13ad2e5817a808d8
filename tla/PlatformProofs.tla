---------------------------- MODULE PlatformProofs ----------------------------
(***************************************************************************)
(* Proofs about the parts that MCPlatform runs side by side, for every     *)
(* value of their constants: the resource plan of every machine and        *)
(* environment; the lock, the caches and the SQL backends under the        *)
(* stores, for any number of threads; the client's requests over a network *)
(* with any number of faults; and the upgrade loop of any processes of     *)
(* which one publishes.  Each part has its invariant and the lemma that    *)
(* every step keeps it; StorageHolds is about all three kinds of storage.  *)
(***************************************************************************)
EXTENDS MCPlatform, FiniteSetTheorems, TLAPS

-----------------------------------------------------------------------------
(* The resource plan                                                       *)

\* The plan is the one of the machine's strategy.
Strategies(m) ==
  {p \in {CpuOnly(m)} : m.gpus = {}}
    \cup {p \in {SingleGpu(m)} : m.gpus # {}}
    \cup {MultiGpu(m, gs) : gs \in ForVllm(m)}

\* The sandboxes have the plan's GPUs, and are given them by the plan or by the
\* environment.
Configured ==
  /\ config.gpus = plan.sandboxGpus
  /\ config.gpu => plan.sandboxGpus # {} \/ env.gpu = "on"

IInv ==
  /\ profile \in Machines /\ env \in Settings
  /\ pc \in {"discovered", "failed", "planned", "configured", "ready"}
  /\ Planned => plan \in Strategies(profile)
  /\ pc \in {"configured", "ready"} =>
       /\ config = [pool |-> config.pool, gpu |-> config.gpu, gpus |-> config.gpus]
       /\ Configured

-----------------------------------------------------------------------------
\* The warm pool of any machine, at most one for each step of its memory and one
\* for its threads.
LEMMA PoolBounds ==
  ASSUME ResourcePlanAssumption, NEW m \in Machines
  PROVE  /\ PoolSize(m) \in 1..5
         /\ m.ram < 16384 => PoolSize(m) <= 2
         /\ m.ram < 32768 => PoolSize(m) <= 3
         /\ m.ram < 65536 => PoolSize(m) <= 4
BY DEF ResourcePlanAssumption, PoolSize, SizeByRam, Most, Least

\* What vLLM, the services and the pool take together, for the three shares of
\* memory and the pool they go with.
LEMMA MemoryOfPlan ==
  ASSUME ResourcePlanAssumption, NEW m \in Machines, NEW share \in {35, 40, 70},
         NEW services \in {768, 1536},
         NEW pool \in 1..6, m.ram >= 5120,
         \/ share # 35 /\ services = 768 /\ pool = PoolSize(m)
         \/ share = 35 /\ pool = PoolSize(m) + 1
  PROVE  Percent(m.ram, share) + services + pool * PerSandbox(m) <= m.ram
<1>1. m.ram \in Nat
  BY DEF ResourcePlanAssumption
<1>2. 100 * Percent(m.ram, share) <= share * m.ram /\ Percent(m.ram, share) \in Nat
  BY <1>1 DEF Percent
<1>3. CASE m.ram < 16384
  BY <1>1, <1>2, <1>3, PoolBounds DEF PerSandbox
<1>4. CASE m.ram >= 16384 /\ m.ram < 65536
  BY <1>1, <1>2, <1>4, PoolBounds DEF PerSandbox
<1>5. CASE m.ram >= 65536
  BY <1>1, <1>2, <1>5, PoolBounds DEF PerSandbox
<1>. QED BY <1>1, <1>3, <1>4, <1>5

\* vLLM always gets a GPU of several.
LEMMA SomeGpuForVllm ==
  ASSUME ResourcePlanAssumption, NEW m \in Machines, NEW gs \in ForVllm(m)
  PROVE  gs # {}
BY FS_EmptySet DEF ForVllm

\* A plan of any strategy sizes the pool, fits into memory from 5 GB on, and
\* leaves vLLM a GPU that it does not claim whole if it shares it.
LEMMA EveryPlan ==
  ASSUME ResourcePlanAssumption, NEW m \in Machines, NEW p \in Strategies(m)
  PROVE  /\ p.pool \in 1..6
         /\ m.ram >= 5120 => p.vllm + p.services + p.pool * p.each <= m.ram
         /\ m.gpus # {} => p.vllmGpus # {}
         /\ p.vllmGpus \cap p.sandboxGpus # {} => p.fraction < 100
         /\ m.gpus = {} => p.vllmGpus = {}
         /\ p.fraction >= 100 => p.sandboxGpus = {}
<1>1. CASE p = CpuOnly(m) /\ m.gpus = {}
  BY <1>1, PoolBounds, MemoryOfPlan DEF CpuOnly
<1>2. CASE p = SingleGpu(m) /\ m.gpus # {}
  BY <1>2, PoolBounds, MemoryOfPlan DEF SingleGpu
<1>3. ASSUME NEW gs \in ForVllm(m), p = MultiGpu(m, gs) PROVE
         /\ p.pool \in 1..6
         /\ m.ram >= 5120 => p.vllm + p.services + p.pool * p.each <= m.ram
         /\ p.vllmGpus # {} /\ m.gpus # {}
         /\ p.fraction = 90
  <2>1. p.pool = PoolSize(m) + 1
    BY <1>3, PoolBounds DEF MultiGpu, Least
  <2>2. gs # {} /\ gs \subseteq m.gpus
    BY SomeGpuForVllm DEF ForVllm
  <2>. QED BY <1>3, <2>1, <2>2, PoolBounds, MemoryOfPlan DEF MultiGpu
<1>. QED BY <1>1, <1>2, <1>3 DEF Strategies

-----------------------------------------------------------------------------
\* Every step keeps the invariant.
LEMMA InitIInv == Init => IInv
BY DEF Init, IInv, Planned

LEMMA Step == IInv /\ [Next]_vars => IInv'
<1>. SUFFICES ASSUME IInv, [Next]_vars PROVE IInv'
  OBVIOUS
<1>. USE DEF IInv, Planned
<1>1. CASE ComputePlan
  <2>1. plan' \in Strategies(profile)
    <3>1. CASE profile.gpus = {} /\ plan' = CpuOnly(profile)
      BY <3>1 DEF Strategies
    <3>2. CASE Cardinality(profile.gpus) = 1 /\ plan' = SingleGpu(profile)
      BY <3>2, FS_EmptySet DEF Strategies
    <3>3. CASE \E gs \in ForVllm(profile) : plan' = MultiGpu(profile, gs)
      BY <3>3 DEF Strategies
    <3>. QED BY <1>1, <3>1, <3>2, <3>3 DEF ComputePlan
  <2>. QED BY <1>1, <2>1 DEF ComputePlan
<1>2. CASE RaiseDocker
  BY <1>2 DEF RaiseDocker
<1>3. CASE FromPlan
  BY <1>3 DEF FromPlan, Configured
<1>4. CASE ApplyEnv
  BY <1>4 DEF ApplyEnv, Configured
<1>5. CASE UNCHANGED vars
  BY <1>5 DEF vars, Configured
<1>. QED BY <1>1, <1>2, <1>3, <1>4, <1>5 DEF Next

\* On every machine and in every environment the pool has one to six sandboxes,
\* the plan hands out no more memory than there is from 5 GB on, and a GPU that
\* vLLM shares with the sandboxes is not claimed whole.
THEOREM PlanFits == ASSUME ResourcePlanAssumption PROVE Spec => []PlanInv
<1>1. IInv => PlanInv
  <2>. SUFFICES ASSUME IInv PROVE PlanInv
    OBVIOUS
  <2>1. PoolIsSized /\ MemoryFits
    BY EveryPlan DEF IInv, PoolIsSized, MemoryFits
  <2>2. GpusAreShared
    <3>. SUFFICES ASSUME pc = "ready"
                  PROVE  /\ profile.gpus # {} => plan.vllmGpus # {}
                         /\ \/ plan.vllmGpus \cap SandboxGpus = {}
                            \/ plan.fraction < 100 \/ env.gpu = "on"
      BY DEF GpusAreShared
    <3>1. plan \in Strategies(profile) /\ Configured
      BY DEF IInv, Planned
    <3>. QED BY <3>1, EveryPlan DEF IInv, Configured, SandboxGpus
  <2>. QED BY <2>1, <2>2 DEF PlanInv
<1>2. Init => IInv
  BY InitIInv
<1>3. IInv /\ [Next]_vars => IInv'
  BY Step
<1>. QED BY <1>1, <1>2, <1>3, PTL DEF Spec

-----------------------------------------------------------------------------
(* The lock                                                                *)

\* In one process a thread in its critical section has the object's mutex locked.
MutexIsHeld ==
  \A t \in Threads : backend = "local" /\ where[t] = "in" => mutex[object[t]]

LockIInv == Locks!LockInv /\ MutexIsHeld

-----------------------------------------------------------------------------
LEMMA LockInitially == ASSUME Locks!DistributedLockAssumption PROVE Locks!Init => LockIInv
BY DEF Locks!DistributedLockAssumption, Locks!Init, LockIInv, Locks!LockInv,
   Locks!TypeOK, Locks!Exclusion, Locks!LeaseIsHeld,
   MutexIsHeld, Locks!Safe, Locks!Forever

\* The key and its life agree, and every variable keeps its type.
LEMMA TypeStep ==
  ASSUME Locks!DistributedLockAssumption
  PROVE  Locks!TypeOK /\ [Locks!Next]_Locks!vars => Locks!TypeOK'
<1>. SUFFICES ASSUME Locks!TypeOK, [Locks!Next]_Locks!vars PROVE Locks!TypeOK'
  OBVIOUS
<1>. USE DEF Locks!DistributedLockAssumption, Locks!TypeOK, Locks!fixed, Locks!Forever
<1>1. ASSUME NEW t \in Threads, Locks!Ask(t) PROVE Locks!TypeOK'
  BY <1>1 DEF Locks!Ask
<1>2. ASSUME NEW t \in Threads, Locks!SetKey(t) PROVE Locks!TypeOK'
  BY <1>2 DEF Locks!SetKey, Locks!Enter
<1>3. ASSUME NEW t \in Threads, Locks!Lock(t) PROVE Locks!TypeOK'
  BY <1>3 DEF Locks!Lock, Locks!Enter
<1>4. ASSUME NEW t \in Threads, Locks!GiveUp(t) PROVE Locks!TypeOK'
  BY <1>4 DEF Locks!GiveUp
<1>5. ASSUME NEW t \in Threads, Locks!Release(t) PROVE Locks!TypeOK'
  <2>1. where' \in [Threads -> {"out", "acquire", "in", "gone"}] /\ lease' \in [Threads -> 0..Ttl]
    BY <1>5 DEF Locks!Release, Locks!Leave
  <2>2. key' \in Objects \cup {None} /\ ttl' \in 0..Ttl /\ (key' = None <=> ttl' = 0)
    BY <1>5 DEF Locks!Release, Locks!KeyAfterRelease
  <2>3. owned' \in [Objects -> BOOLEAN]
    BY <1>5 DEF Locks!Release
  <2>. QED BY <1>5, <2>1, <2>2, <2>3 DEF Locks!Release
<1>6. ASSUME NEW t \in Threads, Locks!Unlock(t) PROVE Locks!TypeOK'
  BY <1>6 DEF Locks!Unlock, Locks!Leave
<1>7. ASSUME NEW o \in Objects, Locks!Crash(o) PROVE Locks!TypeOK'
  BY <1>7 DEF Locks!Crash
<1>8. CASE Locks!Tick
  <2>1. lease' \in [Threads -> 0..Ttl]
    BY <1>8 DEF Locks!Tick
  <2>2. patience' \in [Threads -> {Locks!Forever, 0, 1}]
    BY <1>8 DEF Locks!Tick
  <2>3. key' \in Objects \cup {None} /\ ttl' \in 0..Ttl /\ (key' = None <=> ttl' = 0)
    BY <1>8 DEF Locks!Tick
  <2>. QED BY <1>8, <2>1, <2>2, <2>3 DEF Locks!Tick
<1>9. CASE UNCHANGED Locks!vars
  BY <1>9 DEF Locks!vars
<1>. QED BY <1>1, <1>2, <1>3, <1>4, <1>5, <1>6, <1>7, <1>8, <1>9 DEF Locks!Next

\* A thread within its lease keeps the key: nobody sets a key that is there, a
\* late release compares it first, and it outlives the lease.
LEMMA LeaseStep ==
  ASSUME Locks!DistributedLockAssumption
  PROVE  LockIInv /\ [Locks!Next]_Locks!vars => Locks!LeaseIsHeld'
<1>. SUFFICES ASSUME LockIInv, [Locks!Next]_Locks!vars,
                     NEW s \in Threads, (backend = "redis" /\ Locks!Safe(s) /\ Locks!Alone(s))'
              PROVE  (key = object[s] /\ ttl >= lease[s] /\ owned[object[s]])'
  BY DEF Locks!LeaseIsHeld
<1>. USE DEF Locks!DistributedLockAssumption, LockIInv, Locks!LockInv, Locks!TypeOK,
     Locks!fixed, Locks!Alone, Locks!Safe
<1>1. backend = "redis" /\ object' = object /\ Locks!Alone(s)
  BY DEF Locks!Next, Locks!Ask, Locks!SetKey, Locks!Lock, Locks!GiveUp, Locks!Release,
     Locks!Unlock, Locks!Crash, Locks!Tick, Locks!vars
<1>2. Locks!Safe(s) => key = object[s] /\ ttl >= lease[s] /\ owned[object[s]] /\ key # None
  BY <1>1 DEF Locks!LeaseIsHeld
<1>3. ASSUME NEW t \in Threads, Locks!SetKey(t)
      PROVE  (key = object[s] /\ ttl >= lease[s] /\ owned[object[s]])'
  <2>1. CASE t = s
    BY <1>1, <1>3, <2>1 DEF Locks!SetKey, Locks!Enter
  <2>2. CASE t # s
    BY <1>1, <1>2, <1>3, <2>2 DEF Locks!SetKey, Locks!Enter
  <2>. QED BY <2>1, <2>2
<1>4. ASSUME NEW t \in Threads, Locks!Release(t)
      PROVE  (key = object[s] /\ ttl >= lease[s] /\ owned[object[s]])'
  <2>1. t # s
    BY <1>4 DEF Locks!Release, Locks!Leave
  <2>2. object[t] # object[s]
    BY <1>1, <2>1
  <2>3. Locks!Safe(s) /\ lease'[s] = lease[s]
    BY <1>1, <1>4, <2>1 DEF Locks!Release, Locks!Leave
  <2>. QED BY <1>1, <1>2, <1>4, <2>2, <2>3 DEF Locks!Release, Locks!KeyAfterRelease
<1>5. ASSUME NEW o \in Objects, Locks!Crash(o)
      PROVE  (key = object[s] /\ ttl >= lease[s] /\ owned[object[s]])'
  BY <1>1, <1>2, <1>5 DEF Locks!Crash
<1>6. CASE Locks!Tick
  BY <1>1, <1>2, <1>6 DEF Locks!Tick
<1>7. ASSUME NEW t \in Threads, Locks!Ask(t) \/ Locks!GiveUp(t)
      PROVE  (key = object[s] /\ ttl >= lease[s] /\ owned[object[s]])'
  BY <1>1, <1>2, <1>7 DEF Locks!Ask, Locks!GiveUp
<1>8. CASE UNCHANGED Locks!vars
  BY <1>1, <1>2, <1>8 DEF Locks!vars
<1>. QED BY <1>1, <1>3, <1>4, <1>5, <1>6, <1>7, <1>8 DEF Locks!Next, Locks!Lock,
     Locks!Unlock

\* threading.Lock: only the thread that is in unlocks the mutex of its object.
LEMMA MutexStep ==
  ASSUME Locks!DistributedLockAssumption
  PROVE  LockIInv /\ [Locks!Next]_Locks!vars =>
           /\ MutexIsHeld'
           /\ \A s, t \in Threads :
                (backend = "local" /\ s # t /\ object[s] = object[t])'
                  => ~(Locks!Safe(s) /\ Locks!Safe(t))'
<1>. SUFFICES ASSUME LockIInv, [Locks!Next]_Locks!vars, (backend = "local")'
              PROVE  /\ MutexIsHeld'
                     /\ \A s, t \in Threads :
                          s # t /\ (object[s] = object[t])' => ~(where'[s] = "in" /\ where'[t] = "in")
  BY DEF MutexIsHeld, Locks!Safe
<1>. USE DEF Locks!DistributedLockAssumption, LockIInv, Locks!LockInv, Locks!TypeOK,
     Locks!fixed, MutexIsHeld
<1>1. backend = "local" /\ object' = object
  BY DEF Locks!Next, Locks!Ask, Locks!SetKey, Locks!Lock, Locks!GiveUp, Locks!Release,
     Locks!Unlock, Locks!Crash, Locks!Tick, Locks!vars
<1>2. \A s, t \in Threads :
        s # t /\ object[s] = object[t] => ~(where[s] = "in" /\ where[t] = "in")
  BY <1>1 DEF Locks!Exclusion, Locks!Guarded, Locks!Safe
<1>3. ASSUME NEW t \in Threads, Locks!Lock(t)
      PROVE  /\ MutexIsHeld'
             /\ \A r, s \in Threads :
                  r # s /\ (object[r] = object[s])' => ~(where'[r] = "in" /\ where'[s] = "in")
  BY <1>1, <1>2, <1>3 DEF Locks!Lock, Locks!Enter
<1>4. ASSUME NEW t \in Threads, Locks!Unlock(t)
      PROVE  /\ MutexIsHeld'
             /\ \A r, s \in Threads :
                  r # s /\ (object[r] = object[s])' => ~(where'[r] = "in" /\ where'[s] = "in")
  BY <1>1, <1>2, <1>4 DEF Locks!Unlock, Locks!Leave
<1>5. ASSUME \/ \E t \in Threads : Locks!Ask(t) \/ Locks!GiveUp(t)
             \/ Locks!Tick \/ UNCHANGED Locks!vars
      PROVE  /\ MutexIsHeld'
             /\ \A r, s \in Threads :
                  r # s /\ (object[r] = object[s])' => ~(where'[r] = "in" /\ where'[s] = "in")
  BY <1>1, <1>2, <1>5 DEF Locks!Ask, Locks!GiveUp, Locks!Tick, Locks!vars
<1>. QED BY <1>1, <1>3, <1>4, <1>5 DEF Locks!Next, Locks!SetKey, Locks!Release, Locks!Crash

\* Two threads in their critical sections would both have the key, or the mutex.
LEMMA ExclusionStep ==
  ASSUME Locks!DistributedLockAssumption
  PROVE  LockIInv /\ [Locks!Next]_Locks!vars => Locks!Exclusion'
<1>. SUFFICES ASSUME LockIInv, [Locks!Next]_Locks!vars, NEW s \in Threads, NEW t \in Threads,
                     s # t, Locks!Guarded(s, t)', Locks!Safe(s)', Locks!Safe(t)'
              PROVE  FALSE
  BY DEF Locks!Exclusion
<1>1. Locks!LeaseIsHeld'
  BY LeaseStep
<1>2. backend' \in {"redis", "local"}
  BY TypeStep DEF LockIInv, Locks!LockInv, Locks!TypeOK
<1>3. CASE (backend = "redis")'
  BY <1>1, <1>3 DEF Locks!Guarded, Locks!LeaseIsHeld, Locks!Alone
<1>4. CASE (backend = "local")'
  BY <1>4, MutexStep DEF Locks!Guarded
<1>. QED BY <1>2, <1>3, <1>4

\* The invariant of the lock is inductive.
LEMMA LockStep ==
  ASSUME Locks!DistributedLockAssumption
  PROVE  LockIInv /\ [Locks!Next]_Locks!vars => LockIInv'
BY TypeStep, LeaseStep, MutexStep, ExclusionStep DEF LockIInv, Locks!LockInv

\* Two threads the lock guards against each other are never both in their
\* critical sections, and one within its lease has the key, whatever the number
\* of threads, however late they release, and whichever of them are killed.
THEOREM LockIsExclusive ==
  ASSUME Locks!DistributedLockAssumption PROVE Locks!Spec => []Locks!LockInv
<1>1. LockIInv => Locks!LockInv
  BY DEF LockIInv
<1>. QED BY <1>1, LockInitially, LockStep, PTL DEF Locks!Spec

-----------------------------------------------------------------------------
(* The key-value caches                                                    *)

\* What Redis keeps of a key is what the dictionaries keep of it, or it is over
\* and they have cleaned it up.
Agree(k) ==
  \/ redis[k] = [value |-> store[k], until |-> expiry[k]]
  \/ store[k] = Cache!Missing /\ Cache!Past(redis[k].until)

Rows == [value : 1..MaxValue \cup {Cache!Missing}, until : Nat \cup {Cache!Never}]

CacheIInv ==
  /\ Cache!TypeOK /\ now \in Nat
  /\ redis \in [Keys -> Rows]
  /\ \A k \in Keys \ lapsed : Agree(k)

-----------------------------------------------------------------------------
\* Both caches start empty.
LEMMA CacheInitially == Cache!Init => CacheIInv
<1>. SUFFICES ASSUME Cache!Init PROVE CacheIInv
  OBVIOUS
<1>1. redis \in [Keys -> Rows]
  BY DEF Cache!Init, Rows, Cache!NoRow, Cache!Missing, Cache!Never
<1>. QED BY <1>1 DEF Cache!Init, CacheIInv, Cache!TypeOK, Agree, Cache!NoRow, Cache!Missing,
     Cache!Never

\* A clean-up forgets value and deadline of the keys it is for, and no other's.
LEMMA Cleaned ==
  ASSUME CacheIInv, NEW ks \in SUBSET Keys, Cache!CleanUp(ks)
  PROVE  /\ store' \in [Keys -> 1..MaxValue \cup {Cache!Missing}]
         /\ expiry' \in [Keys -> Nat \cup {Cache!Never}]
         /\ \A k \in Keys : store'[k] = Cache!Missing => expiry'[k] = Cache!Never
         /\ \A k \in ks : store'[k] = Cache!Missing /\ expiry'[k] = Cache!Never
         /\ \A k \in Keys \ ks : store'[k] = store[k] /\ expiry'[k] = expiry[k]
BY DEF CacheIInv, Cache!TypeOK, Cache!CleanUp, Cache!Missing, Cache!Never

\* Every call keeps the two caches in agreement about every key that was not
\* incremented after its end, clean-ups on one side only included.
LEMMA CacheStep ==
  ASSUME Cache!KeyCacheAssumption
  PROVE CacheIInv /\ [Cache!Next]_Cache!vars => CacheIInv'
<1>. SUFFICES ASSUME CacheIInv, [Cache!Next]_Cache!vars PROVE CacheIInv'
  OBVIOUS
<1>. USE DEF Cache!KeyCacheAssumption, Rows
<1>t. /\ store \in [Keys -> 1..MaxValue \cup {Cache!Missing}]
      /\ expiry \in [Keys -> Nat \cup {Cache!Never}]
      /\ \A k \in Keys : store[k] = Cache!Missing => expiry[k] = Cache!Never
      /\ redis \in [Keys -> Rows] /\ now \in Nat
      /\ \A k \in Keys \ lapsed : Agree(k)
  BY DEF CacheIInv, Cache!TypeOK
<1>1. ASSUME NEW k \in Keys, Cache!Set(k) PROVE CacheIInv'
  <2>1. PICK v \in {1, MaxValue}, life \in {0} \cup Ttls :
          /\ store' = [store EXCEPT ![k] = v]
          /\ expiry' = [expiry EXCEPT ![k] = Cache!ExpiryAfterSet(k, life)]
          /\ redis' = [redis EXCEPT ![k] =
                          [value |-> v, until |-> IF life > 0 THEN now + life ELSE Cache!Never]]
    BY <1>1 DEF Cache!Set
  <2>2. lapsed' = lapsed \ {k} /\ now' = now
    BY <1>1 DEF Cache!Set
  <2>3. /\ v \in 1..MaxValue /\ v # Cache!Missing
        /\ Cache!ExpiryAfterSet(k, life) \in Nat \cup {Cache!Never}
    BY <1>t DEF Cache!ExpiryAfterSet, Cache!Missing
  <2>4. [value |-> v, until |-> IF life > 0 THEN now + life ELSE Cache!Never]
          = [value |-> v, until |-> Cache!ExpiryAfterSet(k, life)]
    BY DEF Cache!ExpiryAfterSet
  <2>5. Cache!TypeOK' /\ redis' \in [Keys -> Rows]
    BY <1>t, <2>1, <2>3, <2>4 DEF Cache!TypeOK
  <2>6. ASSUME NEW j \in Keys \ lapsed' PROVE Agree(j)'
    <3>1. CASE j = k
      BY <1>t, <2>1, <2>4, <3>1 DEF Agree
    <3>2. CASE j # k
      BY <1>t, <2>1, <2>2, <2>6, <3>2 DEF Agree, Cache!Past
    <3>. QED BY <3>1, <3>2
  <2>. QED BY <1>t, <2>2, <2>5, <2>6 DEF CacheIInv
<1>2. ASSUME NEW ks \in SUBSET {k \in Keys : Cache!IsExpired(k)}, Cache!CleanUp(ks),
             UNCHANGED <<redis, now, lapsed>>
      PROVE  CacheIInv'
  <2>1. Cache!TypeOK'
    BY <1>2, Cleaned DEF Cache!TypeOK
  <2>2. ASSUME NEW j \in Keys \ lapsed' PROVE Agree(j)'
    <3>1. Agree(j) /\ redis'[j] = redis[j]
      BY <1>t, <1>2, <2>2
    <3>2. CASE j \in ks
      <4>1. store'[j] = Cache!Missing /\ Cache!IsExpired(j)
        BY <1>2, <3>2, Cleaned
      <4>2. Cache!Past(redis[j].until)
        BY <3>1, <4>1 DEF Agree, Cache!IsExpired
      <4>. QED BY <1>2, <3>1, <4>1, <4>2 DEF Agree, Cache!Past
    <3>3. CASE j \notin ks
      <4>1. store'[j] = store[j] /\ expiry'[j] = expiry[j]
        BY <1>2, <3>3, Cleaned
      <4>. QED BY <1>2, <3>1, <4>1 DEF Agree, Cache!Past
    <3>. QED BY <3>2, <3>3
  <2>. QED BY <1>t, <1>2, <2>1, <2>2 DEF CacheIInv
<1>3. ASSUME NEW k \in Keys, Cache!Get(k) PROVE CacheIInv'
  BY <1>2, <1>3 DEF Cache!Get
<1>4. CASE Cache!ListKeys
  BY <1>2, <1>4 DEF Cache!ListKeys
<1>5. ASSUME NEW ks \in SUBSET Keys, Cache!CleanUp(ks), lapsed' = lapsed \ ks, now' = now,
             redis' = [k \in Keys |-> IF k \in ks THEN Cache!NoRow ELSE redis[k]]
      PROVE  CacheIInv'
  <2>1. Cache!TypeOK'
    BY <1>5, Cleaned DEF Cache!TypeOK
  <2>2. Cache!NoRow \in Rows
    BY DEF Cache!NoRow
  <2>3. redis' \in [Keys -> Rows]
    BY <1>t, <1>5, <2>2
  <2>4. ASSUME NEW j \in Keys \ lapsed' PROVE Agree(j)'
    <3>1. CASE j \in ks
      <4>1. redis'[j] = Cache!NoRow /\ store'[j] = Cache!Missing /\ expiry'[j] = Cache!Never
        BY <1>5, <3>1, Cleaned
      <4>. QED BY <4>1 DEF Agree, Cache!NoRow
    <3>2. CASE j \notin ks
      <4>1. /\ Agree(j) /\ redis'[j] = redis[j] /\ store'[j] = store[j]
            /\ expiry'[j] = expiry[j]
        BY <1>t, <1>5, <2>4, <3>2, Cleaned
      <4>. QED BY <1>5, <4>1 DEF Agree, Cache!Past
    <3>. QED BY <3>1, <3>2
  <2>. QED BY <1>t, <1>5, <2>1, <2>3, <2>4 DEF CacheIInv
<1>6. ASSUME NEW k \in Keys, Cache!Delete(k) PROVE CacheIInv'
  <2>1. redis' = [j \in Keys |-> IF j \in {k} THEN Cache!NoRow ELSE redis[j]]
    BY <1>t, <1>6 DEF Cache!Delete
  <2>. QED BY <1>5, <1>6, <2>1 DEF Cache!Delete
<1>7. CASE Cache!Flush
  <2>1. /\ redis' = [j \in Keys |-> IF j \in Keys THEN Cache!NoRow ELSE redis[j]]
        /\ Cache!CleanUp(Keys) /\ now' = now /\ lapsed' = {}
    BY <1>7 DEF Cache!Flush
  <2>2. /\ Cache!TypeOK' /\ redis' \in [Keys -> Rows]
        /\ \A j \in Keys :
             redis'[j] = Cache!NoRow /\ store'[j] = Cache!Missing /\ expiry'[j] = Cache!Never
    BY <2>1, Cleaned DEF Cache!TypeOK, Cache!NoRow
  <2>. QED BY <1>t, <2>1, <2>2 DEF CacheIInv, Agree, Cache!NoRow
<1>8. ASSUME NEW k \in Keys, Cache!Incr(k) PROVE CacheIInv'
  <2>. DEFINE held == IF Cache!MemoryGet(k) = Cache!Missing THEN 1 ELSE store[k] + 1
              r == IF Cache!RedisGet(k) = Cache!Missing THEN [value |-> 1, until |-> Cache!Never]
                   ELSE [value |-> redis[k].value + 1, until |-> redis[k].until]
  <2>1. /\ store' = [store EXCEPT ![k] = held] /\ redis' = [redis EXCEPT ![k] = r]
        /\ expiry' = expiry /\ now' = now
        /\ Cache!MemoryGet(k) < MaxValue /\ Cache!RedisGet(k) < MaxValue
        /\ lapsed' = IF store[k] # Cache!Missing /\ Cache!IsExpired(k) THEN lapsed \cup {k} ELSE lapsed
    <3>1. /\ store' = [store EXCEPT ![k] = held]
          /\ redis' = [redis EXCEPT ![k] = IF Cache!RedisGet(k) = Cache!Missing
                                           THEN [value |-> 1, until |-> Cache!Never]
                                           ELSE [value |-> @.value + 1, until |-> @.until]]
      BY <1>t, <1>8, Zenon DEF Cache!Incr
    <3>2. redis' = [redis EXCEPT ![k] = r]
      BY <3>1, Zenon
    <3>. HIDE DEF held, r
    <3>. QED BY <1>8, <3>1, <3>2 DEF Cache!Incr
  <2>2. held \in 1..MaxValue /\ held # Cache!Missing
    BY <1>t, <2>1 DEF Cache!MemoryGet, Cache!Missing
  <2>3. r \in Rows
    <3>1. redis[k] \in Rows
      BY <1>t
    <3>2. CASE Cache!RedisGet(k) = Cache!Missing
      BY <3>2
    <3>3. CASE Cache!RedisGet(k) # Cache!Missing
      <4>1. redis[k].value \in 1..MaxValue /\ redis[k].value < MaxValue
        BY <2>1, <3>1, <3>3 DEF Cache!RedisGet, Cache!Missing
      <4>2. redis[k].value + 1 \in 1..MaxValue
        BY <4>1
      <4>. QED BY <3>1, <3>3, <4>2
    <3>. QED BY <3>2, <3>3
  <2>4. Cache!TypeOK' /\ redis' \in [Keys -> Rows]
    <3>. HIDE DEF held, r
    <3>. QED BY <1>t, <2>1, <2>2, <2>3 DEF Cache!TypeOK
  <2>5. ASSUME NEW j \in Keys \ lapsed' PROVE Agree(j)'
    <3>1. Agree(j) /\ j \notin lapsed
      BY <1>t, <2>1, <2>5
    <3>2. CASE j # k
      BY <1>t, <2>1, <3>1, <3>2 DEF Agree, Cache!Past
    <3>3. CASE j = k
      <4>1. store[k] = Cache!Missing \/ ~Cache!IsExpired(k)
        BY <2>1, <2>5, <3>3
      <4>2. CASE store[k] = Cache!Missing
        <5>1. expiry[k] = Cache!Never /\ Cache!MemoryGet(k) = Cache!Missing
          BY <1>t, <4>2 DEF Cache!MemoryGet
        <5>2. Cache!RedisGet(k) = Cache!Missing
          BY <1>t, <3>1, <3>3, <4>2, <5>1 DEF Agree, Cache!RedisGet, Cache!Past
        <5>. QED BY <1>t, <2>1, <3>3, <5>1, <5>2 DEF Agree
      <4>3. CASE store[k] # Cache!Missing
        <5>1. /\ redis[k] = [value |-> store[k], until |-> expiry[k]]
              /\ ~Cache!Past(expiry[k])
              /\ Cache!MemoryGet(k) = store[k] /\ Cache!RedisGet(k) = store[k]
          BY <3>1, <3>3, <4>1, <4>3 DEF Agree, Cache!IsExpired, Cache!MemoryGet,
             Cache!RedisGet
        <5>2. r = [value |-> store[k] + 1, until |-> expiry[k]] /\ held = store[k] + 1
          BY <4>3, <5>1
        <5>. QED BY <1>t, <2>1, <3>3, <5>2 DEF Agree
      <4>. QED BY <4>2, <4>3
    <3>. QED BY <3>2, <3>3
  <2>. QED BY <1>t, <2>1, <2>4, <2>5 DEF CacheIInv
<1>9. CASE Cache!Tick
  <2>1. /\ now' = now + 1 /\ UNCHANGED <<store, expiry, redis, lapsed>>
        /\ \A u \in Nat \cup {Cache!Never} : Cache!Past(u) => Cache!Past(u)'
    BY <1>t, <1>9 DEF Cache!Tick, Cache!Past
  <2>2. ASSUME NEW j \in Keys \ lapsed' PROVE Agree(j)'
    BY <1>t, <2>1, <2>2 DEF Agree
  <2>. QED BY <1>t, <2>1, <2>2 DEF CacheIInv, Cache!TypeOK
<1>10. CASE UNCHANGED Cache!vars
  BY <1>10, <1>t DEF Cache!vars, CacheIInv, Cache!TypeOK, Agree, Cache!Past
<1>. QED BY <1>1, <1>3, <1>4, <1>6, <1>7, <1>8, <1>9, <1>10 DEF Cache!Next

\* Caches in agreement give the same answers.
LEMMA CacheSound == CacheIInv => Cache!CacheInv
<1>. SUFFICES ASSUME CacheIInv, NEW k \in Keys \ lapsed
              PROVE  Cache!MemoryGet(k) = Cache!RedisGet(k)
  BY DEF CacheIInv, Cache!CacheInv, Cache!SameAnswers
<1>1. Agree(k) /\ (store[k] = Cache!Missing => expiry[k] = Cache!Never)
  BY DEF CacheIInv, Cache!TypeOK
<1>. QED BY <1>1 DEF Agree, Cache!MemoryGet, Cache!RedisGet, Cache!IsExpired, Cache!Past

\* The dictionary and Redis give the same answers about such a key, for any keys,
\* lifetimes and order of the calls.
THEOREM CachesAgree == ASSUME Cache!KeyCacheAssumption PROVE Cache!Spec => []Cache!CacheInv
<1>. QED BY CacheSound, CacheInitially, CacheStep, PTL DEF Cache!Spec

-----------------------------------------------------------------------------
(* The SQL backends                                                        *)

\* What a call left when it is over.
Over(t) ==
  /\ outcome[t] = "ok" => rows[t] = Sql!Both
  /\ outcome[t] = "raised" => rows[t] = IF unsure[t] THEN Sql!Both ELSE {}

\* How far a call is with its statements: those it executed are pending on its connection
\* as long as that is open, and none is committed before the commit.
Progress(t) ==
  /\ db = "sqlite" => step[t] \in {"out", "first", "second"} /\ pending[t] = {}
  /\ db = "sqlite" /\ step[t] = "second" => kind[t] = "transaction"
  /\ step[t] \in {"get", "first", "second", "commit"} =>
       ~unsure[t] /\ (db = "postgres" \/ step[t] = "first" => rows[t] = {})
  /\ step[t] \in {"second", "commit", "rollback"} => kind[t] # "fetch"
  /\ step[t] \in {"out", "get", "first", "put"} => pending[t] = {}
  /\ conn[t] = "open" => /\ step[t] = "second" => pending[t] = {1}
                         /\ step[t] = "commit" => pending[t] = Sql!Both
  /\ step[t] = "rollback" => outcome[t] = "raised"
  /\ /\ step[t] \in {"rollback", "put", "out"} /\ kind[t] # "fetch"
     /\ db = "postgres" \/ kind[t] = "many"
     => Over(t)

\* The pool counts its connections right, those it has lost among them.
Pool ==
  /\ idle \in [open : Nat, broken : Nat] /\ restarts \in Nat
  /\ IsFiniteSet(lost)
  /\ Cardinality(Sql!Used) + Cardinality(lost) + idle.open + idle.broken <= MaxConnections
  /\ idle.open + idle.broken <= MinConnections
  /\ Sql!ClosedLeave

\* A connection that is lost, or about to be, is that of a fetch that was done when
\* the server restarted. A lost one's call is over.
Losing ==
  /\ calls \in [Users -> Nat]
  /\ lost \subseteq exposed
  /\ \A t \in Users, n \in Nat :
       <<t, n>> \in lost => n < calls[t] \/ (n = calls[t] /\ step[t] = "out")
  /\ \A t \in Users : conn[t] = "broken" /\ kind[t] = "fetch" /\ step[t] = "put"
                      => <<t, calls[t]>> \in exposed

\* A call has a connection between getting one and giving it back; it is broken in
\* nobody's hands before the server restarts.
Connected(t) ==
  /\ conn[t] # "none" <=> db = "postgres" /\ step[t] \notin {"out", "get"}
  /\ restarts = 0 => conn[t] # "broken"

SqlIInv ==
  /\ Sql!TypeOK /\ unsure \in [Users -> BOOLEAN]
  /\ \A t \in Users : Progress(t) /\ Connected(t)
  /\ Pool /\ Losing

\* FiniteSets counts within the SQL backends as it does elsewhere.
LEMMA SqlCounts ==
  \A S : (Sql!IsFiniteSet(S) <=> IsFiniteSet(S)) /\ Sql!Cardinality(S) = Cardinality(S)
BY DEF Sql!IsFiniteSet, IsFiniteSet, Sql!Cardinality, Cardinality

\* No thread has a connection, and the pool has its minimum.
LEMMA SqlInitially == ASSUME Sql!SqlStorageAssumption PROVE Sql!Init => SqlIInv
<1>. SUFFICES ASSUME Sql!Init PROVE SqlIInv
  OBVIOUS
<1>1. Sql!Used = {}
  BY DEF Sql!Init, Sql!Used
<1>2. Cardinality(Sql!Used) = 0 /\ lost = {} /\ IsFiniteSet(lost) /\ Cardinality(lost) = 0
  BY <1>1, FS_EmptySet DEF Sql!Init
<1>3. Pool
  BY <1>2 DEF Sql!SqlStorageAssumption, Sql!Init, Pool, Sql!ClosedLeave
<1>4. Sql!TypeOK /\ unsure \in [Users -> BOOLEAN]
  BY DEF Sql!Init, Sql!TypeOK, Sql!Kinds
<1>5. ASSUME NEW t \in Users PROVE Progress(t) /\ Connected(t)
  BY DEF Sql!Init, Progress, Connected
<1>6. Losing
  BY <1>2 DEF Losing, Sql!Init
<1>. QED BY <1>3, <1>4, <1>5, <1>6 DEF SqlIInv

\* Every step of a thread, and a restart of the server, keep what a call has done
\* so far in step with where it is.
LEMMA SqlThreadStep ==
  ASSUME SqlIInv, [Sql!Next]_Sql!vars
  PROVE  /\ Sql!TypeOK' /\ unsure' \in [Users -> BOOLEAN]
         /\ \A t \in Users : Progress(t)' /\ Connected(t)'
<1>. DEFINE Thread ==
              /\ Sql!TypeOK' /\ unsure' \in [Users -> BOOLEAN]
              /\ \A t \in Users : Progress(t)' /\ Connected(t)'
<1>t. /\ Sql!TypeOK /\ unsure \in [Users -> BOOLEAN] /\ restarts \in Nat
      /\ restarts = 0 => idle.broken = 0
      /\ \A t \in Users : Progress(t) /\ Connected(t)
  BY DEF SqlIInv, Pool, Sql!ClosedLeave
<1>. USE DEF Sql!TypeOK, Sql!Go, Sql!Returns, Sql!Connections, Sql!pool
<1>1. ASSUME NEW t \in Users, Sql!Call(t) PROVE Thread
  BY <1>t, <1>1 DEF Sql!Call, Progress, Connected, Over
<1>2. ASSUME NEW t \in Users, Sql!GetConnection(t) PROVE Thread
  <2>1. PICK how \in {"open", "broken"} :
         conn' = [conn EXCEPT ![t] = how] /\ (restarts = 0 => how = "open")
    BY <1>2, <1>t DEF Sql!GetConnection
  <2>. QED BY <1>t, <1>2, <2>1 DEF Sql!GetConnection, Progress, Connected, Over
<1>3. ASSUME NEW t \in Users, Sql!NoConnection(t) PROVE Thread
  BY <1>t, <1>3 DEF Sql!NoConnection, Progress, Connected, Over
<1>4. ASSUME NEW t \in Users, Sql!Execute(t) PROVE Thread
  BY <1>t, <1>4 DEF Sql!Execute, Progress, Connected, Over, Sql!Both
<1>5. ASSUME NEW t \in Users, Sql!Raises(t) PROVE Thread
  BY <1>t, <1>5 DEF Sql!Raises, Sql!Noticed, Progress, Connected, Over
<1>6. ASSUME NEW t \in Users, Sql!Commit(t) PROVE Thread
  <2>1. /\ pending[t] = Sql!Both /\ kind[t] # "fetch" /\ ~unsure[t] /\ db = "postgres"
        /\ rows' = [rows EXCEPT ![t] = Sql!Both] /\ pending' = [pending EXCEPT ![t] = {}]
        /\ UNCHANGED <<db, kind, restarts>>
    BY <1>t, <1>6 DEF Sql!Commit, Progress
  <2>2. CASE outcome' = [outcome EXCEPT ![t] = "ok"] /\ step' = [step EXCEPT ![t] = "put"]
             /\ UNCHANGED <<unsure, conn>>
    BY <1>t, <1>6, <2>1, <2>2 DEF Sql!Commit, Progress, Connected, Over
  <2>3. CASE /\ outcome' = [outcome EXCEPT ![t] = "raised"]
             /\ step' = [step EXCEPT ![t] = "rollback"]
             /\ unsure' = [unsure EXCEPT ![t] = TRUE]
             /\ conn' = [conn EXCEPT ![t] = "closed"]
    <3>1. /\ rows'[t] = Sql!Both /\ outcome'[t] = "raised" /\ step'[t] = "rollback"
          /\ unsure'[t]
          /\ conn'[t] = "closed" /\ pending'[t] = {} /\ db' = db /\ kind' = kind
      BY <1>t, <2>1, <2>3
    <3>2. Progress(t)' /\ Connected(t)'
      BY <1>t, <1>6, <2>1, <3>1 DEF Sql!Commit, Progress, Connected, Over
    <3>3. ASSUME NEW u \in Users, u # t PROVE Progress(u)' /\ Connected(u)'
      BY <1>t, <2>1, <2>3, <3>3 DEF Progress, Connected, Over
    <3>. QED BY <1>t, <2>1, <2>3, <3>2, <3>3 DEF Sql!Both, Sql!Commit
  <2>. QED BY <1>6, <2>2, <2>3 DEF Sql!Commit
<1>7. ASSUME NEW t \in Users, Sql!CommitFails(t) PROVE Thread
  BY <1>t, <1>7 DEF Sql!CommitFails, Sql!Noticed, Progress, Connected, Over
<1>8. ASSUME NEW t \in Users, Sql!Rollback(t) PROVE Thread
  BY <1>t, <1>8 DEF Sql!Rollback, Sql!Noticed, Progress, Connected, Over
<1>9. ASSUME NEW t \in Users, Sql!PutConnection(t) PROVE Thread
  BY <1>t, <1>9 DEF Sql!PutConnection, Sql!PutRaises, Progress, Connected, Over
<1>10. ASSUME NEW t \in Users, Sql!WriteSqlite(t) PROVE Thread
  <2>1. /\ step[t] = "first" => rows[t] = {}
        /\ step[t] = "second" => kind[t] = "transaction"
        /\ kind[t] \in {"transaction", "many"} /\ conn[t] = "none"
    BY <1>t, <1>10 DEF Sql!WriteSqlite, Progress, Connected, Sql!Kinds
  <2>2. /\ Sql!Committed(t) \in SUBSET Sql!Both
        /\ kind[t] = "many" => Sql!Committed(t) = Sql!Both
    BY <1>t, <1>10, <2>1 DEF Sql!WriteSqlite, Sql!Committed, Sql!Both
  <2>3. rows' \in [Users -> SUBSET Sql!Both] /\ rows'[t] = Sql!Committed(t)
        /\ \A u \in Users \ {t} : rows'[u] = rows[u]
    BY <1>t, <1>10, <2>2 DEF Sql!WriteSqlite
  <2>4. UNCHANGED <<db, kind, pending, unsure, conn>> /\ db = "sqlite"
    BY <1>10 DEF Sql!WriteSqlite
  <2>5. \/ /\ rows'[t] = Sql!Both /\ outcome' = [outcome EXCEPT ![t] = "ok"]
           /\ step' = [step EXCEPT ![t] = "out"]
        \/ /\ kind[t] = "transaction" /\ outcome' = outcome
           /\ step' = [step EXCEPT ![t] = "second"]
    BY <1>10, <2>1, <2>2, <2>3 DEF Sql!WriteSqlite, Sql!Both
  <2>6. Progress(t)' /\ Connected(t)'
    BY <1>t, <1>10, <2>1, <2>3, <2>4, <2>5 DEF Sql!WriteSqlite, Progress, Connected, Over
  <2>7. ASSUME NEW u \in Users, u # t PROVE Progress(u)' /\ Connected(u)'
    BY <1>t, <2>3, <2>4, <2>5, <2>7 DEF Progress, Connected, Over
  <2>. QED BY <1>t, <2>3, <2>4, <2>5, <2>6, <2>7
<1>11. ASSUME NEW t \in Users, Sql!ReadSqlite(t) \/ Sql!RaisesSqlite(t) PROVE Thread
  <2>1. CASE Sql!ReadSqlite(t)
    BY <1>t, <2>1 DEF Sql!ReadSqlite, Progress, Connected, Over
  <2>2. CASE Sql!RaisesSqlite(t)
    BY <1>t, <2>2 DEF Sql!RaisesSqlite, Progress, Connected, Over
  <2>. QED BY <1>11, <2>1, <2>2
<1>12. CASE Sql!Restart
  BY <1>t, <1>12 DEF Sql!Restart, Progress, Connected, Over
<1>13. CASE UNCHANGED Sql!vars
  BY <1>t, <1>13 DEF Sql!vars, Progress, Connected, Over
<1>. QED BY <1>1, <1>2, <1>3, <1>4, <1>5, <1>6, <1>7, <1>8, <1>9, <1>10, <1>11, <1>12, <1>13
     DEF Sql!Next

\* Every step keeps the count of the connections right.
LEMMA SqlPoolStep ==
  ASSUME Sql!SqlStorageAssumption, SqlIInv, [Sql!Next]_Sql!vars PROVE Pool'
<1>t. /\ idle \in [open : Nat, broken : Nat] /\ restarts \in Nat
      /\ Cardinality(Sql!Used) + Cardinality(lost) + idle.open + idle.broken <= MaxConnections
      /\ idle.open + idle.broken <= MinConnections
      /\ restarts = 0 => idle.broken = 0
      /\ conn \in [Users -> {"none", "open", "broken", "closed"}]
      /\ \A t \in Users : Connected(t) /\ Progress(t)
  BY DEF SqlIInv, Pool, Sql!ClosedLeave, Sql!TypeOK, Sql!Connections
<1>u. /\ IsFiniteSet(Sql!Used) /\ Cardinality(Sql!Used) \in Nat
      /\ IsFiniteSet(lost) /\ Cardinality(lost) \in Nat
      /\ MinConnections \in Nat /\ MaxConnections \in Nat
  BY SqlCounts, FS_Subset, FS_CardinalityType
     DEF Sql!Used, Sql!SqlStorageAssumption, SqlIInv, Pool
<1>1. ASSUME NEW t \in Users, Sql!GetConnection(t) PROVE Pool'
  <2>1. /\ conn' = [conn EXCEPT ![t] = "open"] \/ conn' = [conn EXCEPT ![t] = "broken"]
        /\ UNCHANGED <<lost, restarts>>
    BY <1>1 DEF Sql!GetConnection
  <2>2. t \notin Sql!Used /\ Sql!Used' = Sql!Used \cup {t}
    BY <1>t, <1>1, <2>1 DEF Sql!GetConnection, Connected, Sql!Used
  <2>3. Cardinality(Sql!Used') = Cardinality(Sql!Used) + 1
    BY <1>u, <2>2, FS_AddElement
  <2>4. CASE /\ idle.open > 0 /\ idle' = [idle EXCEPT !["open"] = @ - 1]
    BY <1>t, <1>u, <2>1, <2>3, <2>4 DEF Pool, Sql!ClosedLeave
  <2>5. CASE /\ idle.broken > 0 /\ idle' = [idle EXCEPT !["broken"] = @ - 1]
    BY <1>t, <1>u, <2>1, <2>3, <2>5 DEF Pool, Sql!ClosedLeave
  <2>6. CASE /\ Sql!Idle = 0 /\ Sql!Taken < MaxConnections /\ idle' = idle
    BY <1>t, <1>u, <2>1, <2>3, <2>6, SqlCounts DEF Pool, Sql!ClosedLeave, Sql!Idle, Sql!Taken
  <2>. QED BY <1>1, <2>4, <2>5, <2>6 DEF Sql!GetConnection
<1>2. ASSUME NEW t \in Users, Sql!PutConnection(t) PROVE Pool'
  <2>1. conn[t] # "none" /\ conn' = [conn EXCEPT ![t] = "none"] /\ restarts' = restarts
    <3>1. Connected(t) /\ Progress(t)
      BY <1>t
    <3>2. db = "postgres" \/ db = "sqlite"
      BY DEF SqlIInv, Sql!TypeOK
    <3>. QED BY <1>2, <3>1, <3>2 DEF Sql!PutConnection, Connected, Progress
  <2>2. t \in Sql!Used /\ Sql!Used' = Sql!Used \ {t}
    BY <1>t, <2>1 DEF Sql!Used
  <2>3. Cardinality(Sql!Used') = Cardinality(Sql!Used) - 1
    BY <1>u, <2>2, FS_RemoveElement
  <2>4. CASE Sql!PutRaises(t)
    <3>1. lost' = lost \cup {<<t, calls[t]>>} /\ idle' = idle
      BY <1>2, <2>4 DEF Sql!PutConnection
    <3>2. <<t, calls[t]>> \notin lost
      <4>1. calls[t] \in Nat /\ step[t] = "put"
        BY <1>2 DEF SqlIInv, Losing, Sql!PutConnection
      <4>. QED BY <4>1 DEF SqlIInv, Losing
    <3>3. IsFiniteSet(lost') /\ Cardinality(lost') = Cardinality(lost) + 1
      BY <1>u, <3>1, <3>2, FS_AddElement
    <3>. QED BY <1>t, <1>u, <2>1, <2>3, <3>1, <3>3 DEF Pool, Sql!ClosedLeave
  <2>5. CASE ~Sql!PutRaises(t)
    <3>1. lost' = lost /\ idle' = Sql!PoolAfterPut(t)
      BY <1>2, <2>5 DEF Sql!PutConnection
    <3>2. CASE idle' = idle
      BY <1>t, <1>u, <2>1, <2>3, <3>1, <3>2 DEF Pool, Sql!ClosedLeave
    <3>3. CASE /\ conn[t] = "open" /\ Sql!Idle < MinConnections
               /\ idle' = [idle EXCEPT !["open"] = @ + 1]
      BY <1>t, <1>u, <2>1, <2>3, <3>1, <3>3 DEF Pool, Sql!ClosedLeave, Sql!Idle
    <3>4. CASE /\ conn[t] = "broken" /\ Sql!Idle < MinConnections
               /\ idle' = [idle EXCEPT !["broken"] = @ + 1]
      <4>1. restarts # 0
        BY <1>t, <3>4 DEF Connected
      <4>. QED BY <1>t, <1>u, <2>1, <2>3, <3>1, <3>4, <4>1 DEF Pool, Sql!ClosedLeave, Sql!Idle
    <3>5. conn[t] \in {"open", "broken", "closed"} /\ Sql!Idle \in Nat
      BY <1>t, <2>1 DEF Sql!Idle
    <3>6. CASE conn[t] = "closed" \/ Sql!Idle >= MinConnections
      BY <3>1, <3>2, <3>6 DEF Sql!PoolAfterPut
    <3>7. CASE conn[t] # "closed" /\ Sql!Idle < MinConnections
      <4>1. idle' = [idle EXCEPT ![conn[t]] = @ + 1]
        BY <1>u, <3>1, <3>5, <3>7 DEF Sql!PoolAfterPut
      <4>. QED BY <3>3, <3>4, <3>5, <3>7, <4>1
    <3>. QED BY <1>u, <3>5, <3>6, <3>7
  <2>. QED BY <2>4, <2>5
<1>3. ASSUME NEW t \in Users,
             \/ Sql!Call(t) \/ Sql!NoConnection(t) \/ Sql!Execute(t) \/ Sql!Raises(t)
             \/ Sql!Commit(t) \/ Sql!CommitFails(t) \/ Sql!Rollback(t)
             \/ Sql!WriteSqlite(t) \/ Sql!ReadSqlite(t) \/ Sql!RaisesSqlite(t)
      PROVE  Pool'
  <2>1. \/ conn' = conn
        \/ conn' = [conn EXCEPT ![t] = Sql!Noticed(@)]
        \/ conn' = [conn EXCEPT ![t] = "closed"] /\ conn[t] = "open"
    BY <1>3 DEF Sql!Call, Sql!NoConnection, Sql!Execute, Sql!Raises, Sql!Commit,
       Sql!CommitFails, Sql!Rollback,
       Sql!WriteSqlite, Sql!ReadSqlite, Sql!RaisesSqlite, Sql!pool
  <2>2. Sql!Used' = Sql!Used
    BY <1>t, <2>1 DEF Sql!Noticed, Sql!Used
  <2>3. UNCHANGED <<idle, lost, restarts>>
    BY <1>3 DEF Sql!Call, Sql!NoConnection, Sql!Execute, Sql!Raises, Sql!Commit,
       Sql!CommitFails, Sql!Rollback,
       Sql!WriteSqlite, Sql!ReadSqlite, Sql!RaisesSqlite, Sql!pool
  <2>. QED BY <1>t, <1>u, <2>2, <2>3 DEF Pool, Sql!ClosedLeave
<1>4. CASE Sql!Restart
  <2>1. Sql!Used' = Sql!Used
    BY <1>t, <1>4 DEF Sql!Restart, Sql!Used
  <2>2. /\ restarts' = restarts + 1 /\ lost' = lost
        /\ idle' = [open |-> 0, broken |-> idle.open + idle.broken]
    BY <1>4 DEF Sql!Restart, Sql!Idle
  <2>. QED BY <1>t, <1>u, <2>1, <2>2 DEF Pool, Sql!ClosedLeave
<1>5. CASE UNCHANGED Sql!vars
  <2>1. UNCHANGED <<idle, lost, restarts, conn>>
    BY <1>5 DEF Sql!vars, Sql!pool
  <2>. QED BY <1>t, <1>u, <2>1 DEF Pool, Sql!ClosedLeave, Sql!Used
<1>. QED BY <1>1, <1>2, <1>3, <1>4, <1>5 DEF Sql!Next

\* Only a fetch that was done when the server restarted loses its connection.
LEMMA SqlLosingStep ==
  ASSUME SqlIInv, [Sql!Next]_Sql!vars PROVE Losing'
<1>t. /\ calls \in [Users -> Nat]
      /\ lost \subseteq exposed
      /\ \A t \in Users, n \in Nat :
           <<t, n>> \in lost => n < calls[t] \/ (n = calls[t] /\ step[t] = "out")
      /\ \A t \in Users : conn[t] = "broken" /\ kind[t] = "fetch" /\ step[t] = "put"
                          => <<t, calls[t]>> \in exposed
      /\ conn \in [Users -> {"none", "open", "broken", "closed"}]
      /\ step \in [Users -> {"out", "get", "first", "second", "commit", "rollback", "put"}]
      /\ \A t \in Users : Connected(t) /\ Progress(t)
      /\ kind \in [Users -> Sql!Kinds]
  BY DEF SqlIInv, Losing, Sql!TypeOK, Sql!Connections
<1>. USE DEF Sql!Go, Sql!Returns, Sql!pool
<1>1. ASSUME NEW t \in Users, Sql!Call(t) PROVE Losing'
  <2>1. /\ calls' = [calls EXCEPT ![t] = @ + 1] /\ step[t] = "out"
        /\ step' \in {[step EXCEPT ![t] = "get"], [step EXCEPT ![t] = "first"]}
        /\ UNCHANGED <<conn, lost, exposed>>
        /\ \A u \in Users \ {t} : kind'[u] = kind[u]
    BY <1>t, <1>1 DEF Sql!Call
  <2>. QED BY <1>t, <2>1 DEF Losing
<1>2. ASSUME NEW t \in Users,
             \/ Sql!GetConnection(t) \/ Sql!NoConnection(t) \/ Sql!Execute(t) \/ Sql!Raises(t)
             \/ Sql!Commit(t) \/ Sql!CommitFails(t) \/ Sql!Rollback(t)
             \/ Sql!WriteSqlite(t) \/ Sql!ReadSqlite(t) \/ Sql!RaisesSqlite(t)
      PROVE  Losing'
  <2>1. UNCHANGED <<calls, kind, lost, exposed>>
    BY <1>2 DEF Sql!GetConnection, Sql!NoConnection, Sql!Execute, Sql!Raises, Sql!Commit,
       Sql!CommitFails, Sql!Rollback, Sql!WriteSqlite, Sql!ReadSqlite, Sql!RaisesSqlite
  <2>2. \A u \in Users \ {t} : step'[u] = step[u] /\ conn'[u] = conn[u]
    BY <1>t, <1>2 DEF Sql!GetConnection, Sql!NoConnection, Sql!Execute, Sql!Raises, Sql!Commit,
       Sql!CommitFails, Sql!Rollback, Sql!WriteSqlite, Sql!ReadSqlite, Sql!RaisesSqlite
  <2>3. step[t] # "out"
    BY <1>2 DEF Sql!GetConnection, Sql!NoConnection, Sql!Execute, Sql!Raises, Sql!Commit,
       Sql!CommitFails, Sql!Rollback, Sql!WriteSqlite, Sql!ReadSqlite, Sql!RaisesSqlite
  <2>4. ~(conn'[t] = "broken" /\ kind[t] = "fetch" /\ step'[t] = "put")
    <3>1. CASE Sql!Execute(t)
      BY <1>t, <3>1 DEF Sql!Execute
    <3>2. CASE Sql!Raises(t)
      BY <1>t, <3>2 DEF Sql!Raises, Sql!Noticed
    <3>3. CASE Sql!Commit(t) \/ Sql!CommitFails(t)
      BY <1>t, <3>3 DEF Sql!Commit, Sql!CommitFails, Progress
    <3>4. CASE Sql!Rollback(t)
      BY <1>t, <3>4 DEF Sql!Rollback, Progress
    <3>5. CASE \/ Sql!GetConnection(t) \/ Sql!NoConnection(t)
               \/ Sql!WriteSqlite(t) \/ Sql!ReadSqlite(t) \/ Sql!RaisesSqlite(t)
      BY <1>t, <3>5 DEF Sql!GetConnection, Sql!NoConnection, Sql!WriteSqlite, Sql!ReadSqlite,
         Sql!RaisesSqlite
    <3>. QED BY <1>2, <3>1, <3>2, <3>3, <3>4, <3>5
  <2>. QED BY <1>t, <2>1, <2>2, <2>3, <2>4 DEF Losing
<1>3. ASSUME NEW t \in Users, Sql!PutConnection(t) PROVE Losing'
  <2>1. /\ UNCHANGED <<calls, kind, exposed>> /\ step[t] = "put"
        /\ step' = [step EXCEPT ![t] = "out"] /\ conn' = [conn EXCEPT ![t] = "none"]
        /\ \/ lost' = lost
           \/ /\ lost' = lost \cup {<<t, calls[t]>>}
              /\ conn[t] = "broken" /\ kind[t] = "fetch"
    BY <1>3 DEF Sql!PutConnection, Sql!PutRaises
  <2>. QED BY <1>t, <2>1 DEF Losing
<1>4. CASE Sql!Restart
  <2>1. /\ UNCHANGED <<calls, kind, lost, step>> /\ exposed \subseteq exposed'
        /\ conn' = [t \in Users |-> IF conn[t] = "open" THEN "broken" ELSE conn[t]]
    BY <1>4 DEF Sql!Restart
  <2>2. ASSUME NEW t \in Users, conn[t] = "open", kind[t] = "fetch", step[t] = "put"
        PROVE  <<t, calls[t]>> \in exposed'
    BY <1>4, <2>2 DEF Sql!Restart
  <2>. QED BY <1>t, <2>1, <2>2 DEF Losing
<1>5. CASE UNCHANGED Sql!vars
  BY <1>t, <1>5 DEF Sql!vars, Losing
<1>. QED BY <1>1, <1>2, <1>3, <1>4, <1>5 DEF Sql!Next

\* The invariant of the SQL backends is inductive.
LEMMA SqlStep ==
  ASSUME Sql!SqlStorageAssumption
  PROVE SqlIInv /\ [Sql!Next]_Sql!vars => SqlIInv'
BY SqlThreadStep, SqlPoolStep, SqlLosingStep DEF SqlIInv

\* A call that is where its steps have brought it is all or nothing when over.
LEMMA SqlSound == ASSUME Sql!SqlStorageAssumption PROVE SqlIInv => Sql!SqlInv
<1>. SUFFICES ASSUME SqlIInv PROVE Sql!SqlInv
  OBVIOUS
<1>1. Sql!TypeOK /\ Sql!AllOrNothing
  BY DEF SqlIInv, Sql!AllOrNothing, Progress, Over
<1>2. /\ \A t \in Users : conn[t] # "none" <=> db = "postgres" /\ step[t] \notin {"out", "get"}
      /\ lost \subseteq exposed
  BY DEF SqlIInv, Connected, Losing
<1>3. /\ Sql!Taken + Sql!Idle <= MaxConnections /\ Sql!Idle <= MinConnections
      /\ Sql!ClosedLeave
  <2>1. Sql!Used \subseteq Users /\ IsFiniteSet(Sql!Used) /\ IsFiniteSet(lost)
    BY SqlCounts, FS_Subset DEF SqlIInv, Pool, Sql!Used, Sql!SqlStorageAssumption
  <2>2. Cardinality(Sql!Used) \in Nat /\ Cardinality(lost) \in Nat
    BY <2>1, FS_CardinalityType
  <2>3. Sql!Taken = Cardinality(Sql!Used) + Cardinality(lost)
    BY SqlCounts DEF Sql!Taken
  <2>. QED BY <2>2, <2>3 DEF SqlIInv, Pool, Sql!Idle
<1>. QED BY <1>1, <1>2, <1>3 DEF Sql!SqlInv, Sql!ConnectionsComeBack

\* A transaction of the Postgres backend and an executemany of either are all or
\* nothing, and every call gives its connection back, whatever the number of
\* threads and connections and wherever statements fail or the server restarts.
THEOREM SqlSafety == ASSUME Sql!SqlStorageAssumption PROVE Sql!Spec => []Sql!SqlInv
<1>. QED BY SqlSound, SqlInitially, SqlStep, PTL DEF Sql!Spec

-----------------------------------------------------------------------------
(* The storage together                                                    *)

\* In every behaviour of the three kinds of storage the lock is exclusive, the
\* caches agree, and calls of the SQL backends are all or nothing: what the run
\* checks of a few threads and keys, for any number of them.
THEOREM StorageHolds ==
  ASSUME Locks!DistributedLockAssumption, Cache!KeyCacheAssumption, Sql!SqlStorageAssumption
  PROVE  MCSpec => []StorageInv
<1>. DEFINE Held == /\ OnLock => LockIInv
                    /\ OnCache => CacheIInv
                    /\ OnSql => SqlIInv
<1>1. MCInit => Held
  BY LockInitially, CacheInitially, SqlInitially DEF MCInit
<1>2. Held /\ [MCNext]_all => Held'
  <2>. SUFFICES ASSUME Held, [MCNext]_all PROVE Held'
    OBVIOUS
  <2>1. subject' = subject
    BY DEF MCNext, all
  <2>2. /\ OnLock' => OnLock /\ [Locks!Next]_Locks!vars
        /\ OnCache' => OnCache /\ [Cache!Next]_Cache!vars
        /\ OnSql' => OnSql /\ [Sql!Next]_Sql!vars
    BY <2>1 DEF MCNext, all, lock, cache, sql, OnRequests, OnLock, OnCache, OnSql, OnPlan,
       OnUpgrade, Locks!vars, Cache!vars, Sql!vars, Sql!pool
  <2>. QED BY <2>2, LockStep, CacheStep, SqlStep
<1>3. Held => StorageInv
  BY CacheSound, SqlSound DEF StorageInv, LockIInv
<1>. QED BY <1>1, <1>2, <1>3, PTL DEF MCSpec

-----------------------------------------------------------------------------
(* The client's requests                                                   *)

\* The calls of a heartbeat by their numbers.
LEMMA Numbered ==
  /\ Reqs!Last = 6 /\ Reqs!Call = 1..6
  /\ Reqs!Kind(1) = "register" /\ Reqs!Kind(2) = "checkout" /\ Reqs!Kind(3) = "start"
  /\ Reqs!Kind(4) = "add" /\ Reqs!Kind(5) = "finish" /\ Reqs!Kind(6) = "release"
  /\ Reqs!CallOf("checkout") = 2 /\ Reqs!CallOf("start") = 3 /\ Reqs!CallOf("finish") = 5
  /\ Reqs!CallOf("release") = 6
<1>1. /\ Reqs!Last = 6 /\ Reqs!Call = 1..6
      /\ Reqs!Kind(1) = "register" /\ Reqs!Kind(2) = "checkout" /\ Reqs!Kind(3) = "start"
      /\ Reqs!Kind(4) = "add" /\ Reqs!Kind(5) = "finish" /\ Reqs!Kind(6) = "release"
  BY DEF Reqs!Last, Reqs!Call, Reqs!Calls, Reqs!Kind
<1>2. \A c \in Reqs!Call : Reqs!Calls[c] = Reqs!Kind(c)
  BY DEF Reqs!Kind
<1>3. Reqs!Call = {1, 2, 3, 4, 5, 6}
  BY <1>1
<1>4. Reqs!CallOf("checkout") = 2
  BY <1>1, <1>2, <1>3 DEF Reqs!CallOf
<1>5. Reqs!CallOf("start") = 3
  BY <1>1, <1>2, <1>3 DEF Reqs!CallOf
<1>6. Reqs!CallOf("finish") = 5
  BY <1>1, <1>2, <1>3 DEF Reqs!CallOf
<1>7. Reqs!CallOf("release") = 6
  BY <1>1, <1>2, <1>3 DEF Reqs!CallOf
<1>. QED BY <1>1, <1>4, <1>5, <1>6, <1>7

Results == {"none", "ok", "conflict", "refused", "failed", "escaped"}

\* How the issue came to be as it is, told by the executions and the results.
Traced ==
  /\ holder = "client" => made[2] > 0
  /\ holder = "rival" => rivals > 0
  /\ ~late /\ result[6] = "ok" => holder # "client"
  /\ ~late /\ result[5] = "ok" => status = "done"
  /\ result[2] = "conflict" => rivals > 0 \/ unlearned[2] > 0

\* What the client makes of the answers: the calls ahead have no result, and
\* without one of the release the client never began, or the start escaped.
Walked ==
  /\ \A c \in Reqs!Call : c >= at => result[c] = "none"
  /\ \A c \in Reqs!Call : result[c] = "conflict" => c = 2
  /\ at = 7 => result[6] # "none" \/ result[2] # "ok" \/ result[3] = "escaped"

RequestIInv ==
  /\ Reqs!TypeOK /\ rivals \in Nat
  /\ made \in [Reqs!Call -> Nat] /\ unlearned \in [Reqs!Call -> Nat]
  /\ Reqs!RepeatsAreUnlearned /\ Traced /\ Walked

\* Before the first call nothing is on its way and nobody has the issue.
LEMMA RequestsInitially == ASSUME Reqs!RequestsAssumption PROVE Reqs!Init => RequestIInv
<1>. SUFFICES ASSUME Reqs!Init PROVE RequestIInv
  OBVIOUS
<1>. USE Numbered DEF Results
<1>1. Reqs!TypeOK
  BY DEF Reqs!RequestsAssumption, Reqs!Init, Reqs!TypeOK
<1>. QED BY <1>1 DEF Reqs!Init, RequestIInv, Reqs!RepeatsAreUnlearned, Traced, Walked

\* A call that returns is the first with its result, and the client goes on to a
\* later one, or is over.
LEMMA CallReturns ==
  ASSUME Reqs!RequestsAssumption, RequestIInv, at \in Reqs!Call,
         NEW r \in {"ok", "conflict", "refused", "failed", "escaped"}, Reqs!Return(r),
         r = "conflict" => at = 2
  PROVE  /\ at' \in 1..7 /\ at' > at /\ attempt' = 0
         /\ request' \in {"send", "over"} /\ (request' = "over" <=> at' = 7)
         /\ result' = [result EXCEPT ![at] = r] /\ result[at] = "none"
         /\ result' \in [Reqs!Call -> Results]
         /\ Walked'
<1>. USE Numbered DEF Results
<1>1. /\ result \in [Reqs!Call -> Results]
      /\ at \in 1..6 /\ result[at] = "none" /\ Walked
  BY DEF RequestIInv, Reqs!TypeOK, Walked
<1>2. /\ result' = [result EXCEPT ![at] = r] /\ at' = Reqs!After(at, r) /\ attempt' = 0
      /\ request' = IF at' > Reqs!Last THEN "over" ELSE "send"
  BY DEF Reqs!Return
<1>3. /\ at' \in 1..7 /\ at' > at
      /\ at' = 7 => at = 6 \/ (at = 2 /\ r # "ok") \/ (at \in {1, 3} /\ r = "escaped")
  BY <1>1, <1>2 DEF Reqs!After
<1>4. Walked'
  <2>1. \A c \in Reqs!Call : c >= at' => result'[c] = "none"
    BY <1>1, <1>2, <1>3 DEF Walked
  <2>2. \A c \in Reqs!Call : result'[c] = "conflict" => c = 2
    BY <1>1, <1>2 DEF Walked
  <2>3. at' = 7 => result'[6] # "none" \/ result'[2] # "ok" \/ result'[3] = "escaped"
    BY <1>1, <1>2, <1>3 DEF Walked
  <2>. QED BY <2>1, <2>2, <2>3 DEF Walked
<1>. QED BY <1>1, <1>2, <1>3, <1>4

\* What an execution makes of the issue.
LEMMA Effects ==
  ASSUME RequestIInv, NEW c \in Reqs!Call, Reqs!Effect(c)
  PROVE  /\ made' = [made EXCEPT ![c] = @ + 1]
         /\ c \in {1, 4} => UNCHANGED <<status, holder>>
         /\ c = 2 => holder' = "client" /\ UNCHANGED status
         /\ c = 3 => status' = "in_progress" /\ UNCHANGED holder
         /\ c = 5 => status' = "done" /\ UNCHANGED holder
         /\ c = 6 => holder' = (IF holder = "client" THEN "nobody" ELSE holder) /\ UNCHANGED status
         /\ status' \in {"todo", "in_progress", "done"}
         /\ holder' \in {"nobody", "client", "rival"}
<1>. USE Numbered DEF Results
<1>1. c \in {1, 2, 3, 4, 5, 6} /\ status \in {"todo", "in_progress", "done"}
      /\ holder \in {"nobody", "client", "rival"}
  BY DEF RequestIInv, Reqs!TypeOK
<1>2. made' = [made EXCEPT ![c] = @ + 1]
  BY DEF Reqs!Effect
<1>3. /\ c \in {1, 4} => UNCHANGED <<status, holder>>
      /\ c = 2 => holder' = "client" /\ UNCHANGED status
      /\ c = 3 => status' = "in_progress" /\ UNCHANGED holder
      /\ c = 5 => status' = "done" /\ UNCHANGED holder
      /\ c = 6 => holder' = (IF holder = "client" THEN "nobody" ELSE holder) /\ UNCHANGED status
  BY <1>1 DEF Reqs!Effect, Reqs!Register, Reqs!CheckoutIssue, Reqs!UpdateIssue,
     Reqs!AddRecord, Reqs!ReleaseIssue
<1>. QED BY <1>1, <1>2, <1>3

\* Every step of the client, of the server and of other runs keeps the invariant.
LEMMA RequestStep ==
  ASSUME Reqs!RequestsAssumption
  PROVE RequestIInv /\ [Reqs!Next]_Reqs!vars => RequestIInv'
<1>. SUFFICES ASSUME RequestIInv, [Reqs!Next]_Reqs!vars PROVE RequestIInv'
  OBVIOUS
<1>. USE Numbered DEF Results
<1>t. /\ Reqs!TypeOK /\ rivals \in Nat /\ Reqs!Call = {1, 2, 3, 4, 5, 6}
      /\ made \in [Reqs!Call -> Nat] /\ unlearned \in [Reqs!Call -> Nat]
      /\ Reqs!RepeatsAreUnlearned /\ Traced /\ Walked /\ MaxRetries \in Nat
  BY DEF RequestIInv, Reqs!RequestsAssumption
<1>f. \A m \in flight : m[1] \in Reqs!Call /\ m[2] \in 0..MaxRetries
  BY <1>t DEF Reqs!TypeOK
\* Steps that return nothing and execute nothing.
<1>1. CASE Reqs!Send
  <2>1. <<at, attempt>> \in Reqs!Call \X (0..MaxRetries)
    BY <1>t, <1>1 DEF Reqs!Send, Reqs!TypeOK
  <2>. QED BY <1>t, <1>1, <2>1 DEF Reqs!Send, Reqs!server, RequestIInv, Reqs!TypeOK,
       Reqs!RepeatsAreUnlearned, Traced, Walked
<1>2. CASE Reqs!Timeout
  BY <1>t, <1>2 DEF Reqs!Timeout, Reqs!Backoff, Reqs!Fault, Reqs!server, RequestIInv,
     Reqs!TypeOK, Reqs!RepeatsAreUnlearned, Traced, Walked
<1>3. CASE Reqs!RivalTakes
  BY <1>t, <1>3 DEF Reqs!RivalTakes, Reqs!server, RequestIInv, Reqs!TypeOK,
     Reqs!RepeatsAreUnlearned, Traced, Walked
<1>4. CASE Reqs!RivalReleases
  BY <1>t, <1>4 DEF Reqs!RivalReleases, Reqs!server, RequestIInv, Reqs!TypeOK,
     Reqs!RepeatsAreUnlearned, Traced, Walked
\* A call that returns without being executed.
<1>5. ASSUME NEW r \in {"conflict", "refused", "failed", "escaped"},
             Reqs!Return(r), at \in Reqs!Call,
             r = "conflict" => at = 2 /\ holder # "nobody",
             flight' \subseteq flight, UNCHANGED <<Reqs!server, unlearned, late, rivals>>
      PROVE  RequestIInv'
  <2>1. /\ at' \in 1..7 /\ at' > at /\ attempt' = 0
        /\ request' \in {"send", "over"} /\ (request' = "over" <=> at' = 7)
        /\ result' = [result EXCEPT ![at] = r] /\ result[at] = "none"
        /\ result' \in [Reqs!Call -> Results]
        /\ Walked'
    BY <1>5, CallReturns
  <2>2. Reqs!TypeOK'
    BY <1>t, <1>5, <2>1 DEF Reqs!TypeOK, Reqs!server
  <2>3. Reqs!RepeatsAreUnlearned'
    BY <1>t, <1>5, <2>1 DEF Reqs!RepeatsAreUnlearned, Reqs!server, Reqs!TypeOK
  <2>4. at = 2 => made[2] = unlearned[2]
    BY <1>t, <2>1 DEF Reqs!RepeatsAreUnlearned
  <2>5. Traced'
    BY <1>t, <1>5, <2>1, <2>4 DEF Traced, Reqs!server, Reqs!TypeOK
  <2>. QED BY <1>t, <1>5, <2>1, <2>2, <2>3, <2>5 DEF RequestIInv, Reqs!server
<1>6. CASE Reqs!Retry
  <2>1. at \in Reqs!Call
    BY <1>t, <1>6 DEF Reqs!Retry, Reqs!TypeOK
  <2>2. CASE Reqs!Return("failed")
    BY <1>5, <1>6, <2>1, <2>2 DEF Reqs!Retry
  <2>3. CASE /\ ~Reqs!GivesUp(attempt) /\ attempt' = attempt + 1 /\ request' = "send"
             /\ UNCHANGED <<at, result>>
    BY <1>t, <1>6, <2>1, <2>3 DEF Reqs!Retry, Reqs!GivesUp, Reqs!server, RequestIInv,
       Reqs!TypeOK, Reqs!RepeatsAreUnlearned, Traced, Walked
  <2>. QED BY <1>6, <2>2, <2>3 DEF Reqs!Retry
<1>7. ASSUME NEW m \in flight, Reqs!Refused(m) PROVE RequestIInv'
  <2>1. at \in Reqs!Call /\ flight' \subseteq flight
    BY <1>t, <1>7 DEF Reqs!Refused, Reqs!Awaited, Reqs!TypeOK
  <2>2. CASE Reqs!Return("refused") \/ Reqs!Return("escaped")
    BY <1>5, <1>7, <2>1, <2>2 DEF Reqs!Refused
  <2>3. CASE Reqs!Backoff
    BY <1>t, <1>7, <2>1, <2>3 DEF Reqs!Refused, Reqs!Backoff, Reqs!server, RequestIInv,
       Reqs!TypeOK, Reqs!RepeatsAreUnlearned, Traced, Walked
  <2>. QED BY <1>7, <2>2, <2>3 DEF Reqs!Refused
<1>8. ASSUME NEW m \in flight, Reqs!Conflict(m) PROVE RequestIInv'
  <2>1. m[1] = 2 /\ holder # "nobody" /\ flight' \subseteq flight
    BY <1>t, <1>f, <1>8 DEF Reqs!Conflict, Reqs!MayExecute
  <2>2. CASE Reqs!Awaited(m)
    <3>1. at = 2
      BY <2>1, <2>2 DEF Reqs!Awaited
    <3>. QED BY <1>t, <1>5, <1>8, <2>1, <2>2, <3>1 DEF Reqs!Conflict
  <2>3. CASE ~Reqs!Awaited(m)
    BY <1>t, <1>8, <2>1, <2>3 DEF Reqs!Conflict, Reqs!server, RequestIInv, Reqs!TypeOK,
       Reqs!RepeatsAreUnlearned, Traced, Walked
  <2>. QED BY <2>2, <2>3
\* Executions.
<1>9. ASSUME NEW m \in flight, Reqs!Executed(m) PROVE RequestIInv'
  <2>1. m[1] = at /\ at \in Reqs!Call /\ flight' \subseteq flight
    BY <1>t, <1>f, <1>9 DEF Reqs!Executed, Reqs!Awaited
  <2>2. Reqs!Effect(at) /\ Reqs!Return("ok") /\ UNCHANGED <<unlearned, late, faults, rivals>>
    BY <1>9, <2>1 DEF Reqs!Executed
  <2>3. /\ at' \in 1..7 /\ at' > at /\ attempt' = 0
        /\ request' \in {"send", "over"} /\ (request' = "over" <=> at' = 7)
        /\ result' = [result EXCEPT ![at] = "ok"] /\ result[at] = "none"
        /\ result' \in [Reqs!Call -> Results]
        /\ Walked'
    BY <2>1, <2>2, CallReturns
  <2>4. /\ made' = [made EXCEPT ![at] = @ + 1]
        /\ at \in {1, 4} => UNCHANGED <<status, holder>>
        /\ at = 2 => holder' = "client" /\ UNCHANGED status
        /\ at = 3 => status' = "in_progress" /\ UNCHANGED holder
        /\ at = 5 => status' = "done" /\ UNCHANGED holder
        /\ at = 6 => holder' = (IF holder = "client" THEN "nobody" ELSE holder) /\ UNCHANGED status
        /\ status' \in {"todo", "in_progress", "done"}
        /\ holder' \in {"nobody", "client", "rival"}
    BY <2>1, <2>2, Effects
  <2>5. Reqs!TypeOK' /\ made' \in [Reqs!Call -> Nat]
    BY <1>t, <2>1, <2>3, <2>4 DEF Reqs!TypeOK
  <2>6. Reqs!RepeatsAreUnlearned'
    BY <1>t, <2>1, <2>2, <2>3, <2>4 DEF Reqs!RepeatsAreUnlearned, Reqs!TypeOK
  <2>7. \A c \in Reqs!Call : c > at => result[c] = "none" /\ result'[c] = "none"
    BY <1>t, <2>1, <2>3 DEF Walked, Reqs!TypeOK
  <2>8. Traced'
    BY <1>t, <2>1, <2>2, <2>3, <2>4, <2>7 DEF Traced, Reqs!TypeOK
  <2>. QED BY <1>t, <2>2, <2>3, <2>5, <2>6, <2>8 DEF RequestIInv
<1>10. ASSUME NEW m \in flight, Reqs!ExecutedUnlearned(m) PROVE RequestIInv'
  <2>. DEFINE c == m[1]
  <2>1. c \in Reqs!Call /\ flight' \subseteq flight /\ Reqs!Effect(c)
        /\ unlearned' = [unlearned EXCEPT ![c] = @ + 1] /\ rivals' = rivals
    BY <1>f, <1>10 DEF Reqs!ExecutedUnlearned
  <2>. HIDE DEF c
  <2>2. /\ made' = [made EXCEPT ![c] = @ + 1]
        /\ c \in {1, 4} => UNCHANGED <<status, holder>>
        /\ c = 2 => holder' = "client" /\ UNCHANGED status
        /\ c = 3 => status' = "in_progress" /\ UNCHANGED holder
        /\ c = 5 => status' = "done" /\ UNCHANGED holder
        /\ c = 6 => holder' = (IF holder = "client" THEN "nobody" ELSE holder) /\ UNCHANGED status
        /\ status' \in {"todo", "in_progress", "done"}
        /\ holder' \in {"nobody", "client", "rival"}
    BY <2>1, Effects
  <2>3. CASE Reqs!Awaited(m) /\ Reqs!Return("escaped")
    <3>1. c = at /\ at \in Reqs!Call /\ late' = late
      BY <1>10, <2>1, <2>3 DEF Reqs!ExecutedUnlearned, Reqs!Awaited, c
    <3>2. /\ at' \in 1..7 /\ at' > at /\ attempt' = 0
          /\ request' \in {"send", "over"} /\ (request' = "over" <=> at' = 7)
          /\ result' = [result EXCEPT ![at] = "escaped"] /\ result[at] = "none"
          /\ result' \in [Reqs!Call -> Results]
          /\ Walked'
      BY <2>3, <3>1, CallReturns
    <3>3. Reqs!TypeOK' /\ made' \in [Reqs!Call -> Nat] /\ unlearned' \in [Reqs!Call -> Nat]
      BY <1>t, <2>1, <2>2, <3>2 DEF Reqs!TypeOK
    <3>4. Reqs!RepeatsAreUnlearned'
      BY <1>t, <2>1, <2>2, <3>1, <3>2 DEF Reqs!RepeatsAreUnlearned, Reqs!TypeOK
    <3>5. \A d \in Reqs!Call : d >= at => result[d] = "none"
      BY <1>t, <3>1 DEF Walked
    <3>6. Traced'
      BY <1>t, <2>1, <2>2, <3>1, <3>2, <3>5 DEF Traced, Reqs!TypeOK
    <3>. QED BY <1>t, <2>1, <3>2, <3>3, <3>4, <3>6 DEF RequestIInv
  <2>4. CASE Reqs!Awaited(m) /\ Reqs!Backoff
    <3>1. c = at /\ at \in Reqs!Call /\ late' = late
      BY <1>10, <2>1, <2>4 DEF Reqs!ExecutedUnlearned, Reqs!Awaited, c
    <3>2. /\ Reqs!TypeOK' /\ Walked'
          /\ made' \in [Reqs!Call -> Nat] /\ unlearned' \in [Reqs!Call -> Nat]
      BY <1>t, <2>1, <2>2, <2>4, <3>1 DEF Reqs!TypeOK, Reqs!Backoff, Walked
    <3>3. Reqs!RepeatsAreUnlearned'
      BY <1>t, <2>1, <2>2, <2>4 DEF Reqs!RepeatsAreUnlearned, Reqs!TypeOK, Reqs!Backoff
    <3>4. \A d \in Reqs!Call : d >= at => result[d] = "none"
      BY <1>t, <3>1 DEF Walked
    <3>5. Traced'
      BY <1>t, <2>1, <2>2, <2>4, <3>1, <3>4 DEF Traced, Reqs!TypeOK, Reqs!Backoff
    <3>. QED BY <1>t, <2>1, <3>2, <3>3, <3>5 DEF RequestIInv
  <2>5. CASE ~Reqs!Awaited(m)
    <3>1. late' = TRUE /\ UNCHANGED <<at, attempt, request, result>>
      BY <1>10, <2>5 DEF Reqs!ExecutedUnlearned
    <3>2. /\ Reqs!TypeOK' /\ Walked'
          /\ made' \in [Reqs!Call -> Nat] /\ unlearned' \in [Reqs!Call -> Nat]
      BY <1>t, <2>1, <2>2, <3>1 DEF Reqs!TypeOK, Walked
    <3>3. Reqs!RepeatsAreUnlearned'
      BY <1>t, <2>1, <2>2, <3>1 DEF Reqs!RepeatsAreUnlearned, Reqs!TypeOK
    <3>4. Traced'
      BY <1>t, <2>1, <2>2, <3>1 DEF Traced, Reqs!TypeOK
    <3>. QED BY <1>t, <2>1, <3>2, <3>3, <3>4 DEF RequestIInv
  <2>. QED BY <1>10, <2>3, <2>4, <2>5 DEF Reqs!ExecutedUnlearned
<1>11. CASE UNCHANGED Reqs!vars
  BY <1>t, <1>11 DEF Reqs!vars, Reqs!server, RequestIInv, Reqs!TypeOK,
     Reqs!RepeatsAreUnlearned, Traced, Walked
<1>. QED BY <1>1, <1>2, <1>3, <1>4, <1>6, <1>7, <1>8, <1>9, <1>10, <1>11 DEF Reqs!Next

\* A record is repeated only when its execution was not learned of, a conflict is
\* another's checkout or one's own of that kind, a checkout is returned and the
\* last update stands unless a call failed or came late, for any number of retries,
\* of faults and of other runs.
THEOREM RequestSafety == ASSUME Reqs!RequestsAssumption PROVE MCSpec => []RequestInv
<1>1. RequestIInv => RequestInv
  <2>. SUFFICES ASSUME RequestIInv
                PROVE  Reqs!ConflictIsExplained /\ Reqs!CheckoutIsReturned /\ Reqs!LastWordStands
    BY DEF RequestIInv, Reqs!RequestInv, RequestInv
  <2>. USE Numbered DEF Results
  <2>1. Reqs!ConflictIsExplained /\ Reqs!LastWordStands
    BY DEF RequestIInv, Traced, Reqs!ConflictIsExplained, Reqs!LastWordStands
  <2>2. Reqs!CheckoutIsReturned
    BY DEF RequestIInv, Traced, Walked, Reqs!TypeOK, Reqs!RepeatsAreUnlearned,
       Reqs!CheckoutIsReturned
  <2>. QED BY <2>1, <2>2
<1>2. (MCInit => Reqs!Init) /\ ([MCNext]_all => [Reqs!Next]_Reqs!vars)
  BY DEF MCInit, MCNext, all, requests, Reqs!vars, Reqs!server
<1>. QED BY <1>1, <1>2, RequestsInitially, RequestStep, PTL DEF MCSpec

-----------------------------------------------------------------------------
(* The upgrade loop                                                        *)

AtCheckout == {"branch", "write", "diff", "commit", "push", "pr"}

\* Nobody holds a signal that was not recorded.
Recorded ==
    \A s \in Upgrade!Signals : detail[s] = "none" =>
        /\ stored[s] = "absent"
        /\ \A p \in Processes : memory[p][s] = "absent" /\ lines[p][s] = "absent"

\* What a process dispatches is open in its memory; what it has filed is filed there, or
\* is what it is about to mark.
Remembered ==
    \A p \in Processes :
        /\ action[p] \in {"idle", "down"} => batch[p] = {}
        /\ action[p] = "down" => filings[p] = {}
        /\ \A s \in batch[p] : memory[p][s] = "open"
        /\ \A s \in filings[p] : \/ memory[p][s] = "filed"
                                 \/ s \in batch[p] /\ action[p] \in {"mark", "rewrite"}

\* The publisher's override is on the branch checked out, and from step to step committed
\* there, pushed and announced.
Published ==
    /\ \A p \in Processes :
        /\ action[p] \in AtCheckout \cup {"gates"} => p \in Publishers
        /\ action[p] \in AtCheckout => override[p] \in Upgrade!Overrides
        /\ action[p] \in {"write", "diff", "commit"} => head = override[p]
        /\ action[p] = "push" => override[p] \in commits[override[p]]
        /\ action[p] = "pr" => override[p] \in pushed[override[p]]
    /\ Upgrade!PullRequestCarriesItsOverride

UpgradeIInv == Upgrade!TypeOK /\ Recorded /\ Remembered /\ Published

\* The file may hold an old signal; no process is up, and nothing is published.
LEMMA UpgradeInitially ==
  ASSUME Upgrade!SelfUpgradeAssumption
  PROVE Upgrade!Init => UpgradeIInv
<1>. SUFFICES ASSUME Upgrade!Init PROVE UpgradeIInv
  OBVIOUS
<1>. PICK legacy \in SUBSET {1} :
         /\ detail = [s \in Upgrade!Signals |-> IF s \in legacy THEN Upgrade!Blank ELSE "none"]
         /\ stored = [s \in Upgrade!Signals |-> IF s \in legacy THEN "open" ELSE "absent"]
  BY DEF Upgrade!Init
<1>. USE DEF Upgrade!SelfUpgradeAssumption, Upgrade!Init, Upgrade!Nothing, Upgrade!Marks,
     Upgrade!Steps, Upgrade!Branches, Upgrade!Blank
<1>1. Upgrade!TypeOK
  BY DEF Upgrade!TypeOK
<1>2. Recorded /\ Remembered /\ Published
  BY DEF Recorded, Remembered, Published, AtCheckout, Upgrade!PullRequestCarriesItsOverride
<1>. QED BY <1>1, <1>2 DEF UpgradeIInv

\* The end of a run records only new signals, and dispatches those that are open.
LEMMA EndOfRunStep ==
  ASSUME Upgrade!SelfUpgradeAssumption, UpgradeIInv, NEW p \in Processes, Upgrade!EndOfRun(p)
  PROVE  UpgradeIInv'
<1>1. PICK new \in Upgrade!Detected, persisted \in BOOLEAN :
         /\ detail' = [s \in Upgrade!Signals |-> IF s \in DOMAIN new THEN new[s] ELSE detail[s]]
         /\ memory' = [memory EXCEPT ![p] = Upgrade!Added(@, DOMAIN new)]
         /\ stored' = IF persisted THEN Upgrade!Added(stored, DOMAIN new) ELSE stored
         /\ LET open == {s \in Upgrade!Signals : memory'[p][s] = "open"}
                tier == Upgrade!Tier(open, detail')
            IN  IF open # {} /\ Upgrade!HasBuilder(p, tier)
                THEN /\ action' = [action EXCEPT ![p] = tier]
                     /\ batch' = [batch EXCEPT ![p] = open]
                ELSE UNCHANGED <<action, batch>>
  BY DEF Upgrade!EndOfRun
<1>. DEFINE open == {s \in Upgrade!Signals : memory'[p][s] = "open"}
            tier == Upgrade!Tier(open, detail')
<1>t. Upgrade!TypeOK /\ Recorded /\ Remembered /\ Published
  BY DEF UpgradeIInv
<1>2. /\ action[p] = "idle"
      /\ UNCHANGED <<wired, lines, Upgrade!publishing, filings, loaded,
                     candidate, Upgrade!git, kills>>
  BY DEF Upgrade!EndOfRun
<1>3. /\ DOMAIN new \subseteq {s \in Upgrade!Signals : detail[s] = "none"}
      /\ \A s \in DOMAIN new : new[s] \in Details
  <2>1. PICK n \in 0 .. MaxSignals : new \in [{s \in 1 .. n : detail[s] = "none"} -> Details]
    BY DEF Upgrade!Detected
  <2>2. n \in Nat /\ MaxSignals \in Nat /\ n <= MaxSignals
    BY DEF Upgrade!SelfUpgradeAssumption
  <2>. QED BY <2>1, <2>2 DEF Upgrade!Signals
<1>4. /\ detail' \in [Upgrade!Signals -> Details \cup {Upgrade!Blank, "none"}]
      /\ \A s \in Upgrade!Signals :
           detail'[s] = "none" => detail[s] = "none" /\ s \notin DOMAIN new
  <2>1. detail' = [s \in Upgrade!Signals |-> IF s \in DOMAIN new THEN new[s] ELSE detail[s]]
    BY <1>1
  <2>2. detail \in [Upgrade!Signals -> Details \cup {Upgrade!Blank, "none"}]
    BY <1>t DEF Upgrade!TypeOK
  <2>3. \A s \in DOMAIN new : new[s] # "none"
    BY <1>3 DEF Upgrade!SelfUpgradeAssumption
  <2>. QED BY <1>3, <2>1, <2>2, <2>3
<1>5. /\ memory' \in [Processes -> [Upgrade!Signals -> Upgrade!Marks]]
      /\ stored' \in [Upgrade!Signals -> Upgrade!Marks]
      /\ \A s \in Upgrade!Signals \ DOMAIN new :
           memory'[p][s] = memory[p][s] /\ stored'[s] = stored[s]
      /\ \A q \in Processes \ {p} : memory'[q] = memory[q]
  BY <1>1, <1>t DEF Upgrade!TypeOK, Upgrade!Added, Upgrade!Marks
<1>6. tier \in {"report", "lesson", "gates", "refine"}
  BY DEF Upgrade!Tier
<1>7. \/ /\ action' = [action EXCEPT ![p] = tier] /\ batch' = [batch EXCEPT ![p] = open]
         /\ tier = "gates" => p \in Publishers
      \/ UNCHANGED <<action, batch>>
  <2>. HIDE DEF open, tier
  <2>1. \/ /\ action' = [action EXCEPT ![p] = tier] /\ batch' = [batch EXCEPT ![p] = open]
           /\ Upgrade!HasBuilder(p, tier)
        \/ UNCHANGED <<action, batch>>
    BY <1>1 DEF open, tier
  <2>. QED BY <2>1 DEF Upgrade!HasBuilder
<1>8. open \subseteq Upgrade!Signals /\ \A s \in open : memory'[p][s] = "open"
  OBVIOUS
<1>. HIDE DEF open, tier
<1>9. Upgrade!TypeOK'
  <2>1. /\ action' \in [Processes -> Upgrade!Steps]
        /\ batch' \in [Processes -> SUBSET Upgrade!Signals]
    <3>1. /\ action \in [Processes -> Upgrade!Steps] /\ tier \in Upgrade!Steps
          /\ batch \in [Processes -> SUBSET Upgrade!Signals]
      BY <1>t, <1>6 DEF Upgrade!TypeOK, Upgrade!Steps
    <3>2. open \in SUBSET Upgrade!Signals
      BY <1>8
    <3>. QED BY <1>7, <3>1, <3>2
  <2>. QED BY <1>t, <1>2, <1>4, <1>5, <2>1 DEF Upgrade!TypeOK, Upgrade!publishing,
       Upgrade!git
<1>10. Recorded'
  <2>. SUFFICES ASSUME NEW s \in Upgrade!Signals, detail'[s] = "none"
                PROVE  /\ stored'[s] = "absent"
                       /\ \A q \in Processes :
                            memory'[q][s] = "absent" /\ lines'[q][s] = "absent"
    BY DEF Recorded
  <2>1. detail[s] = "none" /\ s \notin DOMAIN new
    BY <1>4
  <2>2. /\ stored[s] = "absent"
        /\ \A q \in Processes : memory[q][s] = "absent" /\ lines[q][s] = "absent"
    BY <1>t, <2>1 DEF Recorded
  <2>3. ASSUME NEW q \in Processes PROVE memory'[q][s] = memory[q][s]
    BY <1>5, <2>1
  <2>. QED BY <1>2, <1>5, <2>1, <2>2, <2>3
<1>11. Remembered'
  <2>a. action[p] = "idle"
    BY DEF Upgrade!EndOfRun
  <2>b. \A s \in filings[p] : s \in Upgrade!Signals /\ memory[p][s] = "filed"
    BY <1>t, <2>a DEF Remembered, Upgrade!TypeOK
  <2>1. \A s \in filings[p] : s \in Upgrade!Signals /\ s \notin DOMAIN new
    BY <1>t, <1>3, <2>b DEF Recorded, Upgrade!TypeOK
  <2>2. ASSUME NEW q \in Processes, q # p
        PROVE  action'[q] = action[q] /\ batch'[q] = batch[q] /\ memory'[q] = memory[q]
    BY <1>t, <1>5, <1>7, <2>2 DEF Upgrade!TypeOK
  <2>3. \/ action'[p] = tier /\ batch'[p] = open
        \/ action'[p] = "idle" /\ batch'[p] = {}
    BY <1>t, <1>2, <1>7 DEF Upgrade!TypeOK, Remembered
  <2>4. \A s \in filings[p] : memory'[p][s] = "filed"
    BY <1>5, <2>1, <2>b
  <2>. QED BY <1>t, <1>2, <1>6, <1>8, <2>2, <2>3, <2>4 DEF Remembered
<1>12. Published'
  <2>1. ASSUME NEW q \in Processes
        PROVE  \/ action'[q] = action[q]
               \/ action'[q] = tier /\ q = p
    BY <1>t, <1>7 DEF Upgrade!TypeOK
  <2>. QED BY <1>t, <1>2, <1>6, <1>7, <2>1
           DEF Published, AtCheckout, Upgrade!publishing, Upgrade!git,
              Upgrade!PullRequestCarriesItsOverride, Upgrade!TypeOK
<1>. QED BY <1>9, <1>10, <1>11, <1>12 DEF UpgradeIInv

\* Marking signals, failing to, the start and the end of a process leave the checkout alone,
\* and file nothing that was not recorded.
LEMMA SignalsStep ==
  ASSUME Upgrade!SelfUpgradeAssumption, UpgradeIInv, NEW p \in Processes,
         \/ Upgrade!Start(p) \/ Upgrade!Exit(p)
         \/ Upgrade!MarkRead(p) \/ Upgrade!MarkWrite(p) \/ Upgrade!MarkFails(p)
  PROVE  UpgradeIInv'
<1>t. Upgrade!TypeOK /\ Recorded /\ Remembered /\ Published
  BY DEF UpgradeIInv
<1>. USE DEF Upgrade!Goto, Upgrade!private, Upgrade!git, Upgrade!publishing
<1>1. CASE Upgrade!Start(p)
  <2>1. Upgrade!TypeOK'
    BY <1>t, <1>1 DEF Upgrade!Start, Upgrade!TypeOK, Upgrade!Active, Upgrade!Steps
  <2>2. Recorded' /\ Remembered'
    BY <1>t, <1>1 DEF Upgrade!Start, Upgrade!TypeOK, Recorded, Remembered
  <2>3. Published'
    BY <1>t, <1>1 DEF Upgrade!Start, Upgrade!TypeOK, Published, AtCheckout,
       Upgrade!PullRequestCarriesItsOverride
  <2>. QED BY <2>1, <2>2, <2>3 DEF UpgradeIInv
<1>2. CASE Upgrade!MarkRead(p)
  <2>1. Upgrade!TypeOK'
    BY <1>t, <1>2 DEF Upgrade!MarkRead, Upgrade!TypeOK, Upgrade!Steps
  <2>2. Recorded' /\ Remembered'
    BY <1>t, <1>2 DEF Upgrade!MarkRead, Upgrade!TypeOK, Recorded, Remembered
  <2>3. Published'
    BY <1>t, <1>2 DEF Upgrade!MarkRead, Upgrade!TypeOK, Published, AtCheckout,
       Upgrade!PullRequestCarriesItsOverride
  <2>. QED BY <2>1, <2>2, <2>3 DEF UpgradeIInv
<1>3. CASE Upgrade!MarkWrite(p)
  <2>1. /\ stored' \in [Upgrade!Signals -> Upgrade!Marks]
        /\ memory' \in [Processes -> [Upgrade!Signals -> Upgrade!Marks]]
        /\ \A s \in Upgrade!Signals : lines[p][s] = "absent" => stored'[s] = "absent"
        /\ \A q \in Processes, s \in Upgrade!Signals :
             memory[q][s] = "absent" => memory'[q][s] = "absent"
        /\ \A s \in filings[p] : memory'[p][s] = "filed"
        /\ \A q \in Processes \ {p} : memory'[q] = memory[q]
    BY <1>t, <1>3 DEF Upgrade!MarkWrite, Upgrade!Filed, Upgrade!TypeOK, Upgrade!Marks,
       Remembered
  <2>2. Upgrade!TypeOK'
    BY <1>t, <1>3, <2>1 DEF Upgrade!MarkWrite, Upgrade!TypeOK, Upgrade!Steps,
       Upgrade!Nothing, Upgrade!Marks
  <2>3. Recorded'
    BY <1>t, <1>3, <2>1 DEF Upgrade!MarkWrite, Upgrade!TypeOK, Recorded, Upgrade!Nothing
  <2>4. Remembered'
    BY <1>t, <1>3, <2>1 DEF Upgrade!MarkWrite, Upgrade!TypeOK, Remembered
  <2>5. Published'
    BY <1>t, <1>3 DEF Upgrade!MarkWrite, Upgrade!TypeOK, Published, AtCheckout,
       Upgrade!PullRequestCarriesItsOverride
  <2>. QED BY <2>2, <2>3, <2>4, <2>5 DEF UpgradeIInv
<1>4. CASE Upgrade!Exit(p)
  <2>1. Upgrade!TypeOK'
    BY <1>t, <1>4 DEF Upgrade!Exit, Upgrade!TypeOK, Upgrade!Steps, Upgrade!Nothing,
       Upgrade!Marks, Upgrade!Branches, Upgrade!SelfUpgradeAssumption
  <2>2. Recorded' /\ Remembered'
    BY <1>t, <1>4 DEF Upgrade!Exit, Upgrade!TypeOK, Recorded, Remembered, Upgrade!Nothing
  <2>3. Published'
    BY <1>t, <1>4 DEF Upgrade!Exit, Upgrade!TypeOK, Published, AtCheckout,
       Upgrade!PullRequestCarriesItsOverride
  <2>. QED BY <2>1, <2>2, <2>3 DEF UpgradeIInv
<1>5. CASE Upgrade!MarkFails(p)
  <2>1. /\ action[p] \in {"mark", "rewrite"}
        /\ stored' = stored \/ stored' = Upgrade!Nothing
        /\ Upgrade!Goto(p, "idle")
        /\ filings' = [filings EXCEPT ![p] = @ \ batch[p]]
        /\ lines' = [lines EXCEPT ![p] = Upgrade!Nothing]
        /\ UNCHANGED <<wired, detail, memory, Upgrade!publishing, loaded, candidate,
                       Upgrade!git, kills>>
    BY <1>5 DEF Upgrade!MarkFails
  <2>2. Upgrade!TypeOK'
    BY <1>t, <2>1 DEF Upgrade!TypeOK, Upgrade!Steps, Upgrade!Nothing, Upgrade!Marks
  <2>3. Recorded'
    BY <1>t, <2>1 DEF Upgrade!TypeOK, Recorded, Upgrade!Nothing
  <2>4. Remembered'
    BY <1>t, <2>1 DEF Upgrade!TypeOK, Remembered
  <2>5. Published'
    BY <1>t, <2>1 DEF Upgrade!TypeOK, Published, AtCheckout,
       Upgrade!PullRequestCarriesItsOverride
  <2>. QED BY <2>2, <2>3, <2>4, <2>5 DEF UpgradeIInv
<1>. QED BY <1>1, <1>2, <1>3, <1>4, <1>5

\* A builder that goes on to another tier, or ends, leaves the signals and all but
\* the pull request of the checkout alone.
LEMMA BuilderStep ==
  ASSUME Upgrade!SelfUpgradeAssumption, UpgradeIInv, NEW p \in Processes,
         NEW next \in {"mark", "idle", "draft", "report"},
         Upgrade!Goto(p, next), Upgrade!SignalFrame,
         \/ UNCHANGED filings
         \/ next = "mark" /\ filings' = [filings EXCEPT ![p] = @ \cup batch[p]],
         action[p] \notin {"idle", "down", "mark", "rewrite"},
         candidate' \in Processes \cup {Upgrade!NoOne},
         UNCHANGED <<drawn, head, commits, pushed, files>>,
         override' = override \/ override' = [override EXCEPT ![p] = Upgrade!Main],
         prs' = prs \/ (action[p] = "pr" /\ prs' = prs \cup {override[p]})
  PROVE  UpgradeIInv'
<1>t. Upgrade!TypeOK /\ Recorded /\ Remembered /\ Published
  BY DEF UpgradeIInv
<1>1. \A q \in Processes : action'[q] = action[q] \/ (q = p /\ action'[q] = next)
  BY <1>t DEF Upgrade!Goto, Upgrade!TypeOK
<1>2. Upgrade!TypeOK'
  <2>1. prs' \subseteq Upgrade!Overrides /\ override' \in [Processes -> Upgrade!Branches]
    BY <1>t DEF Published, AtCheckout, Upgrade!TypeOK, Upgrade!Branches
  <2>2. filings' \in [Processes -> SUBSET Upgrade!Signals]
    BY <1>t DEF Upgrade!TypeOK
  <2>. QED BY <1>t, <2>1, <2>2 DEF Upgrade!TypeOK, Upgrade!Steps, Upgrade!Goto,
       Upgrade!SignalFrame
<1>3. Recorded'
  BY <1>t DEF Recorded, Upgrade!SignalFrame
<1>4. Remembered'
  BY <1>t DEF Remembered, Upgrade!SignalFrame, Upgrade!Goto, Upgrade!TypeOK
<1>5. Published'
  <2>1. Upgrade!PullRequestCarriesItsOverride'
    BY <1>t DEF Published, Upgrade!PullRequestCarriesItsOverride
  <2>2. ASSUME NEW q \in Processes, q # p
        PROVE  action'[q] = action[q] /\ override'[q] = override[q]
    BY <1>t, <2>2 DEF Upgrade!TypeOK, Upgrade!Goto
  <2>3. action'[p] = next
    BY <1>t DEF Upgrade!TypeOK, Upgrade!Goto
  <2>. QED BY <1>t, <2>1, <2>2, <2>3 DEF Published, AtCheckout
<1>. QED BY <1>2, <1>3, <1>4, <1>5 DEF UpgradeIInv

\* The one publisher finds at every step the checkout as its last step left it.
LEMMA PublishStep ==
  ASSUME Upgrade!SelfUpgradeAssumption, \A p, q \in Publishers : p = q,
         UpgradeIInv, NEW p \in Processes,
         \/ Upgrade!Gates(p) \/ Upgrade!CreateBranch(p) \/ Upgrade!WriteFiles(p)
         \/ Upgrade!DiffCheck(p)
         \/ Upgrade!Commit(p) \/ Upgrade!Push(p)
  PROVE  UpgradeIInv'
<1>t. Upgrade!TypeOK /\ Recorded /\ Remembered /\ Published
  BY DEF UpgradeIInv
<1>. USE DEF Upgrade!git, Upgrade!publishing
<1>1. p \in Publishers /\ action[p] \in AtCheckout \cup {"gates"}
      /\ \A q \in Processes : action[q] \in AtCheckout \cup {"gates"} => q = p
  <2>1. action[p] \in AtCheckout \cup {"gates"}
    BY DEF Upgrade!Gates, Upgrade!CreateBranch, Upgrade!WriteFiles, Upgrade!DiffCheck,
       Upgrade!Commit, Upgrade!Push, Upgrade!Publish, AtCheckout
  <2>. QED BY <1>t, <2>1 DEF Published
<1>2. ASSUME Upgrade!FallThrough(p), Upgrade!BuilderFrame,
             UNCHANGED <<drawn, candidate, Upgrade!git>>,
             override' = override \/ override' = [override EXCEPT ![p] = Upgrade!Main]
      PROVE  UpgradeIInv'
  <2>1. /\ Upgrade!Goto(p, "report") /\ action[p] \notin {"idle", "down", "mark", "rewrite"}
        /\ Upgrade!SignalFrame /\ UNCHANGED filings
        /\ candidate' \in Processes \cup {Upgrade!NoOne}
    BY <1>t, <1>1, <1>2 DEF Upgrade!FallThrough, Upgrade!TypeOK, AtCheckout, Upgrade!BuilderFrame
  <2>. QED BY <1>2, <2>1, BuilderStep
\* The process goes on to the next step, with its override and the checkout as the
\* step leaves them.
<1>3. ASSUME NEW next \in AtCheckout, Upgrade!Goto(p, next), Upgrade!BuilderFrame,
             candidate' = candidate, prs' = prs,
             drawn' \in 0 .. MaxOverrides, override' \in [Processes -> Upgrade!Branches],
             \A q \in Processes \ {p} : override'[q] = override[q],
             head' \in Upgrade!Branches, files' \subseteq Upgrade!Overrides,
             commits' \in [Upgrade!Branches -> SUBSET Upgrade!Overrides],
             pushed' \in [Upgrade!Branches -> SUBSET Upgrade!Overrides],
             \A o \in Upgrade!Overrides : o \in pushed[o] => o \in pushed'[o],
             override'[p] \in Upgrade!Overrides,
             next \in {"write", "diff", "commit"} => head' = override'[p],
             next = "push" => override'[p] \in commits'[override'[p]],
             next = "pr" => override'[p] \in pushed'[override'[p]]
      PROVE  UpgradeIInv'
  <2>1. action'[p] = next /\ action' = [action EXCEPT ![p] = next] /\ batch' = batch
        /\ \A q \in Processes \ {p} : action'[q] = action[q] /\ action[q] \notin AtCheckout
    BY <1>t, <1>1, <1>3 DEF Upgrade!Goto, Upgrade!TypeOK, AtCheckout
  <2>2. Upgrade!TypeOK'
    BY <1>t, <1>3, <2>1 DEF Upgrade!TypeOK, Upgrade!BuilderFrame, Upgrade!SignalFrame,
       Upgrade!Steps, AtCheckout
  <2>3. Recorded' /\ Remembered'
    BY <1>t, <1>1, <1>3, <2>1 DEF Recorded, Remembered, Upgrade!BuilderFrame,
       Upgrade!SignalFrame, AtCheckout
  <2>4. Upgrade!PullRequestCarriesItsOverride'
    BY <1>t, <1>3 DEF Published, Upgrade!PullRequestCarriesItsOverride, Upgrade!TypeOK
  <2>5. Published'
    BY <1>t, <1>1, <1>3, <2>1, <2>4 DEF Published, AtCheckout
  <2>. QED BY <2>2, <2>3, <2>5 DEF UpgradeIInv
<1>4. CASE Upgrade!Gates(p)
  <2>1. CASE /\ drawn < MaxOverrides /\ drawn' = drawn + 1
             /\ override' = [override EXCEPT ![p] = drawn']
             /\ Upgrade!Goto(p, "branch")
    <3>1. /\ drawn' \in Upgrade!Overrides /\ drawn' \in Upgrade!Branches
          /\ drawn' \in 0 .. MaxOverrides
      BY <1>t, <2>1 DEF Upgrade!TypeOK, Upgrade!Branches, Upgrade!Overrides,
         Upgrade!SelfUpgradeAssumption
    <3>. QED BY <1>t, <1>3, <1>4, <2>1, <3>1 DEF Upgrade!Gates, Upgrade!TypeOK, AtCheckout
  <2>2. CASE Upgrade!FallThrough(p) /\ UNCHANGED Upgrade!publishing
    BY <1>2, <1>4, <2>2 DEF Upgrade!Gates
  <2>. QED BY <1>4, <2>1, <2>2 DEF Upgrade!Gates
<1>5. ASSUME \/ Upgrade!CreateBranch(p) \/ Upgrade!WriteFiles(p) \/ Upgrade!DiffCheck(p)
             \/ Upgrade!Commit(p) \/ Upgrade!Push(p)
      PROVE  UpgradeIInv'
  <2>1. CASE /\ UNCHANGED Upgrade!git /\ Upgrade!FallThrough(p)
             /\ override' = [override EXCEPT ![p] = Upgrade!Main]
    BY <1>2, <1>5, <2>1 DEF Upgrade!CreateBranch, Upgrade!WriteFiles, Upgrade!DiffCheck,
       Upgrade!Commit, Upgrade!Push, Upgrade!Publish
  <2>2. /\ action[p] \in AtCheckout => override[p] \in Upgrade!Overrides
        /\ action[p] \in {"write", "diff", "commit"} => head = override[p]
        /\ action[p] = "push" => override[p] \in commits[override[p]]
        /\ commits \in [Upgrade!Branches -> SUBSET Upgrade!Overrides]
        /\ pushed \in [Upgrade!Branches -> SUBSET Upgrade!Overrides]
        /\ head \in Upgrade!Branches /\ files \subseteq Upgrade!Overrides
        /\ Upgrade!Overrides \subseteq Upgrade!Branches
        /\ override \in [Processes -> Upgrade!Branches] /\ drawn \in 0 .. MaxOverrides
    BY <1>t DEF Published, Upgrade!TypeOK, Upgrade!Branches
  <2>3. CASE /\ action[p] = "branch" /\ Upgrade!Goto(p, "write") /\ head' = override[p]
             /\ commits' = [commits EXCEPT ![override[p]] = commits[head]]
             /\ UNCHANGED <<files, pushed, prs, override, drawn, candidate>>
             /\ Upgrade!BuilderFrame
    BY <1>3, <2>2, <2>3 DEF AtCheckout
  <2>4. CASE /\ action[p] = "write" /\ Upgrade!Goto(p, "diff")
             /\ files' = files \cup {override[p]}
             /\ UNCHANGED <<head, commits, pushed, prs, override, drawn, candidate>>
             /\ Upgrade!BuilderFrame
    BY <1>3, <2>2, <2>4 DEF AtCheckout
  <2>5. CASE /\ action[p] = "diff" /\ Upgrade!Goto(p, "commit")
             /\ UNCHANGED <<Upgrade!git, override, drawn, candidate>>
             /\ Upgrade!BuilderFrame
    BY <1>3, <2>2, <2>5 DEF AtCheckout
  <2>6. CASE /\ action[p] = "commit" /\ Upgrade!Goto(p, "push")
             /\ commits' = [commits EXCEPT ![head] = @ \cup {override[p]}]
             /\ UNCHANGED <<head, files, pushed, prs, override, drawn, candidate>>
             /\ Upgrade!BuilderFrame
    BY <1>3, <2>2, <2>6 DEF AtCheckout
  <2>7. CASE /\ action[p] = "push" /\ Upgrade!Goto(p, "pr")
             /\ pushed' = [pushed EXCEPT ![override[p]] = commits[override[p]]]
             /\ UNCHANGED <<head, commits, files, prs, override, drawn, candidate>>
             /\ Upgrade!BuilderFrame
    BY <1>3, <2>2, <2>7 DEF AtCheckout
  <2>8. CASE Upgrade!CreateBranch(p)
    BY <2>1, <2>3, <2>8 DEF Upgrade!CreateBranch, Upgrade!Publish
  <2>9. CASE Upgrade!WriteFiles(p)
    BY <2>1, <2>4, <2>9 DEF Upgrade!WriteFiles, Upgrade!Publish
  <2>10. CASE Upgrade!DiffCheck(p)
    BY <2>1, <2>5, <2>10 DEF Upgrade!DiffCheck, Upgrade!Publish
  <2>11. CASE Upgrade!Commit(p)
    BY <2>1, <2>6, <2>11 DEF Upgrade!Commit, Upgrade!Publish
  <2>12. CASE Upgrade!Push(p)
    BY <2>1, <2>7, <2>12 DEF Upgrade!Push, Upgrade!Publish
  <2>. QED BY <1>5, <2>8, <2>9, <2>10, <2>11, <2>12
<1>. QED BY <1>4, <1>5

\* The invariant of the upgrade loop is inductive when one process publishes.
LEMMA UpgradeStep ==
  ASSUME Upgrade!SelfUpgradeAssumption, \A p, q \in Publishers : p = q
  PROVE  UpgradeIInv /\ [Upgrade!Next]_Upgrade!vars => UpgradeIInv'
<1>. SUFFICES ASSUME UpgradeIInv, [Upgrade!Next]_Upgrade!vars PROVE UpgradeIInv'
  OBVIOUS
<1>1. ASSUME NEW p \in Processes,
             \/ Upgrade!Lesson(p) \/ Upgrade!Report(p) \/ Upgrade!FindSkill(p)
             \/ Upgrade!WriteCandidate(p) \/ Upgrade!OpenPR(p)
      PROVE  UpgradeIInv'
  <2>1. candidate' \in Processes \cup {Upgrade!NoOne}
    BY <1>1 DEF UpgradeIInv, Upgrade!TypeOK, Upgrade!Lesson, Upgrade!Report,
       Upgrade!FindSkill, Upgrade!WriteCandidate, Upgrade!OpenPR
  <2>2. \E next \in {"mark", "idle", "draft", "report"} :
          /\ Upgrade!Goto(p, next)
          /\ \/ UNCHANGED filings
             \/ next = "mark" /\ filings' = [filings EXCEPT ![p] = @ \cup batch[p]]
    BY <1>1 DEF Upgrade!Lesson, Upgrade!Report, Upgrade!FindSkill, Upgrade!WriteCandidate,
       Upgrade!OpenPR, Upgrade!FallThrough, Upgrade!File, Upgrade!Skip, Upgrade!BuilderFrame
  <2>3. /\ Upgrade!SignalFrame /\ action[p] \notin {"idle", "down", "mark", "rewrite"}
        /\ UNCHANGED <<drawn, head, commits, pushed, files>>
        /\ override' = override \/ override' = [override EXCEPT ![p] = Upgrade!Main]
        /\ prs' = prs \/ (action[p] = "pr" /\ prs' = prs \cup {override[p]})
    BY <1>1 DEF Upgrade!Lesson, Upgrade!Report, Upgrade!FindSkill, Upgrade!WriteCandidate,
       Upgrade!OpenPR, Upgrade!publishing, Upgrade!git, Upgrade!BuilderFrame
  <2>. QED BY <2>1, <2>2, <2>3, BuilderStep
<1>2. CASE UNCHANGED Upgrade!vars
  BY <1>2 DEF Upgrade!vars, Upgrade!private, Upgrade!publishing, Upgrade!git, UpgradeIInv,
     Upgrade!TypeOK, Recorded, Remembered, Published,
     Upgrade!PullRequestCarriesItsOverride
<1>. QED BY <1>1, <1>2, EndOfRunStep, SignalsStep, PublishStep DEF Upgrade!Next

\* A step beside the upgrade loop leaves it alone.
LEMMA UpgradeFrame == [MCNext]_all => [Upgrade!Next]_Upgrade!vars
BY DEF MCNext, all, upgrade, Upgrade!vars, Upgrade!private, Upgrade!publishing, Upgrade!git

\* No process is given a signal again that it has filed, and with one publisher
\* every pull request carries its override, for any number of processes, signals,
\* overrides and kills.
THEOREM UpgradeSafety ==
  ASSUME Upgrade!SelfUpgradeAssumption, \A p, q \in Publishers : p = q
  PROVE  MCSpec => []UpgradeInv
<1>1. UpgradeIInv => UpgradeInv
  BY DEF UpgradeInv, UpgradeIInv, Upgrade!UpgradeInv, Remembered, Upgrade!FiledIsNotRefiled, Published,
     Upgrade!TypeOK
<1>2. MCInit => Upgrade!Init
  BY DEF MCInit
<1>. QED BY <1>1, <1>2, UpgradeFrame, UpgradeInitially, UpgradeStep, PTL DEF MCSpec

\* The second version of a skill is never overwritten by another draft, however
\* many processes and publishers there are.
THEOREM CandidateStays == MCSpec => CandidateIsKept
<1>1. [Upgrade!Next]_Upgrade!vars =>
        [candidate # Upgrade!NoOne => candidate' = candidate]_Upgrade!vars
  BY DEF Upgrade!Next, Upgrade!Start, Upgrade!EndOfRun, Upgrade!Exit, Upgrade!Lesson,
     Upgrade!Report, Upgrade!MarkRead, Upgrade!MarkWrite, Upgrade!MarkFails, Upgrade!FindSkill,
     Upgrade!WriteCandidate,
     Upgrade!Gates, Upgrade!CreateBranch, Upgrade!WriteFiles, Upgrade!DiffCheck,
        Upgrade!Commit, Upgrade!Push, Upgrade!OpenPR, Upgrade!Publish
<1>. QED BY <1>1, UpgradeFrame, PTL DEF MCSpec, CandidateIsKept, Upgrade!CandidateIsKept

=============================================================================
