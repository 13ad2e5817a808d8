----------------------------- MODULE MCPlatform -----------------------------
(***************************************************************************)
(* The client's requests, the lock, the cache and the SQL backends of      *)
(* agents/storage, the resource plan, and the upgrade loop of two          *)
(* processes of which one publishes, side by side: subject says which of   *)
(* them a behaviour is about; the others stay as they are.                 *)
(***************************************************************************)
EXTENDS ResourcePlan, TLC

CONSTANTS MaxRetries, MaxFaults, MaxRivals,
          Threads, Objects, None, Ttl, MaxCalls, MaxCrashes,
          Users, MaxSqlCalls, MinConnections, MaxConnections, MaxRestarts,
          Keys, Ttls, MaxValue, MaxTime,
          d1, d2, Processes, Publishers, Details, MaxSignals, MaxOverrides, MaxKills

VARIABLES subject,
          at, attempt, request, flight, result, made, status, holder, unlearned, late, faults, rivals,
          backend, object, where, patience, key, ttl, owned, mutex, lease, asked, crashes,
          store, expiry, redis, now, lapsed,
          db, step, kind, rows, pending, outcome, unsure, conn, idle, lost, exposed, calls, restarts,
          wired, detail, stored, memory, action, batch, lines, override, drawn, filings,
          candidate, head, commits, files, pushed, prs, loaded, kills

requests == <<at, attempt, request, flight, result, made, status, holder, unlearned, late, faults, rivals>>
lock == <<backend, object, where, patience, key, ttl, owned, mutex, lease, asked, crashes>>
cache == <<store, expiry, redis, now, lapsed>>
sql == <<db, step, kind, rows, pending, outcome, unsure, conn, idle, lost, exposed, calls, restarts>>
upgrade == <<wired, detail, stored, memory, action, batch, lines, override, drawn, filings,
             candidate, head, commits, files, pushed, prs, loaded, kills>>
all == <<subject, vars, requests, lock, cache, sql, upgrade>>

\* Machines with up to three GPUs, their memory at the boundaries of the plan.
Vram(n) == [1..n -> {12000, 24000, 24576}]
MCMachines ==
  UNION {[ram : {4096, 5120, 16383, 16384, 32768, 65535, 65536}, threads : {2, 4, 16},
          gpus : {1..n}, vram : Vram(n), docker : BOOLEAN] : n \in 0..3}
MCSettings == [backend : {"opensandbox", "subprocess"}, gpu : {"unset", "on", "off"}, pool : {-1, 2}]

Reqs == INSTANCE Requests WITH pc <- request
Locks == INSTANCE DistributedLock WITH pc <- where
Cache == INSTANCE KeyCache
Sql == INSTANCE SqlStorage WITH pc <- step, result <- outcome, Threads <- Users, MaxCalls <- MaxSqlCalls
Upgrade == INSTANCE SelfUpgrade WITH step <- action, crashes <- kills, MaxCrashes <- MaxKills

ASSUME /\ Reqs!RequestsAssumption /\ Locks!DistributedLockAssumption /\ Cache!KeyCacheAssumption
       /\ Sql!SqlStorageAssumption /\ ResourcePlanAssumption
       /\ Upgrade!SelfUpgradeAssumption

OnRequests == subject = "requests"
OnLock == subject = "lock"
OnCache == subject = "cache"
OnSql == subject = "sql"
OnPlan == subject = "plan"
OnUpgrade == subject = "upgrade"

MCInit ==
  /\ subject \in {"requests", "lock", "cache", "sql", "plan", "upgrade"}
  /\ ~OnLock => backend = "redis" /\ object = [t \in Threads |-> CHOOSE o \in Objects : TRUE]
  /\ ~OnSql => db = "postgres"
  /\ ~OnPlan => /\ profile = CHOOSE m \in MCMachines : m.gpus = {}
                /\ env = CHOOSE s \in MCSettings : TRUE
  /\ ~OnUpgrade => wired = TRUE /\ stored = [s \in 1..MaxSignals |-> "absent"]
  /\ Init /\ Reqs!Init /\ Locks!Init /\ Cache!Init /\ Sql!Init /\ Upgrade!Init
MCNext ==
  \/ OnRequests /\ Reqs!Next /\ UNCHANGED <<subject, vars, lock, cache, sql, upgrade>>
  \/ OnLock /\ Locks!Next /\ UNCHANGED <<subject, vars, requests, cache, sql, upgrade>>
  \/ OnCache /\ Cache!Next /\ UNCHANGED <<subject, vars, requests, lock, sql, upgrade>>
  \/ OnSql /\ Sql!Next /\ UNCHANGED <<subject, vars, requests, lock, cache, upgrade>>
  \/ OnPlan /\ Next /\ UNCHANGED <<subject, requests, lock, cache, sql, upgrade>>
  \/ OnUpgrade /\ Upgrade!Next /\ UNCHANGED <<subject, vars, requests, lock, cache, sql>>
MCSpec == MCInit /\ [][MCNext]_all

\* See DistributedLock, KeyCache and SqlStorage: the storage the stores build on.
StorageInv ==
  /\ OnLock => Locks!LockInv
  /\ OnCache => Cache!CacheInv
  /\ OnSql => Sql!SqlInv
\* See Requests.
RequestInv == Reqs!RequestInv
\* See SelfUpgrade.
UpgradeInv == OnUpgrade => Upgrade!UpgradeInv
CandidateIsKept == Upgrade!CandidateIsKept

Symmetry == Permutations({d1, d2})
=============================================================================
