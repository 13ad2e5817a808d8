------------------------------ MODULE KeyCache ------------------------------
(***************************************************************************)
(* The key-value cache of agents/storage in its two implementations, given *)
(* the same calls: MemoryCacheBackend, a dictionary of values and one of   *)
(* deadlines that are cleaned up when they are met, and RedisCacheBackend, *)
(* which leaves the expiry to Redis.  A row is [value, until].             *)
(***************************************************************************)
EXTENDS Integers

CONSTANTS
  Keys,
  Ttls,         \* lifetimes a caller asks for, in ticks
  MaxValue,     \* bound on a counter
  MaxTime       \* bound on the time

KeyCacheAssumption ==
  /\ Ttls \subseteq Nat \ {0} /\ MaxValue \in Nat \ {0} /\ MaxTime \in Nat

VARIABLES
  store,        \* MemoryCacheBackend._store: a number, or Missing
  expiry,       \* MemoryCacheBackend._expiry: a time, or Never
  redis,        \* the rows Redis keeps, expired ones included
  now,
  lapsed        \* history: keys incremented when they had expired, and not written since
vars == <<store, expiry, redis, now, lapsed>>

Missing == -1
Never == -1
NoRow == [value |-> Missing, until |-> Never]

Init ==
  /\ store = [k \in Keys |-> Missing] /\ expiry = [k \in Keys |-> Never]
  /\ redis = [k \in Keys |-> NoRow]
  /\ now = 0 /\ lapsed = {}

-----------------------------------------------------------------------------

\* A deadline is over after it, not at it; Redis is given the same boundary.
Past(until) == until # Never /\ now > until
IsExpired(k) == Past(expiry[k])

\* What get answers; get_json parses it, exists asks whether there is one.
MemoryGet(k) == IF store[k] = Missing \/ IsExpired(k) THEN Missing ELSE store[k]
RedisGet(k) == IF Past(redis[k].until) THEN Missing ELSE redis[k].value

\* The deadline a set leaves: that of an earlier value is forgotten.
ExpiryAfterSet(k, ttl) == IF ttl > 0 THEN now + ttl ELSE Never

\* set, set_json: a time to live of 0 is none.
Set(k) ==
  \E v \in {1, MaxValue}, ttl \in {0} \cup Ttls :
    /\ store' = [store EXCEPT ![k] = v]
    /\ expiry' = [expiry EXCEPT ![k] = ExpiryAfterSet(k, ttl)]
    /\ redis' = [redis EXCEPT ![k] = [value |-> v, until |-> IF ttl > 0 THEN now + ttl ELSE Never]]
    /\ lapsed' = lapsed \ {k}
    /\ UNCHANGED now

\* _cleanup_key of these keys.
CleanUp(ks) ==
  /\ store' = [k \in Keys |-> IF k \in ks THEN Missing ELSE store[k]]
  /\ expiry' = [k \in Keys |-> IF k \in ks THEN Never ELSE expiry[k]]

\* get and exists clean up the key they meet if it has expired, keys all of them.
Get(k) ==
  /\ IsExpired(k) /\ store[k] # Missing
  /\ CleanUp({k})
  /\ UNCHANGED <<redis, now, lapsed>>

ListKeys ==
  /\ CleanUp({k \in Keys : store[k] # Missing /\ IsExpired(k)})
  /\ UNCHANGED <<redis, now, lapsed>>

Delete(k) ==
  /\ CleanUp({k})
  /\ redis' = [redis EXCEPT ![k] = NoRow]
  /\ lapsed' = lapsed \ {k}
  /\ UNCHANGED now

Flush ==
  /\ CleanUp(Keys)
  /\ redis' = [k \in Keys |-> NoRow]
  /\ lapsed' = {}
  /\ UNCHANGED now

\* incr: a missing or expired key starts at the amount.  Redis starts it
\* without a deadline; the dictionary keeps the deadline that is over.
Incr(k) ==
  /\ RedisGet(k) < MaxValue /\ MemoryGet(k) < MaxValue
  /\ store' = [store EXCEPT ![k] = IF MemoryGet(k) = Missing THEN 1 ELSE @ + 1]
  /\ redis' = [redis EXCEPT ![k] = IF RedisGet(k) = Missing
                                   THEN [value |-> 1, until |-> Never]
                                   ELSE [value |-> @.value + 1, until |-> @.until]]
  /\ lapsed' = IF store[k] # Missing /\ IsExpired(k) THEN lapsed \cup {k} ELSE lapsed
  /\ UNCHANGED <<expiry, now>>

Tick ==
  /\ now < MaxTime
  /\ now' = now + 1
  /\ UNCHANGED <<store, expiry, redis, lapsed>>

Next ==
  \/ \E k \in Keys : Set(k) \/ Get(k) \/ Delete(k) \/ Incr(k)
  \/ ListKeys \/ Flush \/ Tick

Spec == Init /\ [][Next]_vars

-----------------------------------------------------------------------------
(* Properties                                                              *)

TypeOK ==
  /\ store \in [Keys -> 1..MaxValue \cup {Missing}]
  /\ expiry \in [Keys -> Nat \cup {Never}]
  /\ \A k \in Keys : store[k] = Missing => expiry[k] = Never

\* The in-memory cache stands in for Redis behind one interface ("Three concerns,
\* three interfaces", base.py): whatever was set, incremented, left to expire
\* and cleaned up before, both answer a get of a key alike, unless the key was
\* incremented after it had expired, when the dictionary keeps the old deadline.
SameAnswers == \A k \in Keys \ lapsed : MemoryGet(k) = RedisGet(k)

\* What every state of the two caches satisfies.
CacheInv == TypeOK /\ SameAnswers

=============================================================================
