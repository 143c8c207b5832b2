------------------------------- MODULE TTLCache -------------------------------
(***************************************************************************)
(* The bounded cache with expiry of internal/gcp/cache.go.  get works in    *)
(* two phases: it reads the clock, looks under the read lock, and only     *)
(* when it found an expired entry takes the write lock to remove it.  set  *)
(* is one step under the write lock.  The caller's actions conjoin these   *)
(* operators with their own state.                                         *)
(***************************************************************************)
EXTENDS Integers, FiniteSets, GoMap

CONSTANTS
  Key,         \* cache keys
  TTL,         \* lifetime of an entry
  MaxEntries   \* c.max

ASSUME CacheAssumption == TTL \in Nat \ {0} /\ MaxEntries \in Nat \ {0}

VARIABLES
  cache,   \* key -> [value, expiresAt]
  clock    \* what time.Now reads

cacheVars == <<cache, clock>>

CacheInit == cache = <<>> /\ clock = 0

(* now.Before(e.expiresAt) *)
FreshAt(key, time) == key \in DOMAIN cache /\ time < cache[key].expiresAt

-----------------------------------------------------------------------------
(* get under the read lock, with the clock as read before it. *)
lookupHits(key, read)  == FreshAt(key, read)
lookupStale(key, read) == key \in DOMAIN cache /\ ~FreshAt(key, read)
lookupMisses(key)      == key \notin DOMAIN cache

(* Mutant of cleanupHits: the entry is not read again under the lock. *)
cleanupNeverHits(key) == FALSE

(* get under the write lock: the entry may have been refreshed meanwhile. *)
cleanupHits(key) == FreshAt(key, clock)

cleanup(key) == ~cleanupHits(key) /\ cache' = Without(cache, key)

-----------------------------------------------------------------------------
(* now.After(entry.expiresAt) *)
Purged == Restrict(cache, {k \in DOMAIN cache : clock <= cache[k].expiresAt})

(* The keys that expire first: which of several goes is up to Go's map order. *)
Oldest(m) == {k \in DOMAIN m : \A l \in DOMAIN m : m[k].expiresAt <= m[l].expiresAt}

IsFull(m) == Cardinality(DOMAIN m) >= MaxEntries

(* The maps that set may leave the new entry in: a new key needs room. *)
MadeRoom(key) ==
  IF key \notin DOMAIN Purged /\ IsFull(Purged)
    THEN {Without(Purged, k) : k \in Oldest(Purged)}
    ELSE {Purged}

set(key, v) ==
  \E m \in MadeRoom(key) :
    cache' = Store(m, key, [value |-> v, expiresAt |-> clock + TTL])

=============================================================================
