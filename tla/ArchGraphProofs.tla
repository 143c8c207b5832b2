---------------------------- MODULE ArchGraphProofs ----------------------------
(***************************************************************************)
(* Proofs about ArchGraph, for any callers, keys and APIs, any capacity    *)
(* and lifetime of the cache and any deadline of a collection.             *)
(***************************************************************************)
EXTENDS ArchGraph, FiniteSetTheorems, TLAPS

CacheEntry == [value: Graph, expiresAt: Nat]

(* The cache as a bounded map; all that the lemmas on get and set assume.  *)
CacheOK == CacheTypeOK /\ IsFiniteSet(DOMAIN cache) /\ CacheBounded

-----------------------------------------------------------------------------
(* What set's purge leaves. *)
LEMMA PurgedFacts ==
  ASSUME CacheOK
  PROVE  /\ DOMAIN Purged = {k \in DOMAIN cache : clock <= cache[k].expiresAt}
         /\ DOMAIN Purged \subseteq Key
         /\ Purged \in [DOMAIN Purged -> CacheEntry]
         /\ \A k \in DOMAIN Purged : Purged[k] = cache[k]
         /\ IsFiniteSet(DOMAIN Purged)
         /\ Cardinality(DOMAIN Purged) \in Nat
         /\ Cardinality(DOMAIN Purged) <= MaxEntries
         /\ IsFull(Purged) => DOMAIN Purged = DOMAIN cache
  <1> PICK kept : kept = {k \in DOMAIN cache : clock <= cache[k].expiresAt}
    OBVIOUS
  <1>1. kept \in SUBSET DOMAIN cache
    OBVIOUS
  <1>2. /\ cache \in [DOMAIN cache -> CacheEntry]
        /\ DOMAIN cache \subseteq Key
        /\ IsFiniteSet(DOMAIN cache)
        /\ Cardinality(DOMAIN cache) <= MaxEntries
    BY DEF CacheOK, CacheTypeOK, CacheEntry, CacheBounded
  <1>3. Purged = Restrict(cache, kept)
    BY DEF Purged
  <1>4. /\ DOMAIN Purged = kept
        /\ DOMAIN Purged \subseteq Key
        /\ Purged \in [DOMAIN Purged -> CacheEntry]
        /\ \A k \in kept : Purged[k] = cache[k]
    BY <1>1, <1>2, <1>3 DEF Restrict
  <1>5. /\ IsFiniteSet(kept)
        /\ Cardinality(kept) \in Nat
        /\ Cardinality(DOMAIN cache) \in Nat
        /\ Cardinality(kept) <= Cardinality(DOMAIN cache)
        /\ Cardinality(DOMAIN cache) = Cardinality(kept) => DOMAIN cache = kept
    BY <1>1, <1>2, FS_Subset, FS_CardinalityType
  <1>6. Cardinality(kept) <= MaxEntries
    BY <1>2, <1>5, CacheAssumption
  <1>7. IsFull(Purged) => kept = DOMAIN cache
    BY <1>2, <1>4, <1>5, CacheAssumption DEF IsFull
  <1> QED
    BY <1>4, <1>5, <1>6, <1>7

(* What set stores, keeps and throws out: at most one entry makes room,    *)
(* and only in a cache whose entries are all still good.                   *)
LEMMA SetEffect ==
  ASSUME CacheOK, NEW key \in Key, NEW v \in Graph, set(key, v), clock' = clock
  PROVE  /\ CacheOK'
         /\ \A k \in DOMAIN cache' \ {key} : k \in DOMAIN cache /\ cache'[k] = cache[k]
         /\ key \in DOMAIN cache' /\ cache'[key].value = v
         /\ \A k \in DOMAIN cache \ DOMAIN cache' :
              \/ clock >= cache[k].expiresAt
              \/ /\ Cardinality(DOMAIN cache) >= MaxEntries
                 /\ key \notin DOMAIN cache
                 /\ \A l \in DOMAIN cache : cache[k].expiresAt <= cache[l].expiresAt
  <1> PICK e : e = [value |-> v, expiresAt |-> clock + TTL]
    OBVIOUS
  <1>c. /\ clock \in Nat
        /\ cache \in [DOMAIN cache -> CacheEntry]
        /\ IsFiniteSet(DOMAIN cache)
    BY DEF CacheOK, CacheTypeOK, CacheEntry
  <1>e. e \in CacheEntry /\ e.value = v
    BY <1>c, CacheAssumption DEF CacheEntry
  <1>1. PICK m \in MadeRoom(key) : cache' = Store(m, key, e)
    BY DEF set
  <1>p. /\ DOMAIN Purged = {k \in DOMAIN cache : clock <= cache[k].expiresAt}
        /\ DOMAIN Purged \subseteq Key
        /\ Purged \in [DOMAIN Purged -> CacheEntry]
        /\ \A k \in DOMAIN Purged : Purged[k] = cache[k]
        /\ IsFiniteSet(DOMAIN Purged)
        /\ Cardinality(DOMAIN Purged) \in Nat
        /\ Cardinality(DOMAIN Purged) <= MaxEntries
        /\ IsFull(Purged) => DOMAIN Purged = DOMAIN cache
    BY PurgedFacts
  <1>2. /\ DOMAIN m \subseteq DOMAIN Purged
        /\ m \in [DOMAIN m -> CacheEntry]
        /\ \A k \in DOMAIN m : m[k] = cache[k]
        /\ Cardinality(DOMAIN m \cup {key}) <= MaxEntries
        /\ IsFiniteSet(DOMAIN m \cup {key})
        /\ \A k \in DOMAIN Purged \ DOMAIN m :
             /\ IsFull(Purged) /\ key \notin DOMAIN Purged
             /\ \A l \in DOMAIN Purged : Purged[k].expiresAt <= Purged[l].expiresAt
    <2>1. CASE key \notin DOMAIN Purged /\ IsFull(Purged)
      <3>1. PICK old \in Oldest(Purged) : m = Without(Purged, old)
        BY <2>1 DEF MadeRoom
      <3>2. /\ old \in DOMAIN Purged
            /\ \A l \in DOMAIN Purged : Purged[old].expiresAt <= Purged[l].expiresAt
        BY DEF Oldest
      <3>3. /\ DOMAIN m = DOMAIN Purged \ {old}
            /\ m \in [DOMAIN m -> CacheEntry]
            /\ \A k \in DOMAIN m : m[k] = Purged[k]
        BY <1>p, <3>1 DEF Without, Restrict
      <3> PICK q : q = DOMAIN Purged
        OBVIOUS
      <3>q. IsFiniteSet(q) /\ old \in q /\ DOMAIN m = q \ {old}
        BY <1>p, <3>2, <3>3
      <3>r. IsFiniteSet(q \ {old}) /\ Cardinality(q \ {old}) = Cardinality(q) - 1
        BY <3>q, FS_RemoveElement
      <3>4. /\ IsFiniteSet(DOMAIN m)
            /\ Cardinality(DOMAIN m) = Cardinality(DOMAIN Purged) - 1
        BY <3>q, <3>r
      <3>5. /\ IsFiniteSet(DOMAIN m \cup {key})
            /\ Cardinality(DOMAIN m \cup {key}) = Cardinality(DOMAIN m) + 1
        BY <2>1, <3>3, <3>4, FS_AddElement
      <3> QED
        BY <1>p, <2>1, <3>2, <3>3, <3>4, <3>5, CacheAssumption
    <2>2. CASE ~(key \notin DOMAIN Purged /\ IsFull(Purged))
      <3>1. m = Purged
        BY <2>2 DEF MadeRoom
      <3>2. /\ IsFiniteSet(DOMAIN Purged \cup {key})
            /\ Cardinality(DOMAIN Purged \cup {key}) =
                 IF key \in DOMAIN Purged THEN Cardinality(DOMAIN Purged)
                                          ELSE Cardinality(DOMAIN Purged) + 1
        BY <1>p, FS_AddElement
      <3>3. Cardinality(DOMAIN Purged \cup {key}) <= MaxEntries
        BY <1>p, <2>2, <3>2, CacheAssumption DEF IsFull
      <3> QED
        BY <1>p, <3>1, <3>2, <3>3
    <2> QED
      BY <2>1, <2>2
  <1>3. /\ DOMAIN cache' = DOMAIN m \cup {key}
        /\ DOMAIN cache' \subseteq Key
        /\ cache' \in [DOMAIN cache' -> CacheEntry]
        /\ cache'[key] = e
        /\ \A k \in DOMAIN m \ {key} : cache'[k] = m[k]
    <2>1. DOMAIN m \subseteq Key
      BY <1>2, <1>p
    <2> QED
      BY <1>1, <1>e, <1>2, <2>1 DEF Store
  <1>4. CacheOK'
    BY <1>2, <1>3, <1>c DEF CacheOK, CacheTypeOK, CacheEntry, CacheBounded
  <1>5. \A k \in DOMAIN cache' \ {key} : k \in DOMAIN cache /\ cache'[k] = cache[k]
    BY <1>2, <1>3, <1>p
  <1>6. ASSUME NEW k \in DOMAIN cache \ DOMAIN cache', ~(clock >= cache[k].expiresAt)
        PROVE  /\ Cardinality(DOMAIN cache) >= MaxEntries
               /\ key \notin DOMAIN cache
               /\ \A l \in DOMAIN cache : cache[k].expiresAt <= cache[l].expiresAt
    <2>1. cache[k].expiresAt \in Nat
      BY <1>c DEF CacheEntry
    <2>2. k \in DOMAIN Purged \ DOMAIN m
      BY <1>c, <1>p, <1>3, <1>6, <2>1
    <2>3. DOMAIN Purged = DOMAIN cache /\ key \notin DOMAIN Purged
      BY <1>p, <1>2, <2>2
    <2> QED
      BY <1>p, <1>2, <2>2, <2>3 DEF IsFull
  <1> QED
    BY <1>3, <1>e, <1>4, <1>5, <1>6

(* What the second phase of get removes. *)
LEMMA CleanupEffect ==
  ASSUME CacheOK, NEW key, cleanup(key), clock' = clock
  PROVE  /\ CacheOK'
         /\ ~FreshAt(key, clock)
         /\ \A k \in DOMAIN cache' : k \in DOMAIN cache /\ cache'[k] = cache[k]
         /\ \A k \in DOMAIN cache \ DOMAIN cache' : k = key
  <1>1. /\ cache \in [DOMAIN cache -> CacheEntry]
        /\ DOMAIN cache \subseteq Key
        /\ IsFiniteSet(DOMAIN cache)
        /\ Cardinality(DOMAIN cache) <= MaxEntries
    BY DEF CacheOK, CacheTypeOK, CacheEntry, CacheBounded
  <1>2. /\ DOMAIN cache' = DOMAIN cache \ {key}
        /\ DOMAIN cache' \subseteq Key
        /\ cache' \in [DOMAIN cache' -> CacheEntry]
        /\ \A k \in DOMAIN cache \ {key} : cache'[k] = cache[k]
    BY <1>1 DEF cleanup, Without, Restrict
  <1>3. IsFiniteSet(DOMAIN cache') /\ Cardinality(DOMAIN cache') <= MaxEntries
    BY <1>1, <1>2, FS_Subset, FS_CardinalityType, CacheAssumption
  <1> QED
    BY <1>2, <1>3 DEF CacheOK, CacheTypeOK, CacheEntry, CacheBounded, cleanup, cleanupHits

-----------------------------------------------------------------------------
(* The listing of an API ended because the collection had. *)
Aborted(graph) == \E api \in DOMAIN graph : graph[api] = "aborted"

(* A collection has an aborted listing, or fails, only past its deadline;  *)
(* what it is about to cache or hand out has none.                         *)
SoundFlight(f) ==
  /\ f.stage \in {"batch1", "batch2", "batch3"} /\ Aborted(f.graph) => clock >= f.deadline
  /\ f.stage \in {"start", "get", "cleanup", "resolved", "graph"} => ~Aborted(f.graph)
  /\ f.stage = "failed" => clock >= f.deadline

FlightsSound == \A k \in DOMAIN flight : SoundFlight(flight[k])

(* A collection answers only those who wait for its key. *)
WaitersWait ==
  \A k \in DOMAIN flight : \A c \in flight[k].waiters : At(c, "wait") /\ call[c].key = k

GraphInv == TypeOK /\ CacheOK /\ NoAbortedListingCached /\ FlightsSound /\ WaitersWait

-----------------------------------------------------------------------------
LEMMA GraphType ==
  /\ <<>> \in Graph /\ ~Aborted(<<>>)
  /\ \A g \in Graph : DOMAIN g \subseteq Api /\ g \in [DOMAIN g -> Outcome]
  /\ \A g \in Graph, api \in Api, o \in Outcome :
       /\ Store(g, api, o) \in Graph
       /\ o # "aborted" /\ ~Aborted(g) => ~Aborted(Store(g, api, o))
       /\ o # "aborted" /\ Aborted(Store(g, api, o)) => Aborted(g)
  <1>1. \A g \in Graph : DOMAIN g \subseteq Api /\ g \in [DOMAIN g -> Outcome]
    BY DEF Graph
  <1>2. <<>> \in Graph /\ ~Aborted(<<>>)
    <2>1. <<>> \in [{} -> Outcome] /\ {} \in SUBSET Api
      OBVIOUS
    <2>2. DOMAIN <<>> = {}
      OBVIOUS
    <2> QED
      BY <2>1, <2>2 DEF Graph, Aborted
  <1>3. ASSUME NEW g \in Graph, NEW api \in Api, NEW o \in Outcome
        PROVE  /\ Store(g, api, o) \in Graph
               /\ o # "aborted" /\ Aborted(Store(g, api, o)) => Aborted(g)
    <2>1. /\ DOMAIN Store(g, api, o) = DOMAIN g \cup {api}
          /\ Store(g, api, o)[api] = o
          /\ \A x \in DOMAIN g \ {api} : Store(g, api, o)[x] = g[x]
          /\ Store(g, api, o) \in [DOMAIN g \cup {api} -> Outcome]
      BY <1>1 DEF Store
    <2>2. DOMAIN g \cup {api} \in SUBSET Api
      BY <1>1
    <2>3. Store(g, api, o) \in Graph
      BY <2>1, <2>2 DEF Graph
    <2> QED
      BY <2>1, <2>3 DEF Aborted
  <1> QED
    BY <1>1, <1>2, <1>3

LEMMA CacheValues ==
  ASSUME GraphInv, NEW k \in DOMAIN cache
  PROVE  cache[k].value \in Graph /\ ~Aborted(cache[k].value)
  BY DEF GraphInv, TypeOK, CacheTypeOK, NoAbortedListingCached, Aborted

LEMMA InitInv == Init => GraphInv
  <1> SUFFICES ASSUME Init PROVE GraphInv
    OBVIOUS
  <1>1. /\ DOMAIN cache = {} /\ DOMAIN call = {} /\ DOMAIN flight = {}
        /\ cache \in [{} -> CacheEntry] /\ call \in [{} -> CallState]
        /\ flight \in [{} -> FlightState] /\ clock = 0
    BY DEF Init, CacheInit
  <1>2. TypeOK
    BY <1>1 DEF TypeOK, CacheTypeOK, FlightTypeOK, CacheEntry
  <1>3. CacheOK
    BY <1>1, <1>2, FS_EmptySet, CacheAssumption DEF CacheOK, TypeOK, CacheBounded
  <1> QED
    BY <1>1, <1>2, <1>3 DEF GraphInv, NoAbortedListingCached, FlightsSound, WaitersWait

(* A step of one call that leaves the collections alone and does not end   *)
(* the call's wait.                                                        *)
LEMMA CallMoves ==
  ASSUME GraphInv, NEW c \in DOMAIN call, NEW s \in CallState,
         call' = [call EXCEPT ![c] = s],
         s.key = call[c].key, call[c].pc = "wait" => s.pc = "wait",
         flight' = flight, clock' = clock, CacheOK', NoAbortedListingCached'
  PROVE  GraphInv'
  <1>1. /\ DOMAIN call' = DOMAIN call /\ call'[c] = s
        /\ \A d \in DOMAIN call \ {c} : call'[d] = call[d]
        /\ call' \in [DOMAIN call' -> CallState] /\ DOMAIN call' \subseteq Caller
    BY DEF GraphInv, TypeOK
  <1>2. TypeOK'
    BY <1>1 DEF GraphInv, TypeOK, CacheOK, FlightTypeOK
  <1>3. FlightsSound'
    BY DEF GraphInv, FlightsSound, SoundFlight
  <1>4. WaitersWait'
    BY <1>1 DEF GraphInv, WaitersWait, At
  <1> QED
    BY <1>2, <1>3, <1>4 DEF GraphInv

(* A step of one collection that keeps its waiters. *)
LEMMA FlightMoves ==
  ASSUME GraphInv, NEW k \in DOMAIN flight, NEW f \in FlightState,
         flight' = [flight EXCEPT ![k] = f],
         f.waiters = flight[k].waiters, SoundFlight(f),
         call' = call, clock' = clock, CacheOK', NoAbortedListingCached'
  PROVE  GraphInv'
  <1>1. /\ DOMAIN flight' = DOMAIN flight /\ flight'[k] = f
        /\ \A l \in DOMAIN flight \ {k} : flight'[l] = flight[l]
        /\ flight' \in [DOMAIN flight' -> FlightState] /\ DOMAIN flight' \subseteq Key
    BY DEF GraphInv, TypeOK, FlightTypeOK
  <1>2. TypeOK'
    BY <1>1 DEF GraphInv, TypeOK, CacheOK, FlightTypeOK
  <1>3. FlightsSound'
    BY <1>1 DEF GraphInv, FlightsSound, SoundFlight
  <1>4. WaitersWait'
    BY <1>1 DEF GraphInv, WaitersWait, At
  <1> QED
    BY <1>2, <1>3, <1>4 DEF GraphInv

LEMMA CallToMoves ==
  ASSUME TypeOK, NEW c \in DOMAIN call, NEW pc \in CallPC, CallTo(c, pc)
  PROVE  \E s \in CallState :
           call' = [call EXCEPT ![c] = s] /\ s.key = call[c].key /\ s.pc = pc
  <1>1. call[c] \in CallState
    BY DEF TypeOK
  <1>2. call' = [call EXCEPT ![c] = [call[c] EXCEPT !.pc = pc, !.read = 0]]
    BY DEF CallTo
  <1>3. PICK s : s = [call[c] EXCEPT !.pc = pc, !.read = 0]
    OBVIOUS
  <1>4. s \in CallState /\ s.key = call[c].key /\ s.pc = pc
    BY <1>1, <1>3 DEF CallState
  <1> QED
    BY <1>2, <1>3, <1>4

LEMMA FlightToMoves ==
  ASSUME TypeOK, NEW k \in DOMAIN flight, NEW stage \in Stage, FlightTo(k, stage)
  PROVE  \E f \in FlightState :
           /\ flight' = [flight EXCEPT ![k] = f]
           /\ f.stage = stage /\ f.waiters = flight[k].waiters
           /\ f.graph = flight[k].graph /\ f.deadline = flight[k].deadline
  <1>1. flight[k] \in FlightState
    BY DEF TypeOK, FlightTypeOK
  <1>2. flight' = [flight EXCEPT ![k] = [flight[k] EXCEPT !.stage = stage, !.read = 0]]
    BY DEF FlightTo
  <1>3. PICK f : f = [flight[k] EXCEPT !.stage = stage, !.read = 0]
    OBVIOUS
  <1>4. /\ f \in FlightState /\ f.stage = stage /\ f.waiters = flight[k].waiters
        /\ f.graph = flight[k].graph /\ f.deadline = flight[k].deadline
    BY <1>1, <1>3 DEF FlightState
  <1> QED
    BY <1>2, <1>3, <1>4

-----------------------------------------------------------------------------
LEMMA CacheStays ==
  ASSUME GraphInv, UNCHANGED cache, UNCHANGED clock
  PROVE  CacheOK' /\ NoAbortedListingCached'
  BY DEF GraphInv, CacheOK, CacheTypeOK, CacheBounded, NoAbortedListingCached

LEMMA CacheCleaned ==
  ASSUME GraphInv, NEW k, cleanup(k), UNCHANGED clock
  PROVE  CacheOK' /\ NoAbortedListingCached'
  BY CleanupEffect DEF GraphInv, NoAbortedListingCached

LEMMA BeginInv ==
  ASSUME GraphInv, NEW c \in Caller, NEW k \in Key, ExportArchitectureGraph(c, k)
  PROVE  GraphInv'
  <1> PICK s : s = [pc |-> "get", key |-> k, read |-> clock, live |-> TRUE]
    OBVIOUS
  <1>1. s \in CallState
    BY DEF GraphInv, TypeOK, CacheTypeOK, CallState, CallPC
  <1>2. c \notin DOMAIN call /\ call' = Store(call, c, s) /\ UNCHANGED <<cache, clock, flight>>
    BY DEF ExportArchitectureGraph, cacheVars
  <1>3. /\ DOMAIN call' = DOMAIN call \cup {c}
        /\ \A d \in DOMAIN call : call'[d] = call[d]
        /\ call' \in [DOMAIN call' -> CallState]
    BY <1>1, <1>2 DEF Store, GraphInv, TypeOK
  <1>4. TypeOK'
    BY <1>2, <1>3 DEF GraphInv, TypeOK, CacheTypeOK, FlightTypeOK
  <1>5. FlightsSound'
    BY <1>2 DEF GraphInv, FlightsSound, SoundFlight
  <1>6. ASSUME NEW l \in DOMAIN flight, NEW d \in flight[l].waiters
        PROVE  d \in DOMAIN call' /\ call'[d].pc = "wait" /\ call'[d].key = l
    <2>1. d \in DOMAIN call /\ call[d].pc = "wait" /\ call[d].key = l
      BY DEF GraphInv, WaitersWait, At
    <2> QED
      BY <1>3, <2>1
  <1>7. WaitersWait'
    BY <1>2, <1>6 DEF WaitersWait, At
  <1> QED
    BY <1>2, <1>4, <1>5, <1>7, CacheStays DEF GraphInv

LEMMA ContextEndsInv ==
  ASSUME GraphInv, NEW c \in Caller, ContextEnds(c)
  PROVE  GraphInv'
  <1>1. c \in DOMAIN call /\ call[c] \in CallState /\ UNCHANGED <<cache, clock, flight>>
    BY DEF ContextEnds, cacheVars, GraphInv, TypeOK
  <1> PICK s : s = [call[c] EXCEPT !.live = FALSE]
    OBVIOUS
  <1>2. call' = [call EXCEPT ![c] = s]
    BY DEF ContextEnds
  <1>3. s \in CallState /\ s.key = call[c].key /\ s.pc = call[c].pc
    BY <1>1 DEF CallState
  <1> QED
    BY <1>1, <1>2, <1>3, CacheStays, CallMoves

LEMMA GetInv ==
  ASSUME GraphInv, NEW c \in Caller, Get(c)
  PROVE  GraphInv'
  <1>1. c \in DOMAIN call /\ call[c].pc = "get" /\ UNCHANGED <<cache, clock, flight>>
    BY DEF Get, At, cacheVars
  <1>2. PICK pc \in {"graph", "cleanup", "join"} : CallTo(c, pc)
    BY DEF Get
  <1>3. PICK s \in CallState : call' = [call EXCEPT ![c] = s] /\ s.key = call[c].key
    BY <1>1, <1>2, CallToMoves DEF GraphInv, CallPC
  <1> QED
    BY <1>1, <1>3, CacheStays, CallMoves

LEMMA CleanupInv ==
  ASSUME GraphInv, NEW c \in Caller, Cleanup(c)
  PROVE  GraphInv'
  <1>1. c \in DOMAIN call /\ call[c].pc = "cleanup" /\ UNCHANGED <<clock, flight>>
    BY DEF Cleanup, At
  <1>2. PICK pc \in {"graph", "join"} : CallTo(c, pc)
    BY DEF Cleanup
  <1>3. PICK s \in CallState : call' = [call EXCEPT ![c] = s] /\ s.key = call[c].key
    BY <1>1, <1>2, CallToMoves DEF GraphInv, CallPC
  <1>4. CacheOK' /\ NoAbortedListingCached'
    BY <1>1, CacheStays, CacheCleaned DEF Cleanup
  <1> QED
    BY <1>1, <1>3, <1>4, CallMoves

LEMMA ReturnInv ==
  ASSUME GraphInv, NEW c \in Caller, Return(c)
  PROVE  GraphInv'
  <1>1. /\ c \in DOMAIN call /\ call[c].pc # "wait"
        /\ call' = Without(call, c) /\ UNCHANGED <<cache, clock, flight>>
    BY DEF Return, At, cacheVars
  <1>2. /\ DOMAIN call' = DOMAIN call \ {c}
        /\ \A d \in DOMAIN call \ {c} : call'[d] = call[d]
        /\ call' \in [DOMAIN call' -> CallState]
    BY <1>1 DEF Without, Restrict, GraphInv, TypeOK
  <1>3. TypeOK'
    BY <1>1, <1>2 DEF GraphInv, TypeOK, CacheTypeOK, FlightTypeOK
  <1>4. FlightsSound' /\ WaitersWait'
    BY <1>1, <1>2 DEF GraphInv, FlightsSound, SoundFlight, WaitersWait, At
  <1> QED
    BY <1>1, <1>3, <1>4, CacheStays DEF GraphInv

(* Joining the collection of a key: a waiter more, or a new collection.    *)
LEMMA JoinInv ==
  ASSUME GraphInv, NEW c \in Caller, Join(c)
  PROVE  GraphInv'
  <1>1. /\ c \in DOMAIN call /\ call[c].pc = "join" /\ call[c] \in CallState
        /\ UNCHANGED <<cache, clock>>
    BY DEF Join, At, cacheVars, GraphInv, TypeOK
  <1>2. CASE ~call[c].live
    <2>1. CallTo(c, "failed") /\ UNCHANGED flight
      BY <1>2 DEF Join
    <2>2. PICK s \in CallState : call' = [call EXCEPT ![c] = s] /\ s.key = call[c].key
      BY <1>1, <2>1, CallToMoves DEF GraphInv, CallPC
    <2> QED
      BY <1>1, <2>1, <2>2, CacheStays, CallMoves
  <1>3. CASE call[c].live
    <2> PICK k : k = call[c].key
      OBVIOUS
    <2>k. k \in Key
      BY <1>1 DEF CallState
    <2>1. CallTo(c, "wait")
      BY <1>3 DEF Join
    <2>2. PICK s \in CallState : call' = [call EXCEPT ![c] = s] /\ s.key = k /\ s.pc = "wait"
      BY <1>1, <2>1, CallToMoves DEF GraphInv, CallPC
    <2>3. /\ DOMAIN call' = DOMAIN call /\ call'[c] = s
          /\ \A d \in DOMAIN call \ {c} : call'[d] = call[d]
          /\ call' \in [DOMAIN call' -> CallState] /\ DOMAIN call' \subseteq Caller
      BY <1>1, <2>2 DEF GraphInv, TypeOK
    <2>4. PICK f \in FlightState :
            /\ DOMAIN flight' = DOMAIN flight \cup {k}
            /\ flight' \in [DOMAIN flight' -> FlightState]
            /\ flight'[k] = f /\ SoundFlight(f)
            /\ \A d \in f.waiters : d = c \/ (k \in DOMAIN flight /\ d \in flight[k].waiters)
            /\ \A l \in DOMAIN flight \ {k} : flight'[l] = flight[l]
      <3>1. CASE k \in DOMAIN flight
        <4>1. flight[k] \in FlightState /\ flight \in [DOMAIN flight -> FlightState]
          BY <3>1 DEF GraphInv, TypeOK, FlightTypeOK
        <4> PICK f : f = [flight[k] EXCEPT !.waiters = flight[k].waiters \cup {c}]
          OBVIOUS
        <4>2. flight' = [flight EXCEPT ![k] = f]
          BY <1>3, <3>1 DEF Join
        <4>3. /\ f \in FlightState /\ f.waiters = flight[k].waiters \cup {c}
              /\ f.stage = flight[k].stage /\ f.graph = flight[k].graph
              /\ f.deadline = flight[k].deadline
          BY <4>1 DEF FlightState
        <4>4. SoundFlight(f)
          BY <3>1, <4>3 DEF GraphInv, FlightsSound, SoundFlight
        <4> QED
          BY <3>1, <4>1, <4>2, <4>3, <4>4
      <3>2. CASE k \notin DOMAIN flight
        <4> PICK f : f = NewFlight(c)
          OBVIOUS
        <4>1. flight' = Store(flight, k, f)
          BY <1>3, <3>2 DEF Join
        <4>2. /\ f \in FlightState /\ f.waiters = {c} /\ f.stage = "start" /\ f.graph = <<>>
          BY GraphType DEF NewFlight, FlightState, Stage
        <4>3. SoundFlight(f)
          BY <4>2, GraphType DEF SoundFlight
        <4>4. /\ DOMAIN flight' = DOMAIN flight \cup {k} /\ flight'[k] = f
              /\ \A l \in DOMAIN flight \ {k} : flight'[l] = flight[l]
              /\ flight' \in [DOMAIN flight' -> FlightState]
          BY <4>1, <4>2 DEF Store, GraphInv, TypeOK, FlightTypeOK
        <4> QED
          BY <4>2, <4>3, <4>4
      <3> QED
        BY <3>1, <3>2
    <2>5. TypeOK'
      BY <1>1, <2>k, <2>3, <2>4 DEF GraphInv, TypeOK, CacheTypeOK, FlightTypeOK
    <2>6. FlightsSound'
      BY <1>1, <2>4 DEF GraphInv, FlightsSound, SoundFlight
    <2>7. WaitersWait'
      BY <1>1, <2>2, <2>3, <2>4 DEF GraphInv, WaitersWait, At
    <2> QED
      BY <1>1, <2>5, <2>6, <2>7, CacheStays DEF GraphInv
  <1> QED
    BY <1>2, <1>3

LEMMA GiveUpInv ==
  ASSUME GraphInv, NEW c \in Caller, GiveUp(c)
  PROVE  GraphInv'
  <1> PICK k : k = call[c].key
    OBVIOUS
  <1>1. /\ c \in DOMAIN call /\ call[c].pc = "wait" /\ UNCHANGED <<cache, clock>>
        /\ CallTo(c, "failed")
        /\ flight' = [flight EXCEPT ![k].waiters = @ \ {c}]
    BY DEF GiveUp, At, cacheVars
  <1>2. PICK s \in CallState : call' = [call EXCEPT ![c] = s] /\ s.key = k /\ s.pc = "failed"
    BY <1>1, CallToMoves DEF GraphInv, CallPC
  <1>3. /\ DOMAIN call' = DOMAIN call
        /\ \A d \in DOMAIN call \ {c} : call'[d] = call[d]
        /\ call' \in [DOMAIN call' -> CallState] /\ DOMAIN call' \subseteq Caller
    BY <1>1, <1>2 DEF GraphInv, TypeOK
  <1>4. /\ flight \in [DOMAIN flight -> FlightState] /\ DOMAIN flight \subseteq Key
    BY DEF GraphInv, TypeOK, FlightTypeOK
  <1>5. /\ DOMAIN flight' = DOMAIN flight
        /\ \A l \in DOMAIN flight \ {k} : flight'[l] = flight[l]
        /\ k \in DOMAIN flight => flight'[k] = [flight[k] EXCEPT !.waiters = flight[k].waiters \ {c}]
    BY <1>1
  <1>6. ASSUME NEW l \in DOMAIN flight
        PROVE  /\ flight'[l] \in FlightState
               /\ flight'[l].stage = flight[l].stage /\ flight'[l].graph = flight[l].graph
               /\ flight'[l].deadline = flight[l].deadline
               /\ flight'[l].waiters \subseteq flight[l].waiters
               /\ l = k => c \notin flight'[l].waiters
    <2>1. flight[l] \in FlightState
      BY <1>4
    <2> QED
      BY <1>5, <2>1 DEF FlightState
  <1>7. FlightTypeOK'
    <2>1. flight' \in [DOMAIN flight' -> FlightState]
      BY <1>1, <1>4, <1>5, <1>6
    <2> QED
      BY <1>4, <1>5, <2>1 DEF FlightTypeOK
  <1>8. TypeOK'
    BY <1>1, <1>3, <1>7 DEF GraphInv, TypeOK, CacheTypeOK
  <1>9. FlightsSound'
    BY <1>1, <1>5, <1>6 DEF GraphInv, FlightsSound, SoundFlight
  <1>10. WaitersWait'
    BY <1>1, <1>3, <1>5, <1>6 DEF GraphInv, WaitersWait, At
  <1> QED
    BY <1>1, <1>8, <1>9, <1>10, CacheStays DEF GraphInv

LEMMA DeliverInv ==
  ASSUME GraphInv, NEW k \in Key, Deliver(k)
  PROVE  GraphInv'
  <1>1. /\ k \in DOMAIN flight /\ flight[k].stage \in {"graph", "failed"}
        /\ call' = [c \in DOMAIN call |-> IF c \in flight[k].waiters
                                          THEN [call[c] EXCEPT !.pc = flight[k].stage] ELSE call[c]]
        /\ flight' = Without(flight, k)
        /\ UNCHANGED <<cache, clock>>
    BY DEF Deliver, cacheVars
  <1>2. /\ DOMAIN flight' = DOMAIN flight \ {k}
        /\ \A l \in DOMAIN flight \ {k} : flight'[l] = flight[l]
        /\ flight' \in [DOMAIN flight' -> FlightState] /\ DOMAIN flight' \subseteq Key
    BY <1>1 DEF Without, Restrict, GraphInv, TypeOK, FlightTypeOK
  <1>3. ASSUME NEW c \in DOMAIN call
        PROVE  call'[c] \in CallState /\ (c \notin flight[k].waiters => call'[c] = call[c])
    <2>1. call[c] \in CallState
      BY DEF GraphInv, TypeOK
    <2> QED
      BY <1>1, <2>1 DEF CallState, CallPC
  <1>4. DOMAIN call' = DOMAIN call /\ call' \in [DOMAIN call' -> CallState]
    BY <1>1, <1>3
  <1>5. TypeOK'
    BY <1>1, <1>2, <1>4 DEF GraphInv, TypeOK, CacheTypeOK, FlightTypeOK
  <1>6. FlightsSound'
    BY <1>1, <1>2 DEF GraphInv, FlightsSound, SoundFlight
  <1>7. ASSUME NEW l \in DOMAIN flight', NEW c \in flight'[l].waiters
        PROVE  At(c, "wait")' /\ call'[c].key = l
    <2>1. l # k /\ c \in flight[l].waiters /\ l \in DOMAIN flight
      BY <1>2, <1>7
    <2>2. c \in DOMAIN call /\ call[c].pc = "wait" /\ call[c].key = l
      BY <2>1 DEF GraphInv, WaitersWait, At
    <2>3. c \notin flight[k].waiters
      BY <1>1, <2>1, <2>2 DEF GraphInv, WaitersWait, At
    <2> QED
      BY <1>3, <1>4, <2>2, <2>3 DEF At
  <1>8. WaitersWait'
    BY <1>7 DEF WaitersWait
  <1> QED
    BY <1>1, <1>5, <1>6, <1>8, CacheStays DEF GraphInv

(* Only the deadline of a collection depends on the clock. *)
LEMMA TickInv ==
  ASSUME GraphInv, Tick
  PROVE  GraphInv'
  <1>1. clock' = clock + 1 /\ UNCHANGED <<cache, call, flight>>
    BY DEF Tick
  <1>2. clock \in Nat /\ \A k \in DOMAIN flight : flight[k].deadline \in Nat
    BY DEF GraphInv, TypeOK, CacheTypeOK, FlightTypeOK, FlightState
  <1>3. TypeOK' /\ CacheOK'
    BY <1>1, <1>2 DEF GraphInv, TypeOK, CacheOK, CacheTypeOK, FlightTypeOK, CacheBounded
  <1>4. FlightsSound'
    <2> SUFFICES ASSUME NEW k \in DOMAIN flight' PROVE SoundFlight(flight[k])'
      BY <1>1 DEF FlightsSound
    <2>1. SoundFlight(flight[k])
      BY <1>1 DEF GraphInv, FlightsSound
    <2> QED
      BY <1>1, <1>2, <2>1 DEF SoundFlight
  <1>5. WaitersWait' /\ NoAbortedListingCached'
    BY <1>1 DEF GraphInv, WaitersWait, At, NoAbortedListingCached
  <1> QED
    BY <1>3, <1>4, <1>5 DEF GraphInv

-----------------------------------------------------------------------------
LEMMA CollectMoves ==
  ASSUME GraphInv, NEW k \in DOMAIN flight, Collect(k), ~Aborted(flight[k].graph)
  PROVE  \E f \in FlightState :
           /\ flight' = [flight EXCEPT ![k] = f]
           /\ f.waiters = flight[k].waiters /\ f.stage = "batch1" /\ SoundFlight(f)
  <1>1. flight[k] \in FlightState /\ clock \in Nat
    BY DEF GraphInv, TypeOK, CacheTypeOK, FlightTypeOK
  <1>2. PICK f : f = [flight[k] EXCEPT !.stage = "batch1", !.read = 0, !.deadline = clock + graphTimeout]
    OBVIOUS
  <1>3. flight' = [flight EXCEPT ![k] = f]
    BY <1>2 DEF Collect
  <1>4. clock + graphTimeout \in Nat
    BY <1>1, GraphAssumption
  <1>5. /\ f \in FlightState /\ f.waiters = flight[k].waiters /\ f.stage = "batch1"
        /\ f.graph = flight[k].graph
    BY <1>1, <1>2, <1>4 DEF FlightState, Stage
  <1> QED
    BY <1>3, <1>5 DEF SoundFlight

(* The collection answers with what it found in the cache. *)
LEMMA HitMoves ==
  ASSUME GraphInv, NEW k \in DOMAIN flight, k \in DOMAIN cache,
         flight' = [flight EXCEPT ![k].stage = "graph", ![k].read = 0, ![k].graph = cache[k].value]
  PROVE  \E f \in FlightState :
           /\ flight' = [flight EXCEPT ![k] = f]
           /\ f.waiters = flight[k].waiters /\ f.stage = "graph" /\ SoundFlight(f)
  <1>1. flight[k] \in FlightState
    BY DEF GraphInv, TypeOK, FlightTypeOK
  <1>2. PICK f : f = [flight[k] EXCEPT !.stage = "graph", !.read = 0, !.graph = cache[k].value]
    OBVIOUS
  <1>3. flight' = [flight EXCEPT ![k] = f]
    BY <1>2
  <1>4. cache[k].value \in Graph /\ ~Aborted(cache[k].value)
    BY CacheValues
  <1>5. /\ f \in FlightState /\ f.waiters = flight[k].waiters /\ f.stage = "graph"
        /\ f.graph = cache[k].value
    BY <1>1, <1>2, <1>4 DEF FlightState, Stage
  <1> QED
    BY <1>3, <1>4, <1>5 DEF SoundFlight

LEMMA StartFlightInv ==
  ASSUME GraphInv, NEW k \in Key, StartFlight(k)
  PROVE  GraphInv'
  <1>1. /\ k \in DOMAIN flight /\ flight[k].stage = "start" /\ UNCHANGED <<cache, clock, call>>
        /\ flight[k] \in FlightState /\ clock \in Nat
    BY DEF StartFlight, In, cacheVars, GraphInv, TypeOK, CacheTypeOK, FlightTypeOK
  <1> PICK f : f = [flight[k] EXCEPT !.stage = "get", !.read = clock]
    OBVIOUS
  <1>2. flight' = [flight EXCEPT ![k] = f]
    BY DEF StartFlight
  <1>3. /\ f \in FlightState /\ f.waiters = flight[k].waiters /\ f.stage = "get"
        /\ f.graph = flight[k].graph
    BY <1>1 DEF FlightState, Stage
  <1>4. SoundFlight(f)
    BY <1>1, <1>3 DEF SoundFlight, GraphInv, FlightsSound
  <1> QED
    BY <1>1, <1>2, <1>3, <1>4, CacheStays, FlightMoves

LEMMA FlightGetInv ==
  ASSUME GraphInv, NEW k \in Key, FlightGet(k)
  PROVE  GraphInv'
  <1>1. /\ k \in DOMAIN flight /\ flight[k].stage = "get" /\ UNCHANGED <<cache, clock, call>>
        /\ ~Aborted(flight[k].graph)
    BY DEF FlightGet, In, cacheVars, GraphInv, FlightsSound, SoundFlight
  <1>2. PICK f \in FlightState :
          flight' = [flight EXCEPT ![k] = f] /\ f.waiters = flight[k].waiters /\ SoundFlight(f)
    <2>1. CASE /\ lookupHits(k, flight[k].read)
               /\ flight' = [flight EXCEPT ![k].stage = "graph", ![k].read = 0, ![k].graph = cache[k].value]
      BY <1>1, <2>1, HitMoves DEF lookupHits, FreshAt
    <2>2. CASE FlightTo(k, "cleanup")
      <3>1. TypeOK /\ "cleanup" \in Stage
        BY DEF GraphInv, Stage
      <3>2. PICK f \in FlightState :
              /\ flight' = [flight EXCEPT ![k] = f]
              /\ f.stage = "cleanup" /\ f.waiters = flight[k].waiters /\ f.graph = flight[k].graph
        BY <1>1, <2>2, <3>1, FlightToMoves
      <3> QED
        BY <1>1, <3>2 DEF SoundFlight
    <2>3. CASE Collect(k)
      BY <1>1, <2>3, CollectMoves
    <2> QED
      BY <2>1, <2>2, <2>3 DEF FlightGet
  <1> QED
    BY <1>1, <1>2, CacheStays, FlightMoves

LEMMA FlightCleanupInv ==
  ASSUME GraphInv, NEW k \in Key, FlightCleanup(k)
  PROVE  GraphInv'
  <1>1. /\ k \in DOMAIN flight /\ flight[k].stage = "cleanup" /\ UNCHANGED <<clock, call>>
        /\ ~Aborted(flight[k].graph)
    BY DEF FlightCleanup, In, GraphInv, FlightsSound, SoundFlight
  <1>2. PICK f \in FlightState :
          flight' = [flight EXCEPT ![k] = f] /\ f.waiters = flight[k].waiters /\ SoundFlight(f)
    <2>1. CASE /\ cleanupHits(k)
               /\ flight' = [flight EXCEPT ![k].stage = "graph", ![k].read = 0, ![k].graph = cache[k].value]
      BY <1>1, <2>1, HitMoves DEF cleanupHits, FreshAt
    <2>2. CASE Collect(k)
      BY <1>1, <2>2, CollectMoves
    <2> QED
      BY <2>1, <2>2 DEF FlightCleanup
  <1>3. CacheOK' /\ NoAbortedListingCached'
    BY <1>1, CacheStays, CacheCleaned DEF FlightCleanup
  <1> QED
    BY <1>1, <1>2, <1>3, FlightMoves

-----------------------------------------------------------------------------
LEMMA RunningFacts ==
  ASSUME NEW k, NEW api, api \in Running(k)
  PROVE  /\ k \in DOMAIN flight /\ api \in Api
         /\ flight[k].stage \in {"batch1", "batch2", "batch3"}
  BY DEF Running, Batch, Api

LEMMA ListingReturnsInv ==
  ASSUME GraphInv, NEW k \in Key, NEW api \in Api, ListingReturns(k, api)
  PROVE  GraphInv'
  <1>1. /\ k \in DOMAIN flight /\ flight[k].stage \in {"batch1", "batch2", "batch3"}
        /\ UNCHANGED <<cache, clock, call>> /\ flight[k] \in FlightState
    BY RunningFacts DEF ListingReturns, cacheVars, GraphInv, TypeOK, FlightTypeOK
  <1>2. PICK reply \in Reply, found \in BOOLEAN :
          flight' = [flight EXCEPT ![k].graph = Store(@, api, reply), ![k].clusters = @ \/ found]
    BY DEF ListingReturns
  <1> PICK g : g = Store(flight[k].graph, api, reply)
    OBVIOUS
  <1> PICK f : f = [flight[k] EXCEPT !.graph = g, !.clusters = flight[k].clusters \/ found]
    OBVIOUS
  <1>3. flight' = [flight EXCEPT ![k] = f]
    BY <1>2
  <1>4. reply \in Outcome /\ reply # "aborted"
    BY GraphAssumption DEF Outcome
  <1>5. g \in Graph /\ (Aborted(g) => Aborted(flight[k].graph))
    BY <1>1, <1>4, GraphType DEF FlightState
  <1>6. /\ f \in FlightState /\ f.waiters = flight[k].waiters /\ f.graph = g
        /\ f.stage = flight[k].stage /\ f.deadline = flight[k].deadline
    BY <1>1, <1>5 DEF FlightState
  <1>7. SoundFlight(f)
    BY <1>1, <1>5, <1>6 DEF SoundFlight, GraphInv, FlightsSound
  <1> QED
    BY <1>1, <1>3, <1>6, <1>7, CacheStays, FlightMoves

LEMMA ListingAbortedInv ==
  ASSUME GraphInv, NEW k \in Key, NEW api \in Api, ListingAborted(k, api)
  PROVE  GraphInv'
  <1>1. /\ k \in DOMAIN flight /\ flight[k].stage \in {"batch1", "batch2", "batch3"}
        /\ UNCHANGED <<cache, clock, call>> /\ flight[k] \in FlightState
        /\ clock >= flight[k].deadline
    BY RunningFacts DEF ListingAborted, Ended, cacheVars, GraphInv, TypeOK, FlightTypeOK
  <1> PICK g : g = Store(flight[k].graph, api, "aborted")
    OBVIOUS
  <1> PICK f : f = [flight[k] EXCEPT !.graph = g]
    OBVIOUS
  <1>3. flight' = [flight EXCEPT ![k] = f]
    BY DEF ListingAborted
  <1>4. g \in Graph
    BY <1>1, GraphType DEF FlightState, Outcome
  <1>5. /\ f \in FlightState /\ f.waiters = flight[k].waiters
        /\ f.stage = flight[k].stage /\ f.deadline = flight[k].deadline
    BY <1>1, <1>4 DEF FlightState
  <1>6. SoundFlight(f)
    BY <1>1, <1>5 DEF SoundFlight
  <1> QED
    BY <1>1, <1>3, <1>5, <1>6, CacheStays, FlightMoves

(* The check after each batch: past the deadline a collection fails, so    *)
(* that what comes out of batch 3 has no aborted listing.                  *)
LEMMA BatchDoneInv ==
  ASSUME GraphInv, NEW k \in Key, BatchDone(k)
  PROVE  GraphInv'
  <1>1. /\ k \in DOMAIN flight /\ flight[k].stage \in {"batch1", "batch2", "batch3"}
        /\ UNCHANGED <<cache, clock, call>> /\ FlightTo(k, AfterBatch(k))
        /\ SoundFlight(flight[k]) /\ TypeOK
        /\ clock \in Nat /\ flight[k].deadline \in Nat
    BY DEF BatchDone, cacheVars, GraphInv, FlightsSound, TypeOK, CacheTypeOK, FlightTypeOK, FlightState
  <1> PICK stage : stage = AfterBatch(k)
    OBVIOUS
  <1>2. /\ stage \in {"batch2", "batch3", "resolved", "failed"}
        /\ stage = "failed" => clock >= flight[k].deadline
        /\ stage = "resolved" => ~(clock >= flight[k].deadline)
    BY <1>1 DEF AfterBatch, Ended
  <1>3. stage \in Stage
    BY <1>2 DEF Stage
  <1>4. PICK f \in FlightState :
          /\ flight' = [flight EXCEPT ![k] = f]
          /\ f.stage = stage /\ f.waiters = flight[k].waiters
          /\ f.graph = flight[k].graph /\ f.deadline = flight[k].deadline
    BY <1>1, <1>3, FlightToMoves
  <1>5. SoundFlight(f)
    BY <1>1, <1>2, <1>4 DEF SoundFlight
  <1> QED
    BY <1>1, <1>4, <1>5, CacheStays, FlightMoves

LEMMA CacheGraphInv ==
  ASSUME GraphInv, NEW k \in Key, CacheGraph(k)
  PROVE  GraphInv'
  <1>1. /\ k \in DOMAIN flight /\ flight[k].stage = "resolved"
        /\ set(k, flight[k].graph) /\ FlightTo(k, "graph") /\ UNCHANGED <<clock, call>>
        /\ flight[k].graph \in Graph /\ ~Aborted(flight[k].graph) /\ TypeOK /\ CacheOK
    BY DEF CacheGraph, In, GraphInv, FlightsSound, SoundFlight, TypeOK, FlightTypeOK, FlightState
  <1>2. PICK f \in FlightState :
          /\ flight' = [flight EXCEPT ![k] = f]
          /\ f.stage = "graph" /\ f.waiters = flight[k].waiters /\ f.graph = flight[k].graph
    <2>1. "graph" \in Stage
      BY DEF Stage
    <2> QED
      BY <1>1, <2>1, FlightToMoves
  <1>3. SoundFlight(f)
    BY <1>1, <1>2 DEF SoundFlight
  <1> PICK graph \in Graph : graph = flight[k].graph
    BY <1>1
  <1>4. /\ CacheOK'
        /\ \A l \in DOMAIN cache' \ {k} : l \in DOMAIN cache /\ cache'[l] = cache[l]
        /\ cache'[k].value = graph
    BY <1>1, SetEffect
  <1>5. NoAbortedListingCached'
    BY <1>1, <1>4 DEF NoAbortedListingCached, GraphInv, Aborted
  <1> QED
    BY <1>1, <1>2, <1>3, <1>4, <1>5, FlightMoves

LEMMA NextInv == GraphInv /\ [Next]_vars => GraphInv'
  <1> SUFFICES ASSUME GraphInv, [Next]_vars PROVE GraphInv'
    OBVIOUS
  <1>1. ASSUME NEW c \in Caller, NEW k \in Key, ExportArchitectureGraph(c, k)
        PROVE  GraphInv'
    BY <1>1, BeginInv
  <1>2. ASSUME NEW c \in Caller, ContextEnds(c) \/ CallStep(c)
        PROVE  GraphInv'
    BY <1>2, ContextEndsInv, GetInv, CleanupInv, JoinInv, GiveUpInv, ReturnInv DEF CallStep
  <1>3. ASSUME NEW k \in Key, FlightStep(k) \/ \E api \in Api : ListingReturns(k, api)
        PROVE  GraphInv'
    BY <1>3, StartFlightInv, FlightGetInv, FlightCleanupInv, ListingAbortedInv, ListingReturnsInv,
       BatchDoneInv, CacheGraphInv, DeliverInv DEF FlightStep
  <1>4. CASE Tick
    BY <1>4, TickInv
  <1>5. CASE UNCHANGED vars
    <2>1. UNCHANGED <<cache, clock, call, flight>>
      BY <1>5 DEF vars, cacheVars
    <2>2. TypeOK' /\ FlightsSound' /\ WaitersWait'
      BY <2>1 DEF GraphInv, TypeOK, CacheTypeOK, FlightTypeOK, FlightsSound, SoundFlight, WaitersWait, At
    <2> QED
      BY <2>1, <2>2, CacheStays DEF GraphInv
  <1> QED
    BY <1>1, <1>2, <1>3, <1>4, <1>5 DEF Next

LEMMA InvAlways == Spec => []GraphInv
  BY InitInv, NextInv, PTL DEF Spec

-----------------------------------------------------------------------------
(* Types hold throughout. *)
THEOREM GraphTypes == Spec => []TypeOK
  BY InvAlways, PTL DEF GraphInv

(* A graph with a listing that the end of its collection aborted is never  *)
(* cached, whatever batch the deadline falls in.                           *)
THEOREM NoAbortedCorrect == Spec => []NoAbortedListingCached
  BY InvAlways, PTL DEF GraphInv

(* The cache never grows past its capacity. *)
THEOREM BoundedCorrect == Spec => []CacheBounded
  <1>1. GraphInv => CacheBounded
    BY DEF GraphInv, CacheOK
  <1> QED
    BY <1>1, InvAlways, PTL

(* What a step may do to the cache. *)
LEMMA CacheStep ==
  ASSUME GraphInv, [Next]_vars
  PROVE  \/ UNCHANGED <<cache, clock>>
         \/ UNCHANGED cache /\ clock' = clock + 1
         \/ UNCHANGED clock /\ \E k \in Key : cleanup(k)
         \/ UNCHANGED clock /\ \E k \in Key : In(k, "resolved") /\ set(k, flight[k].graph)
  <1>1. ASSUME NEW c \in Caller, Cleanup(c)
        PROVE  UNCHANGED clock /\ (UNCHANGED cache \/ \E k \in Key : cleanup(k))
    <2>1. call[c].key \in Key
      BY <1>1 DEF Cleanup, At, GraphInv, TypeOK, CallState
    <2> QED
      BY <1>1, <2>1 DEF Cleanup
  <1>2. ASSUME NEW k \in Key, FlightCleanup(k)
        PROVE  UNCHANGED clock /\ (UNCHANGED cache \/ cleanup(k))
    BY <1>2 DEF FlightCleanup
  <1>3. ASSUME NEW k \in Key, CacheGraph(k)
        PROVE  UNCHANGED clock /\ In(k, "resolved") /\ set(k, flight[k].graph)
    BY <1>3 DEF CacheGraph
  <1>5. Tick => UNCHANGED cache /\ clock' = clock + 1
    BY DEF Tick
  <1>6. UNCHANGED vars => UNCHANGED <<cache, clock>>
    BY DEF vars, cacheVars
  <1>7. ASSUME NEW c \in Caller, ContextEnds(c) \/ Get(c) \/ Join(c) \/ GiveUp(c) \/ Return(c)
        PROVE  UNCHANGED <<cache, clock>>
    BY <1>7 DEF ContextEnds, Get, Join, GiveUp, Return, cacheVars
  <1>8. ASSUME NEW k \in Key, \/ StartFlight(k) \/ FlightGet(k) \/ BatchDone(k) \/ Deliver(k)
                              \/ \E api \in Api : ListingAborted(k, api) \/ ListingReturns(k, api)
        PROVE  UNCHANGED <<cache, clock>>
    BY <1>8 DEF StartFlight, FlightGet, ListingAborted, ListingReturns, BatchDone, Deliver, cacheVars
  <1>9. ASSUME NEW c \in Caller, NEW k \in Key, ExportArchitectureGraph(c, k)
        PROVE  UNCHANGED <<cache, clock>>
    BY <1>9 DEF ExportArchitectureGraph, cacheVars
  <1> QED
    BY <1>1, <1>2, <1>3, <1>5, <1>6, <1>7, <1>8, <1>9 DEF Next, CallStep, FlightStep

(* A graph leaves the cache only when it has expired, or, from a full      *)
(* cache of good graphs, as the first to expire, for the one being cached. *)
THEOREM FreshCorrect == Spec => FreshStays
  <1>1. ASSUME GraphInv, [Next]_vars, NEW k \in DOMAIN cache \ DOMAIN cache'
        PROVE  \/ clock >= cache[k].expiresAt
               \/ /\ Cardinality(DOMAIN cache) >= MaxEntries
                  /\ \E l \in DOMAIN cache' \ DOMAIN cache : In(l, "resolved")
                  /\ \A l \in DOMAIN cache : cache[k].expiresAt <= cache[l].expiresAt
    <2>0. CacheOK /\ clock \in Nat /\ cache[k].expiresAt \in Nat
      BY <1>1 DEF GraphInv, CacheOK, CacheTypeOK
    <2>1. CASE UNCHANGED cache
      BY <1>1, <2>1
    <2>2. CASE UNCHANGED clock /\ \E l \in Key : cleanup(l)
      <3>1. PICK l \in Key : cleanup(l)
        BY <2>2
      <3>2. k = l /\ ~FreshAt(l, clock)
        BY <1>1, <2>0, <2>2, <3>1, CleanupEffect
      <3> QED
        BY <1>1, <2>0, <3>2 DEF FreshAt
    <2>3. CASE UNCHANGED clock /\ \E l \in Key : In(l, "resolved") /\ set(l, flight[l].graph)
      <3>1. PICK l \in Key : In(l, "resolved") /\ set(l, flight[l].graph)
        BY <2>3
      <3>2. PICK graph \in Graph : graph = flight[l].graph
        BY <1>1, <3>1 DEF In, GraphInv, TypeOK, FlightTypeOK, FlightState
      <3>3. /\ l \in DOMAIN cache'
            /\ \/ clock >= cache[k].expiresAt
               \/ /\ Cardinality(DOMAIN cache) >= MaxEntries
                  /\ l \notin DOMAIN cache
                  /\ \A x \in DOMAIN cache : cache[k].expiresAt <= cache[x].expiresAt
        BY <1>1, <2>0, <2>3, <3>1, <3>2, SetEffect
      <3> QED
        BY <3>1, <3>3
    <2> QED
      BY <1>1, <2>1, <2>2, <2>3, CacheStep
  <1>2. GraphInv /\ [Next]_vars =>
          \A k \in DOMAIN cache \ DOMAIN cache' :
               \/ clock >= cache[k].expiresAt
               \/ /\ Cardinality(DOMAIN cache) >= MaxEntries
                  /\ \E l \in DOMAIN cache' \ DOMAIN cache : In(l, "resolved")
                  /\ \A l \in DOMAIN cache : cache[k].expiresAt <= cache[l].expiresAt
    BY <1>1
  <1> QED
    BY <1>2, InvAlways, PTL DEF Spec, FreshStays

(* No collection starts while the cache has a graph for its key that has   *)
(* not expired.                                                            *)
THEOREM NoNeedlessCollection == Spec => NoCollectionWhileFresh
  <1>1. ASSUME GraphInv, [Next]_vars, NEW k \in Key, In(k, "batch1")', ~In(k, "batch1")
        PROVE  ~FreshAt(k, clock)
    <2>1. ASSUME NEW l \in Key, FlightGet(l)
          PROVE  ~FreshAt(k, clock)
      <3>1. CASE lookupMisses(l) /\ Collect(l)
        BY <1>1, <3>1 DEF lookupMisses, Collect, FreshAt, In
      <3>2. CASE ~(lookupMisses(l) /\ Collect(l))
        <4>1. PICK stage \in {"graph", "cleanup"} :
                 \/ flight' = [flight EXCEPT ![l].stage = stage, ![l].read = 0]
                 \/ flight' = [flight EXCEPT ![l].stage = stage, ![l].read = 0, ![l].graph = cache[l].value]
          BY <2>1, <3>2 DEF FlightGet, FlightTo
        <4> QED
          BY <1>1, <4>1 DEF In, GraphInv, TypeOK, FlightTypeOK, FlightState
      <3> QED
        BY <2>1, <3>1, <3>2 DEF FlightGet
    <2>2. ASSUME NEW l \in Key, FlightCleanup(l)
          PROVE  ~FreshAt(k, clock)
      <3>1. CASE cleanup(l) /\ Collect(l)
        BY <1>1, <3>1 DEF cleanup, cleanupHits, Collect, In
      <3>2. CASE flight' = [flight EXCEPT ![l].stage = "graph", ![l].read = 0, ![l].graph = cache[l].value]
        BY <1>1, <3>2 DEF In, GraphInv, TypeOK, FlightTypeOK, FlightState
      <3> QED
        BY <2>2, <3>1, <3>2 DEF FlightCleanup
    <2>3. ASSUME NEW l \in Key, BatchDone(l)
          PROVE  FALSE
      <3>1. FlightTo(l, AfterBatch(l)) /\ l \in DOMAIN flight
        BY <2>3 DEF BatchDone
      <3>2. AfterBatch(l) # "batch1"
        BY DEF AfterBatch
      <3> QED
        BY <1>1, <3>1, <3>2 DEF FlightTo, In, GraphInv, TypeOK, FlightTypeOK, FlightState
    <2>4. ASSUME NEW l \in Key, StartFlight(l) \/ CacheGraph(l)
          PROVE  FALSE
      BY <1>1, <2>4 DEF StartFlight, CacheGraph, FlightTo, In, GraphInv, TypeOK, FlightTypeOK, FlightState
    <2>5. ASSUME NEW l \in Key, NEW api \in Api, ListingReturns(l, api) \/ ListingAborted(l, api)
          PROVE  FALSE
      <3>1. PICK g, b : \/ flight' = [flight EXCEPT ![l].graph = g, ![l].clusters = b]
                        \/ flight' = [flight EXCEPT ![l].graph = g]
        BY <2>5 DEF ListingReturns, ListingAborted
      <3>2. l \in DOMAIN flight /\ flight[l] \in FlightState
        BY <2>5, <1>1, RunningFacts
           DEF ListingReturns, ListingAborted, GraphInv, TypeOK, FlightTypeOK
      <3>3. /\ DOMAIN flight' = DOMAIN flight
            /\ \A x \in DOMAIN flight : flight'[x].stage = flight[x].stage
        BY <3>1, <3>2 DEF FlightState
      <3> QED
        BY <1>1, <3>3 DEF In
    <2>6. ASSUME NEW l \in Key, Deliver(l)
          PROVE  FALSE
      BY <1>1, <2>6 DEF Deliver, Without, Restrict, In
    <2>7. ASSUME NEW c \in Caller, Join(c)
          PROVE  FALSE
      BY <1>1, <2>7 DEF Join, NewFlight, Store, In, GraphInv, TypeOK, FlightTypeOK, FlightState
    <2>8. ASSUME NEW c \in Caller, GiveUp(c)
          PROVE  FALSE
      BY <1>1, <2>8 DEF GiveUp, In, GraphInv, TypeOK, FlightTypeOK, FlightState
    <2>9. ASSUME UNCHANGED flight
          PROVE  FALSE
      BY <1>1, <2>9 DEF In
    <2>10. ASSUME NEW c \in Caller,
                  \/ \E l \in Key : ExportArchitectureGraph(c, l)
                  \/ ContextEnds(c) \/ Get(c) \/ Cleanup(c) \/ Return(c)
           PROVE  UNCHANGED flight
      BY <2>10 DEF ExportArchitectureGraph, ContextEnds, Get, Cleanup, Return
    <2>11. Tick \/ UNCHANGED vars => UNCHANGED flight
      BY DEF Tick, vars
    <2> QED
      BY <1>1, <2>1, <2>2, <2>3, <2>4, <2>5, <2>6, <2>7, <2>8, <2>9, <2>10, <2>11
         DEF Next, CallStep, FlightStep
  <1>2. GraphInv /\ [Next]_vars =>
          \A k \in Key : In(k, "batch1")' /\ ~In(k, "batch1") => ~FreshAt(k, clock)
    BY <1>1
  <1> QED
    BY <1>2, InvAlways, PTL DEF Spec, NoCollectionWhileFresh

(* Nobody who still waits is turned away for another's departure: a        *)
(* collection fails only past its own deadline.                            *)
THEOREM OwnCancellationCorrect == Spec => OnlyOwnCancellation
  <1>1. ASSUME GraphInv, [Next]_vars, NEW c \in Caller,
               At(c, "wait"), call[c].live, At(c, "failed")'
        PROVE  clock >= flight[call[c].key].deadline
    <2>1. ASSUME NEW k \in Key, Deliver(k)
          PROVE  clock >= flight[call[c].key].deadline
      <3>1. c \in flight[k].waiters /\ flight[k].stage = "failed" /\ k \in DOMAIN flight
        BY <1>1, <2>1 DEF Deliver, At, GraphInv, TypeOK, CallState
      <3>2. call[c].key = k /\ SoundFlight(flight[k])
        BY <1>1, <3>1 DEF GraphInv, WaitersWait, FlightsSound
      <3> QED
        BY <3>1, <3>2 DEF SoundFlight
    <2>2. ASSUME NEW d \in Caller, Get(d) \/ Cleanup(d) \/ Join(d) \/ GiveUp(d) \/ Return(d)
          PROVE  FALSE
      <3>1. d # c
        BY <1>1, <2>2 DEF Get, Cleanup, Join, GiveUp, Return, At
      <3>2. call'[c] = call[c]
        BY <1>1, <2>2, <3>1 DEF Get, Cleanup, Join, GiveUp, Return, CallTo, At, Without, Restrict
      <3> QED
        BY <1>1, <3>2 DEF At
    <2>3. ASSUME NEW d \in Caller, NEW k \in Key, ExportArchitectureGraph(d, k)
          PROVE  FALSE
      BY <1>1, <2>3 DEF ExportArchitectureGraph, Store, At
    <2>4. ASSUME NEW d \in Caller, ContextEnds(d)
          PROVE  FALSE
      BY <1>1, <2>4 DEF ContextEnds, At, GraphInv, TypeOK, CallState
    <2>5. ASSUME NEW k \in Key, \/ StartFlight(k) \/ FlightGet(k) \/ FlightCleanup(k) \/ BatchDone(k)
                                \/ CacheGraph(k)
                                \/ \E api \in Api : ListingAborted(k, api) \/ ListingReturns(k, api)
          PROVE  UNCHANGED call
      BY <2>5 DEF StartFlight, FlightGet, FlightCleanup, BatchDone, CacheGraph, ListingAborted, ListingReturns
    <2>6. Tick \/ UNCHANGED vars => UNCHANGED call
      BY DEF Tick, vars
    <2>7. ASSUME UNCHANGED call
          PROVE  FALSE
      BY <1>1, <2>7 DEF At
    <2> QED
      BY <1>1, <2>1, <2>2, <2>3, <2>4, <2>5, <2>6, <2>7 DEF Next, CallStep, FlightStep
  <1>2. GraphInv /\ [Next]_vars =>
          \A c \in Caller : At(c, "wait") /\ call[c].live /\ At(c, "failed")' =>
                              clock >= flight[call[c].key].deadline
    BY <1>1
  <1> QED
    BY <1>2, InvAlways, PTL DEF Spec, OnlyOwnCancellation
=============================================================================
