-------------------------- MODULE CostReasoningProofs --------------------------
(***************************************************************************)
(* What CostReasoning promises of its bills, its cache and its gaps, for   *)
(* any callers, keys, times, limits and sizes of the billing table.        *)
(***************************************************************************)
EXTENDS CostReasoning, TLAPS

(* Keeping some of the keys keeps their values. *)
LEMMA RestrictType ==
  ASSUME NEW f, NEW K, NEW V, f \in [DOMAIN f -> V], DOMAIN f \subseteq K,
         NEW S \in SUBSET DOMAIN f
  PROVE  /\ DOMAIN Restrict(f, S) = S
         /\ DOMAIN Restrict(f, S) \subseteq K
         /\ Restrict(f, S) \in [DOMAIN Restrict(f, S) -> V]
         /\ \A x \in S : Restrict(f, S)[x] = f[x]
  BY DEF Restrict

(* Deleting a key keeps the others. *)
LEMMA WithoutType ==
  ASSUME NEW f, NEW K, NEW V, f \in [DOMAIN f -> V], DOMAIN f \subseteq K, NEW k
  PROVE  /\ DOMAIN Without(f, k) = DOMAIN f \ {k}
         /\ DOMAIN Without(f, k) \subseteq K
         /\ Without(f, k) \in [DOMAIN Without(f, k) -> V]
         /\ \A x \in DOMAIN f \ {k} : Without(f, k)[x] = f[x]
  BY RestrictType DEF Without

(* A flight pays for one job at a time, and nothing before the first.      *)
Paid(fl) ==
  /\ fl.billed <= 2 * MaxBytesBilled
  /\ fl.stage \in {"recheck", "estimate1", "run1"} => fl.billed = 0
  /\ fl.stage \in {"estimate2", "run2"} => fl.billed <= MaxBytesBilled

(* Evidence that a flight is past is there, or marked partial.             *)
NotedGaps(fl) ==
  /\ fl.stage \in {"recommendations", "traffic", "finish"} =>
       fl.assets \in {"skipped", "complete"} \/ "asset_inventory" \in fl.partial
  /\ fl.stage \in {"traffic", "finish"} =>
       fl.recommendations \in {"skipped", "complete", "disabled"} \/ "recommender" \in fl.partial

FlightsSound == \A k \in DOMAIN flight : Paid(flight[k]) /\ NotedGaps(flight[k])

(* Nothing is in the cache under the key of an analysis that looked.       *)
Looked == Stage \ {"recheck", "answered", "failed"}
NothingCached == \A k \in DOMAIN flight : flight[k].stage \in Looked => k \notin DOMAIN cache

(* Who waits for an analysis waits for that one only.                      *)
WaitersWait ==
  \A k \in DOMAIN flight : \A c \in flight[k].waiters :
    c \in DOMAIN call /\ call[c].pc = "wait" /\ call[c].key = k

(* An entry outlives neither its time to live nor the quota's block.       *)
InTime(entry) ==
  /\ entry.expiresAt <= entry.answer.generatedAt + CacheTTL
  /\ entry.answer.retryAt # 0 => entry.expiresAt <= entry.answer.retryAt
EntriesInTime == \A k \in DOMAIN cache : InTime(cache[k])

CostInv ==
  TypeOK /\ FlightsSound /\ NothingCached /\ WaitersWait /\ EntriesInTime

LEMMA InitInv == ASSUME Init PROVE CostInv
BY DEF Init, CostInv, TypeOK, FlightsSound, NothingCached, WaitersWait, EntriesInTime

(* A step of one analysis that leaves the rest alone.                      *)
LEMMA OneFlight ==
  ASSUME CostInv, NEW k \in DOMAIN flight, NEW r \in FlightState,
         flight' = [flight EXCEPT ![k] = r], UNCHANGED <<clock, cache, call>>,
         Paid(r), NotedGaps(r), r.waiters = flight[k].waiters,
         r.stage \in Looked => k \notin DOMAIN cache
  PROVE  CostInv'
<1>1. DOMAIN flight' = DOMAIN flight /\ flight'[k] = r
      /\ \A l \in DOMAIN flight \ {k} : flight'[l] = flight[l]
  BY DEF CostInv, TypeOK
<1>2. TypeOK'
  BY <1>1 DEF CostInv, TypeOK
<1>3. FlightsSound'
  BY <1>1 DEF CostInv, FlightsSound, Paid, NotedGaps
<1>4. NothingCached'
  BY <1>1 DEF CostInv, NothingCached
<1>5. WaitersWait'
  BY <1>1 DEF CostInv, WaitersWait
<1>6. EntriesInTime'
  BY DEF CostInv, EntriesInTime, InTime
<1> QED
  BY <1>2, <1>3, <1>4, <1>5, <1>6 DEF CostInv

(* What the invariant says of one analysis.                                *)
LEMMA FlightFacts ==
  ASSUME CostInv, NEW k \in DOMAIN flight
  PROVE  /\ k \in Key /\ flight[k] \in FlightState /\ Paid(flight[k]) /\ NotedGaps(flight[k])
         /\ flight[k].stage \in Looked => k \notin DOMAIN cache
BY DEF CostInv, TypeOK, FlightsSound, NothingCached

LEMMA FactsFailInv ==
  ASSUME CostInv, NEW k \in Key, FactsFail(k)
  PROVE  CostInv'
<1> DEFINE r == [flight[k] EXCEPT !.stage = "failed"]
<1>1. k \in DOMAIN flight /\ flight[k] \in FlightState /\ Paid(flight[k])
  BY FlightFacts DEF FactsFail
<1>2. r \in FlightState /\ Paid(r) /\ NotedGaps(r) /\ r.waiters = flight[k].waiters /\ r.stage \notin Looked
  BY <1>1 DEF FlightState, Stage, Paid, NotedGaps, Looked
<1>3. flight' = [flight EXCEPT ![k] = r] /\ UNCHANGED <<clock, cache, call>>
  BY <1>1 DEF FactsFail, FlightTo
<1> QED
  BY <1>1, <1>2, <1>3, OneFlight

LEMMA EstimateInv ==
  ASSUME CostInv, NEW k \in Key, Estimates(k)
  PROVE  CostInv'
<1>1. PICK next \in {"run1", "run2"} :
        /\ Estimate(k, IF next = "run1" THEN "estimate1" ELSE "estimate2", next)
  BY DEF Estimates
<1> DEFINE r == [flight[k] EXCEPT !.stage = next]
<1>2. /\ k \in DOMAIN flight /\ flight[k] \in FlightState /\ Paid(flight[k])
      /\ flight[k].stage = (IF next = "run1" THEN "estimate1" ELSE "estimate2")
      /\ k \notin DOMAIN cache
  BY <1>1, FlightFacts DEF Estimate, In, Looked, Stage
<1>3. r \in FlightState /\ Paid(r) /\ NotedGaps(r) /\ r.waiters = flight[k].waiters
  BY <1>2 DEF FlightState, Stage, Paid, NotedGaps
<1>4. flight' = [flight EXCEPT ![k] = r] /\ UNCHANGED <<clock, cache, call>>
  BY <1>1, <1>2 DEF Estimate, FlightTo
<1> QED
  BY <1>2, <1>3, <1>4, OneFlight

LEMMA RunContributorsInv ==
  ASSUME CostInv, NEW k \in Key, RunContributors(k)
  PROVE  CostInv'
<1>1. PICK bytes \in TableSize, next \in {"estimate2", "failed"} :
        /\ Accepts(bytes)
        /\ flight' = [flight EXCEPT ![k].stage = next, ![k].billed = @ + bytes]
  BY DEF RunContributors
<1> DEFINE r == [flight[k] EXCEPT !.stage = next, !.billed = @ + bytes]
<1>2. /\ k \in DOMAIN flight /\ flight[k] \in FlightState /\ Paid(flight[k])
      /\ flight[k].stage = "run1" /\ k \notin DOMAIN cache
  BY FlightFacts DEF RunContributors, In, Looked, Stage
<1>3. bytes \in Nat /\ bytes <= MaxBytesBilled /\ MaxBytesBilled \in Nat
  BY <1>1, CostAssumption DEF Accepts
<1>4. flight[k].billed = 0
  BY <1>2 DEF Paid
<1>4a. flight[k].billed + bytes \in Nat /\ flight[k].billed + bytes <= MaxBytesBilled
       /\ flight[k].billed + bytes <= 2 * MaxBytesBilled
  BY <1>3, <1>4
<1>5. r \in FlightState /\ Paid(r) /\ NotedGaps(r) /\ r.waiters = flight[k].waiters
  BY <1>2, <1>4a DEF FlightState, Stage, Paid, NotedGaps
<1>6. flight' = [flight EXCEPT ![k] = r] /\ UNCHANGED <<clock, cache, call>>
  BY <1>1, <1>2 DEF RunContributors
<1> QED
  BY <1>2, <1>5, <1>6, OneFlight

LEMMA RunHistoryInv ==
  ASSUME CostInv, NEW k \in Key, RunHistory(k)
  PROVE  CostInv'
<1>1. PICK bytes \in TableSize, next \in {"assets", "failed"}, firstSeen \in {FALSE, (k \in NewlyBilled)} :
        /\ Accepts(bytes)
        /\ flight' = [flight EXCEPT
             ![k].stage = next,
             ![k].billed = @ + bytes,
             ![k].assets = IF next = "assets" /\ firstSeen THEN "pending" ELSE "skipped",
             ![k].recommendations = IF next = "assets" /\ k \in IncludeIdle THEN "pending" ELSE "skipped"]
  BY DEF RunHistory
<1> DEFINE a == IF next = "assets" /\ firstSeen THEN "pending" ELSE "skipped"
           m == IF next = "assets" /\ k \in IncludeIdle THEN "pending" ELSE "skipped"
           r == [flight[k] EXCEPT !.stage = next, !.billed = @ + bytes, !.assets = a, !.recommendations = m]
<1>2. /\ k \in DOMAIN flight /\ flight[k] \in FlightState /\ Paid(flight[k])
      /\ flight[k].stage = "run2" /\ k \notin DOMAIN cache
  BY FlightFacts DEF RunHistory, In, Looked, Stage
<1>3. bytes \in Nat /\ bytes <= MaxBytesBilled /\ MaxBytesBilled \in Nat
  BY <1>1, CostAssumption DEF Accepts
<1>4. a \in AssetResult /\ m \in RecommendationResult
  BY DEF AssetResult, RecommendationResult
<1>5. flight' = [flight EXCEPT ![k] = r] /\ UNCHANGED <<clock, cache, call>>
  BY <1>1, <1>2 DEF RunHistory
<1> HIDE DEF a, m
<1>3a. flight[k].billed \in Nat /\ flight[k].billed <= MaxBytesBilled
  BY <1>2 DEF FlightState, Paid
<1>3b. flight[k].billed + bytes \in Nat /\ flight[k].billed + bytes <= 2 * MaxBytesBilled
  BY <1>3, <1>3a
<1>6. r \in FlightState /\ Paid(r) /\ NotedGaps(r) /\ r.waiters = flight[k].waiters
  BY <1>2, <1>3b, <1>4 DEF FlightState, Stage, Paid, NotedGaps
<1> QED
  BY <1>2, <1>5, <1>6, OneFlight

LEMMA AssetsReturnInv ==
  ASSUME CostInv, NEW k \in Key, AssetsReturn(k)
  PROVE  CostInv'
<1>1. PICK result \in {"complete", "truncated", "error"} :
        flight' = [flight EXCEPT ![k].assets = result]
  BY DEF AssetsReturn
<1> DEFINE r == [flight[k] EXCEPT !.assets = result]
<1>2. /\ k \in DOMAIN flight /\ flight[k] \in FlightState /\ Paid(flight[k])
      /\ flight[k].stage = "assets" /\ k \notin DOMAIN cache
  BY FlightFacts DEF AssetsReturn, In, Looked, Stage
<1>3. r \in FlightState /\ Paid(r) /\ NotedGaps(r) /\ r.waiters = flight[k].waiters
  BY <1>2 DEF FlightState, AssetResult, Paid, NotedGaps
<1>4. flight' = [flight EXCEPT ![k] = r] /\ UNCHANGED <<clock, cache, call>>
  BY <1>1, <1>2 DEF AssetsReturn
<1> QED
  BY <1>2, <1>3, <1>4, OneFlight

LEMMA RecommendationsReturnInv ==
  ASSUME CostInv, NEW k \in Key, RecommendationsReturn(k)
  PROVE  CostInv'
<1>1. /\ k \in DOMAIN flight /\ flight[k] \in FlightState /\ Paid(flight[k]) /\ NotedGaps(flight[k])
      /\ flight[k].stage \in {"assets", "recommendations"} /\ k \notin DOMAIN cache
      /\ UNCHANGED <<clock, cache, call>>
  BY FlightFacts DEF RecommendationsReturn, In, Looked, Stage
<1>2. CASE \E result \in {"complete", "incomplete", "disabled", "error"} :
             flight' = [flight EXCEPT ![k].recommendations = result]
  <2>1. PICK result \in {"complete", "incomplete", "disabled", "error"} :
          flight' = [flight EXCEPT ![k].recommendations = result]
    BY <1>2
  <2> DEFINE r == [flight[k] EXCEPT !.recommendations = result]
  <2>2. r \in FlightState /\ Paid(r) /\ NotedGaps(r) /\ r.waiters = flight[k].waiters
    BY <1>1 DEF FlightState, RecommendationResult, Paid, NotedGaps
  <2>3. flight' = [flight EXCEPT ![k] = r]
    BY <2>1, <1>1
  <2> QED
    BY <1>1, <2>2, <2>3, OneFlight
<1>3. CASE \E wait \in Backoff :
             flight' = [flight EXCEPT ![k].recommendations = "quota", ![k].quotaRetryAt = clock + wait]
  <2>1. PICK wait \in Backoff :
          flight' = [flight EXCEPT ![k].recommendations = "quota", ![k].quotaRetryAt = clock + wait]
    BY <1>3
  <2> DEFINE r == [flight[k] EXCEPT !.recommendations = "quota", !.quotaRetryAt = clock + wait]
  <2>2. clock + wait \in Nat
    BY CostAssumption DEF CostInv, TypeOK
  <2>3. r \in FlightState /\ Paid(r) /\ NotedGaps(r) /\ r.waiters = flight[k].waiters
    BY <1>1, <2>2 DEF FlightState, RecommendationResult, Paid, NotedGaps
  <2>4. flight' = [flight EXCEPT ![k] = r]
    BY <2>1, <1>1
  <2> QED
    BY <1>1, <2>3, <2>4, OneFlight
<1> QED
  BY <1>2, <1>3 DEF RecommendationsReturn

(* An analysis that stops waiting for assets: their result, if it does not *)
(* become a gap, was complete.                                             *)
LEMMA AwaitAssetsInv ==
  ASSUME CostInv, NEW k \in Key, AwaitAssets(k)
  PROVE  CostInv'
<1>1. /\ k \in DOMAIN flight /\ flight[k] \in FlightState /\ Paid(flight[k])
      /\ flight[k].stage = "assets" /\ k \notin DOMAIN cache
      /\ UNCHANGED <<clock, cache, call>>
  BY FlightFacts DEF AwaitAssets, In, Looked, Stage
<1>2. ASSUME NEW isPartial \in BOOLEAN,
             flight' = [flight EXCEPT ![k] = Told(k, "asset_inventory", isPartial, "recommendations")],
             ~isPartial => flight[k].assets \notin {"pending", "truncated", "error"}
      PROVE  CostInv'
  <2> DEFINE r == Told(k, "asset_inventory", isPartial, "recommendations")
  <2>1. r \in FlightState /\ Paid(r) /\ r.waiters = flight[k].waiters
    BY <1>1 DEF FlightState, Stage, Check, Paid, Told
  <2>2. NotedGaps(r)
    BY <1>1, <1>2 DEF FlightState, AssetResult, Check, NotedGaps, Told
  <2> HIDE DEF r
  <2> QED
    BY <1>1, <1>2, <2>1, <2>2, OneFlight DEF r
<1>3. CASE flight' = [flight EXCEPT ![k] = Told(k, "asset_inventory", TRUE, "recommendations")]
  BY <1>2, <1>3
<1>4. CASE /\ flight[k].assets # "pending"
           /\ flight' = [flight EXCEPT ![k] =
                Told(k, "asset_inventory", flight[k].assets \in {"truncated", "error"}, "recommendations")]
  <2> DEFINE isPartial == flight[k].assets \in {"truncated", "error"}
  <2>1. isPartial \in BOOLEAN /\ (~isPartial => flight[k].assets \notin {"pending", "truncated", "error"})
    BY <1>4
  <2>2. flight' = [flight EXCEPT ![k] = Told(k, "asset_inventory", isPartial, "recommendations")]
    BY <1>4
  <2> HIDE DEF isPartial
  <2> QED
    BY <1>2, <2>1, <2>2
<1> QED
  BY <1>3, <1>4 DEF AwaitAssets

(* Likewise for the recommendations.                                       *)
LEMMA AwaitRecommendationsInv ==
  ASSUME CostInv, NEW k \in Key, AwaitRecommendations(k)
  PROVE  CostInv'
<1>1. /\ k \in DOMAIN flight /\ flight[k] \in FlightState /\ Paid(flight[k]) /\ NotedGaps(flight[k])
      /\ flight[k].stage = "recommendations" /\ k \notin DOMAIN cache
      /\ UNCHANGED <<clock, cache, call>>
  BY FlightFacts DEF AwaitRecommendations, In, Looked, Stage
<1>2. CASE flight' = [flight EXCEPT ![k] = Told(k, "recommender", TRUE, "traffic")]
  <2> DEFINE r == Told(k, "recommender", TRUE, "traffic")
  <2>1. r \in FlightState /\ Paid(r) /\ NotedGaps(r) /\ r.waiters = flight[k].waiters
    BY <1>1 DEF FlightState, Stage, Check, Paid, NotedGaps, Told
  <2> HIDE DEF r
  <2> QED
    BY <1>1, <1>2, <2>1, OneFlight DEF r
<1>3. CASE /\ flight[k].recommendations # "pending"
           /\ flight' = [flight EXCEPT ![k] = Recommended(k, flight[k].recommendations)]
  <2> DEFINE r == Recommended(k, flight[k].recommendations)
  <2>1. flight[k].quotaRetryAt \in Nat /\ flight[k].answer \in Answer
    BY <1>1 DEF FlightState
  <2>2. /\ DOMAIN r = DOMAIN flight[k] /\ r.stage = "traffic"
        /\ \A field \in DOMAIN flight[k] \ {"stage", "partial", "answer"} : r[field] = flight[k][field]
    BY <1>1 DEF FlightState, Recommended, Told
  <2>3. r.answer \in Answer
    BY <1>1, <2>1 DEF FlightState, Recommended, Told, Answer
  <2>4. /\ r.partial \in SUBSET Check /\ flight[k].partial \subseteq r.partial
        /\ flight[k].recommendations \in {"incomplete", "error", "quota"} => "recommender" \in r.partial
    BY <1>1 DEF FlightState, Recommended, Told, Check
  <2>5. r \in FlightState
    BY <1>1, <2>3, <2>4 DEF FlightState, Stage, Recommended, Told
  <2>6. /\ r.waiters = flight[k].waiters /\ r.billed = flight[k].billed
        /\ r.assets = flight[k].assets /\ r.recommendations = flight[k].recommendations
    BY <1>1 DEF FlightState, Recommended, Told
  <2> HIDE DEF r
  <2>7. Paid(r)
    BY <1>1, <2>2, <2>6 DEF Paid
  <2>8. NotedGaps(r)
    BY <1>1, <1>3, <2>2, <2>4, <2>6 DEF FlightState, RecommendationResult, NotedGaps
  <2> QED
    BY <1>1, <1>3, <2>5, <2>6, <2>7, <2>8, OneFlight DEF r
<1> QED
  BY <1>2, <1>3 DEF AwaitRecommendations

LEMMA EnrichTrafficInv ==
  ASSUME CostInv, NEW k \in Key, EnrichTraffic(k)
  PROVE  CostInv'
<1> DEFINE r == [flight[k] EXCEPT !.stage = "finish"]
<1>1. /\ k \in DOMAIN flight /\ flight[k] \in FlightState /\ Paid(flight[k]) /\ NotedGaps(flight[k])
      /\ flight[k].stage = "traffic" /\ k \notin DOMAIN cache
  BY FlightFacts DEF EnrichTraffic, In, Looked, Stage
<1>2. r \in FlightState /\ Paid(r) /\ NotedGaps(r) /\ r.waiters = flight[k].waiters
  BY <1>1 DEF FlightState, Stage, Paid, NotedGaps
<1>3. flight' = [flight EXCEPT ![k] = r] /\ UNCHANGED <<clock, cache, call>>
  BY <1>1 DEF EnrichTraffic, FlightTo
<1> QED
  BY <1>1, <1>2, <1>3, OneFlight

-----------------------------------------------------------------------------
(* Looking into the cache removes at most the entry that was looked for,   *)
(* and a miss leaves nothing there.                                        *)
LEMMA MissEffect ==
  ASSUME CostInv, NEW k \in Key, NEW t, getCachedMisses(k, t)
  PROVE  /\ DOMAIN cache' = DOMAIN cache \ {k}
         /\ \A l \in DOMAIN cache' : cache'[l] = cache[l]
         /\ cache' \in [DOMAIN cache' -> CacheEntry]
<1>1. cache \in [DOMAIN cache -> CacheEntry] /\ DOMAIN cache \subseteq Key
  BY DEF CostInv, TypeOK
<1>2. cache' = Without(cache, k)
  BY DEF getCachedMisses
<1>3. /\ DOMAIN cache' = DOMAIN cache \ {k} /\ DOMAIN cache' \subseteq Key
      /\ cache' \in [DOMAIN cache' -> CacheEntry]
      /\ \A l \in DOMAIN cache \ {k} : cache'[l] = cache[l]
  BY <1>1, <1>2, WithoutType
<1> QED
  BY <1>3

LEMMA RecheckInv ==
  ASSUME CostInv, NEW k \in Key, Recheck(k)
  PROVE  CostInv'
<1>1. /\ k \in DOMAIN flight /\ flight[k] \in FlightState /\ Paid(flight[k])
      /\ flight[k].stage = "recheck" /\ UNCHANGED <<clock, call>>
  BY FlightFacts DEF Recheck, In
<1>2. CASE getCachedHits(k, flight[k].now) /\ UNCHANGED cache
           /\ flight' = [flight EXCEPT ![k].stage = "answered", ![k].answer = cache[k].answer]
  <2> DEFINE r == [flight[k] EXCEPT !.stage = "answered", !.answer = cache[k].answer]
  <2>1. cache[k].answer \in Answer
    BY <1>2 DEF getCachedHits, CostInv, TypeOK, CacheEntry
  <2>2. r \in FlightState /\ Paid(r) /\ NotedGaps(r) /\ r.waiters = flight[k].waiters
    BY <1>1, <2>1 DEF FlightState, Stage, Paid, NotedGaps
  <2>3. r.stage \notin Looked
    BY <1>1 DEF Looked, FlightState
  <2>4. flight' = [flight EXCEPT ![k] = r]
    BY <1>1, <1>2
  <2> QED
    BY <1>1, <1>2, <2>2, <2>3, <2>4, OneFlight
<1>3. CASE getCachedMisses(k, flight[k].now) /\ Begin(k)
  <2> DEFINE r == [flight[k] EXCEPT !.stage = "estimate1", !.deadline = clock + Timeout]
  <2>1. clock + Timeout \in Nat
    BY CostAssumption DEF CostInv, TypeOK
  <2>2. r \in FlightState /\ Paid(r) /\ NotedGaps(r) /\ r.waiters = flight[k].waiters
    BY <1>1, <2>1 DEF FlightState, Stage, Paid, NotedGaps
  <2>3. flight' = [flight EXCEPT ![k] = r]
    BY <1>1, <1>3 DEF Begin
  <2>4. /\ DOMAIN cache' = DOMAIN cache \ {k} /\ \A l \in DOMAIN cache' : cache'[l] = cache[l]
        /\ cache' \in [DOMAIN cache' -> CacheEntry]
    BY <1>3, MissEffect
  <2> HIDE DEF r
  <2>5. DOMAIN flight' = DOMAIN flight /\ flight'[k] = r
        /\ \A l \in DOMAIN flight \ {k} : flight'[l] = flight[l]
    BY <2>3, <1>1 DEF CostInv, TypeOK
  <2>6. TypeOK'
    BY <1>1, <2>2, <2>3, <2>4, <2>5 DEF CostInv, TypeOK
  <2>7. FlightsSound'
    BY <2>2, <2>5 DEF CostInv, FlightsSound, Paid, NotedGaps
  <2>8. NothingCached'
    BY <2>4, <2>5 DEF CostInv, NothingCached
  <2>9. WaitersWait'
    BY <1>1, <2>2, <2>5 DEF CostInv, WaitersWait
  <2>10. EntriesInTime'
    BY <2>4 DEF CostInv, EntriesInTime, InTime
  <2> QED
    BY <2>6, <2>7, <2>8, <2>9, <2>10 DEF CostInv
<1> QED
  BY <1>2, <1>3 DEF Recheck

(* A new entry is in time, and every other that stays is as it was.        *)
LEMMA setCachedEffect ==
  ASSUME CostInv, NEW k \in Key, NEW answer \in Answer, NEW now \in Nat,
         answer.generatedAt = now, setCachedUntil(k, answer, now, answer.retryAt)
  PROVE  /\ DOMAIN cache' \subseteq DOMAIN cache \cup {k}
         /\ cache' \in [DOMAIN cache' -> CacheEntry]
         /\ \A l \in DOMAIN cache' : InTime(cache'[l])
<1> DEFINE expiresAt == Expiry(now, answer.retryAt)
           kept == Restrict(cache, {l \in DOMAIN cache : now < cache[l].expiresAt})
           entry == [answer |-> answer, expiresAt |-> expiresAt]
<1>1. cache \in [DOMAIN cache -> CacheEntry] /\ DOMAIN cache \subseteq Key /\ \A l \in DOMAIN cache : InTime(cache[l])
  BY DEF CostInv, TypeOK, EntriesInTime
<1>2. answer.retryAt \in Nat /\ answer.generatedAt \in Nat /\ CacheTTL \in Nat
  BY CostAssumption DEF Answer
<1>3. entry \in CacheEntry /\ InTime(entry)
  BY <1>2 DEF Expiry, InTime, CacheEntry
<1>4. /\ kept \in [DOMAIN kept -> CacheEntry] /\ DOMAIN kept \subseteq Key
      /\ DOMAIN kept \subseteq DOMAIN cache /\ \A l \in DOMAIN kept : kept[l] = cache[l]
  <2> DEFINE S == {l \in DOMAIN cache : now < cache[l].expiresAt}
  <2>1. S \in SUBSET DOMAIN cache
    OBVIOUS
  <2> HIDE DEF S
  <2>2. /\ DOMAIN Restrict(cache, S) = S /\ DOMAIN Restrict(cache, S) \subseteq Key
        /\ Restrict(cache, S) \in [DOMAIN Restrict(cache, S) -> CacheEntry]
        /\ \A l \in S : Restrict(cache, S)[l] = cache[l]
    BY <1>1, <2>1, RestrictType
  <2> QED
    BY <2>1, <2>2 DEF S
<1> HIDE DEF kept, entry
<1>5. CASE cache' = Without(cache, k)
  <2>1. /\ DOMAIN cache' = DOMAIN cache \ {k} /\ DOMAIN cache' \subseteq Key
        /\ cache' \in [DOMAIN cache' -> CacheEntry]
        /\ \A l \in DOMAIN cache \ {k} : cache'[l] = cache[l]
    BY <1>1, <1>5, WithoutType
  <2> QED
    BY <1>1, <2>1
(* Storing the entry in a part of the cache. *)
<1>6. ASSUME NEW left, left \in [DOMAIN left -> CacheEntry], DOMAIN left \subseteq Key,
             DOMAIN left \subseteq DOMAIN cache, \A l \in DOMAIN left : left[l] = cache[l],
             cache' = Store(left, k, entry)
      PROVE  /\ DOMAIN cache' \subseteq DOMAIN cache \cup {k}
             /\ cache' \in [DOMAIN cache' -> CacheEntry]
             /\ \A l \in DOMAIN cache' : InTime(cache'[l])
  <2> DEFINE new == Store(left, k, entry)
  <2>0. left \in [DOMAIN left -> CacheEntry] /\ DOMAIN left \subseteq Key /\ entry \in CacheEntry
    BY <1>3, <1>6
  <2>1. /\ DOMAIN new = DOMAIN left \cup {k} /\ DOMAIN new \subseteq Key
        /\ new \in [DOMAIN new -> CacheEntry] /\ new[k] = entry
        /\ \A l \in DOMAIN left \ {k} : new[l] = left[l]
    BY <2>0 DEF Store
  <2>2. cache' = new
    BY <1>6
  <2> HIDE DEF new
  <2> QED
    BY <1>1, <1>3, <1>6, <2>1, <2>2
<1>7. CASE \E victim \in Victims(kept) : cache' = Store(Without(kept, victim), k, entry)
  <2>1. PICK victim : cache' = Store(Without(kept, victim), k, entry)
    BY <1>7
  <2> DEFINE left == Without(kept, victim)
  <2>2. /\ DOMAIN left = DOMAIN kept \ {victim} /\ DOMAIN left \subseteq Key
        /\ left \in [DOMAIN left -> CacheEntry]
        /\ \A l \in DOMAIN kept \ {victim} : left[l] = kept[l]
    BY <1>4, WithoutType
  <2> HIDE DEF left
  <2>3. DOMAIN left \subseteq DOMAIN cache /\ \A l \in DOMAIN left : left[l] = cache[l]
    BY <1>4, <2>2
  <2> QED
    BY <1>6, <2>1, <2>2, <2>3 DEF left
<1>8. CASE cache' = Store(kept, k, entry)
  BY <1>4, <1>6, <1>8
<1> QED
  BY <1>5, <1>7, <1>8 DEF setCachedUntil, kept, entry

LEMMA FinishInv ==
  ASSUME CostInv, NEW k \in Key, Finish(k)
  PROVE  CostInv'
<1> DEFINE answer == [flight[k].answer EXCEPT !.outOfTime = Ended(k), !.generatedAt = flight[k].now]
           r == [flight[k] EXCEPT !.stage = "answered", !.answer = answer]
<1>1. /\ k \in DOMAIN flight /\ flight[k] \in FlightState /\ Paid(flight[k])
      /\ flight[k].stage = "finish" /\ UNCHANGED <<clock, call>>
      /\ flight' = [flight EXCEPT ![k].stage = "answered", ![k].answer = answer]
      /\ setCachedUntil(k, answer, flight[k].now, answer.retryAt)
  BY FlightFacts DEF Finish, In
<1>2. Ended(k) \in BOOLEAN
  <2>1. flight[k].leader \in Caller /\ clock \in Nat
    BY <1>1 DEF FlightState, CostInv, TypeOK
  <2> QED
    BY <2>1 DEF Ended
<1>3. answer \in Answer /\ answer.generatedAt = flight[k].now /\ flight[k].now \in Nat
  BY <1>1, <1>2 DEF FlightState, Answer
<1> HIDE DEF answer
<1>4. /\ DOMAIN cache' \subseteq DOMAIN cache \cup {k}
      /\ cache' \in [DOMAIN cache' -> CacheEntry]
      /\ \A l \in DOMAIN cache' : InTime(cache'[l])
  BY <1>1, <1>3, setCachedEffect
<1>5. r \in FlightState /\ Paid(r) /\ NotedGaps(r) /\ r.waiters = flight[k].waiters
      /\ r.stage = "answered"
  BY <1>1, <1>3 DEF FlightState, Stage, Paid, NotedGaps
<1>6. flight' = [flight EXCEPT ![k] = r]
  BY <1>1
<1> HIDE DEF r
<1>7. DOMAIN flight' = DOMAIN flight /\ flight'[k] = r
      /\ \A l \in DOMAIN flight \ {k} : flight'[l] = flight[l]
  BY <1>1, <1>6 DEF CostInv, TypeOK
<1>8. TypeOK'
  BY <1>1, <1>4, <1>5, <1>6, <1>7 DEF CostInv, TypeOK
<1>9. FlightsSound'
  BY <1>5, <1>7 DEF CostInv, FlightsSound, Paid, NotedGaps
<1>10. NothingCached'
  BY <1>4, <1>5, <1>7 DEF CostInv, NothingCached, Looked
<1>11. WaitersWait'
  BY <1>1, <1>5, <1>7 DEF CostInv, WaitersWait
<1>12. EntriesInTime'
  BY <1>4 DEF EntriesInTime, InTime
<1> QED
  BY <1>8, <1>9, <1>10, <1>11, <1>12 DEF CostInv

-----------------------------------------------------------------------------
(* What is left of the invariant when flights and cache stay: the types of *)
(* the calls, and that those who wait go on waiting.                       *)
LEMMA OneCall ==
  ASSUME CostInv, UNCHANGED <<clock, flight>>,
         DOMAIN cache' \subseteq DOMAIN cache, cache' \in [DOMAIN cache' -> CacheEntry],
         \A l \in DOMAIN cache' : cache'[l] = cache[l],
         DOMAIN call' \subseteq Caller, call' \in [DOMAIN call' -> CallState],
         \A c \in DOMAIN call : call[c].pc = "wait" => c \in DOMAIN call' /\ call'[c] = call[c]
  PROVE  CostInv'
<1>1. TypeOK'
  BY DEF CostInv, TypeOK
<1>2. FlightsSound'
  BY DEF CostInv, FlightsSound, Paid, NotedGaps
<1>3. NothingCached'
  BY DEF CostInv, NothingCached
<1>4. WaitersWait'
  BY DEF CostInv, WaitersWait
<1>5. EntriesInTime'
  BY DEF CostInv, EntriesInTime, InTime
<1> QED
  BY <1>1, <1>2, <1>3, <1>4, <1>5 DEF CostInv

LEMMA CallFacts ==
  ASSUME CostInv
  PROVE  /\ call \in [DOMAIN call -> CallState] /\ DOMAIN call \subseteq Caller
         /\ cache \in [DOMAIN cache -> CacheEntry] /\ DOMAIN cache \subseteq Key
         /\ clock \in Nat
BY DEF CostInv, TypeOK

LEMMA ExplainInv ==
  ASSUME CostInv, NEW c \in Caller, NEW k \in Key, Explain(c, k)
  PROVE  CostInv'
<1> DEFINE begun == [pc |-> "lookup", key |-> k, now |-> clock, live |-> TRUE]
<1>1. begun \in CallState
  BY CallFacts DEF CallState, CallPC
<1> HIDE DEF begun
<1>2. DOMAIN call' = DOMAIN call \cup {c} /\ call' \in [DOMAIN call' -> CallState]
      /\ \A d \in DOMAIN call : call'[d] = call[d]
  BY <1>1, CallFacts DEF Explain, Store, begun
<1> QED
  BY <1>2, CallFacts, OneCall DEF Explain

LEMMA ContextEndsInv ==
  ASSUME CostInv, NEW c \in Caller, ContextEnds(c)
  PROVE  CostInv'
<1>1. /\ c \in DOMAIN call /\ UNCHANGED <<clock, cache, flight>>
      /\ call' = [call EXCEPT ![c].live = FALSE]
  BY DEF ContextEnds
<1>2. DOMAIN call' = DOMAIN call /\ call' \in [DOMAIN call -> CallState]
      /\ \A d \in DOMAIN call : call'[d].pc = call[d].pc /\ call'[d].key = call[d].key
  BY <1>1, CallFacts DEF CallState
<1>3. TypeOK'
  BY <1>1, <1>2 DEF CostInv, TypeOK
<1>4. FlightsSound'
  BY <1>1 DEF CostInv, FlightsSound, Paid, NotedGaps
<1>5. NothingCached' /\ EntriesInTime'
  BY <1>1 DEF CostInv, NothingCached, EntriesInTime, InTime
<1>6. WaitersWait'
  BY <1>1, <1>2 DEF CostInv, WaitersWait
<1> QED
  BY <1>3, <1>4, <1>5, <1>6 DEF CostInv

LEMMA LookupInv ==
  ASSUME CostInv, NEW c \in Caller, Lookup(c)
  PROVE  CostInv'
<1> DEFINE k == call[c].key
<1>1. c \in DOMAIN call /\ call[c].pc = "lookup" /\ k \in Key /\ UNCHANGED <<clock, flight>>
  BY CallFacts DEF Lookup, At, CallState
<1>2. CASE call' = Without(call, c) /\ UNCHANGED cache
  <2>1. DOMAIN call' = DOMAIN call \ {c} /\ call' \in [DOMAIN call' -> CallState]
        /\ \A d \in DOMAIN call \ {c} : call'[d] = call[d]
    BY <1>2, CallFacts DEF Without, Restrict
  <2> QED
    BY <1>1, <1>2, <2>1, CallFacts, OneCall
<1>3. CASE getCachedMisses(k, call[c].now) /\ call' = [call EXCEPT ![c].pc = "do"]
  <2>1. DOMAIN call' = DOMAIN call /\ call' \in [DOMAIN call' -> CallState]
        /\ \A d \in DOMAIN call \ {c} : call'[d] = call[d]
    BY <1>1, <1>3, CallFacts DEF CallState, CallPC
  <2>2. /\ DOMAIN cache' = DOMAIN cache \ {k} /\ cache' \in [DOMAIN cache' -> CacheEntry]
        /\ \A l \in DOMAIN cache' : cache'[l] = cache[l]
    BY <1>1, <1>3, MissEffect
  <2> HIDE DEF k
  <2> QED
    BY <1>1, <2>1, <2>2, CallFacts, OneCall
<1> QED
  BY <1>2, <1>3 DEF Lookup

LEMMA DoInv ==
  ASSUME CostInv, NEW c \in Caller, Do(c)
  PROVE  CostInv'
<1> DEFINE k == call[c].key
           fl == flight'[k]
<1>1. /\ c \in DOMAIN call /\ call[c].pc = "do" /\ k \in Key /\ call[c].now \in Nat
      /\ UNCHANGED <<clock, cache>>
      /\ call' = [call EXCEPT ![c].pc = "wait", ![c].now = 0]
      /\ flight' = IF k \in DOMAIN flight THEN [flight EXCEPT ![k].waiters = @ \cup {c}]
                                          ELSE Store(flight, k, NewFlight(c))
  BY CallFacts DEF Do, At, CallState
<1>2. DOMAIN call' = DOMAIN call /\ call' \in [DOMAIN call' -> CallState]
      /\ call'[c].pc = "wait" /\ call'[c].key = k
      /\ \A d \in DOMAIN call \ {c} : call'[d] = call[d]
  BY <1>1, CallFacts DEF CallState, CallPC
<1>3. flight \in [DOMAIN flight -> FlightState] /\ DOMAIN flight \subseteq Key
  BY DEF CostInv, TypeOK
<1>4. /\ DOMAIN flight' = DOMAIN flight \cup {k}
      /\ \A l \in DOMAIN flight \ {k} : flight'[l] = flight[l]
      /\ fl \in FlightState /\ Paid(fl) /\ NotedGaps(fl)
      /\ fl.stage \in Looked => k \notin DOMAIN cache
      /\ c \in fl.waiters
      /\ \A d \in fl.waiters : d = c \/ (k \in DOMAIN flight /\ d \in flight[k].waiters)
  <2>1. CASE k \in DOMAIN flight
    <3> DEFINE r == [flight[k] EXCEPT !.waiters = @ \cup {c}]
    <3>1. flight[k] \in FlightState /\ Paid(flight[k]) /\ NotedGaps(flight[k])
          /\ (flight[k].stage \in Looked => k \notin DOMAIN cache)
      BY <2>1, FlightFacts
    <3>2. r \in FlightState /\ Paid(r) /\ NotedGaps(r) /\ r.stage = flight[k].stage
          /\ r.waiters = flight[k].waiters \cup {c}
      BY <3>1 DEF FlightState, Paid, NotedGaps
    <3>3. flight' = [flight EXCEPT ![k] = r]
      BY <1>1, <1>3, <2>1
    <3> HIDE DEF r
    <3> QED
      BY <1>1, <1>3, <2>1, <3>1, <3>2, <3>3
  <2>2. CASE k \notin DOMAIN flight
    <3> DEFINE r == NewFlight(c)
    <3>1. r \in FlightState
      BY <1>1 DEF NewFlight, FlightState, Stage, AssetResult, RecommendationResult, Answer, NoAnswer
    <3>2. r.waiters = {c} /\ r.stage = "recheck" /\ r.billed = 0
      BY DEF NewFlight
    <3>3. Paid(r) /\ NotedGaps(r) /\ r.stage \notin Looked
      BY <3>2, CostAssumption DEF Paid, NotedGaps, Looked
    <3>4. DOMAIN flight' = DOMAIN flight \cup {k} /\ fl = r
          /\ \A l \in DOMAIN flight \ {k} : flight'[l] = flight[l]
      BY <1>1, <1>3, <2>2 DEF Store
    <3> HIDE DEF r, fl
    <3> QED
      BY <3>1, <3>2, <3>3, <3>4
  <2> QED
    BY <2>1, <2>2
<1>5. flight' = [l \in DOMAIN flight' |-> flight'[l]]
  <2>1. CASE k \in DOMAIN flight
    BY <1>1, <1>3, <2>1
  <2>2. CASE k \notin DOMAIN flight
    BY <1>1, <2>2 DEF Store
  <2> QED
    BY <2>1, <2>2
<1> HIDE DEF k
<1>6. TypeOK'
  BY <1>1, <1>2, <1>3, <1>4, <1>5, CallFacts DEF CostInv, TypeOK
<1>7. FlightsSound'
  BY <1>4 DEF CostInv, FlightsSound, Paid, NotedGaps
<1>8. NothingCached'
  BY <1>1, <1>4 DEF CostInv, NothingCached
<1>9. WaitersWait'
  <2> SUFFICES ASSUME NEW l \in DOMAIN flight', NEW d \in flight'[l].waiters
               PROVE  d \in DOMAIN call' /\ call'[d].pc = "wait" /\ call'[d].key = l
    BY DEF WaitersWait
  <2>1. CASE d = c /\ l = k
    BY <2>1, <1>1, <1>2
  <2>2. CASE l \in DOMAIN flight /\ d \in flight[l].waiters
    <3>1. d \in DOMAIN call /\ call[d].pc = "wait" /\ call[d].key = l
      BY <2>2 DEF CostInv, WaitersWait
    <3>2. d # c
      BY <3>1, <1>1
    <3> QED
      BY <3>1, <3>2, <1>2
  <2> QED
    BY <2>1, <2>2, <1>4
<1>10. EntriesInTime'
  BY <1>1 DEF CostInv, EntriesInTime, InTime
<1> QED
  BY <1>6, <1>7, <1>8, <1>9, <1>10 DEF CostInv

LEMMA DeliverInv ==
  ASSUME CostInv, NEW k \in Key, Deliver(k)
  PROVE  CostInv'
<1>1. /\ k \in DOMAIN flight /\ UNCHANGED <<clock, cache>>
      /\ call' = Restrict(call, DOMAIN call \ flight[k].waiters)
      /\ flight' = Without(flight, k)
  BY DEF Deliver
<1>2. DOMAIN call' = DOMAIN call \ flight[k].waiters
      /\ call' \in [DOMAIN call' -> CallState] /\ \A d \in DOMAIN call' : call'[d] = call[d]
  BY <1>1, CallFacts DEF Restrict
<1>3. flight \in [DOMAIN flight -> FlightState] /\ DOMAIN flight \subseteq Key
  BY DEF CostInv, TypeOK
<1>4. DOMAIN flight' = DOMAIN flight \ {k}
      /\ flight' \in [DOMAIN flight' -> FlightState] /\ \A l \in DOMAIN flight' : flight'[l] = flight[l]
  BY <1>1, <1>3 DEF Without, Restrict
<1>5. TypeOK'
  BY <1>1, <1>2, <1>3, <1>4, CallFacts DEF CostInv, TypeOK
<1>6. FlightsSound'
  BY <1>4 DEF CostInv, FlightsSound, Paid, NotedGaps
<1>7. NothingCached' /\ EntriesInTime'
  BY <1>1, <1>4 DEF CostInv, NothingCached, EntriesInTime, InTime
<1>8. WaitersWait'
  <2> SUFFICES ASSUME NEW l \in DOMAIN flight', NEW d \in flight'[l].waiters
               PROVE  d \in DOMAIN call' /\ call'[d].pc = "wait" /\ call'[d].key = l
    BY DEF WaitersWait
  <2>1. l # k /\ l \in DOMAIN flight /\ d \in flight[l].waiters
    BY <1>4
  <2>2. d \in DOMAIN call /\ call[d].pc = "wait" /\ call[d].key = l
    BY <2>1 DEF CostInv, WaitersWait
  <2>3. d \notin flight[k].waiters
    BY <2>1, <2>2, <1>1 DEF CostInv, WaitersWait
  <2> QED
    BY <2>2, <2>3, <1>2
<1> QED
  BY <1>5, <1>6, <1>7, <1>8 DEF CostInv

LEMMA TickInv ==
  ASSUME CostInv, Tick
  PROVE  CostInv'
<1>1. UNCHANGED <<cache, call, flight>> /\ clock' \in Nat
  BY CallFacts DEF Tick
<1>2. TypeOK' /\ FlightsSound' /\ NothingCached' /\ WaitersWait' /\ EntriesInTime'
  BY <1>1 DEF CostInv, TypeOK, FlightsSound, Paid, NotedGaps, NothingCached, WaitersWait, EntriesInTime, InTime
<1> QED
  BY <1>2 DEF CostInv

LEMMA StutterInv ==
  ASSUME CostInv, UNCHANGED vars
  PROVE  CostInv'
<1>1. UNCHANGED <<clock, cache, call, flight>>
  BY DEF vars
<1>2. TypeOK' /\ FlightsSound' /\ NothingCached' /\ WaitersWait' /\ EntriesInTime'
  BY <1>1 DEF CostInv, TypeOK, FlightsSound, Paid, NotedGaps, NothingCached, WaitersWait, EntriesInTime, InTime
<1> QED
  BY <1>2 DEF CostInv

LEMMA NextInv ==
  ASSUME CostInv, [Next]_vars
  PROVE  CostInv'
<1>1. ASSUME NEW c \in Caller, NEW k \in Key, Explain(c, k) PROVE CostInv'
  BY <1>1, ExplainInv
<1>2. ASSUME NEW c \in Caller, ContextEnds(c) \/ CallStep(c) PROVE CostInv'
  BY <1>2, ContextEndsInv, LookupInv, DoInv DEF CallStep
<1>3. ASSUME NEW k \in Key, FlightStep(k) PROVE CostInv'
  BY <1>3, RecheckInv, FactsFailInv, AwaitAssetsInv, AwaitRecommendationsInv, EnrichTrafficInv,
     FinishInv, DeliverInv DEF FlightStep
<1>4. ASSUME NEW k \in Key, RemoteStep(k) PROVE CostInv'
  BY <1>4, FactsFailInv, EstimateInv, RunContributorsInv, RunHistoryInv, AssetsReturnInv,
     RecommendationsReturnInv, EnrichTrafficInv DEF RemoteStep
<1> QED
  BY <1>1, <1>2, <1>3, <1>4, TickInv, StutterInv DEF Next

-----------------------------------------------------------------------------
(* The invariant of analyses, calls and cache, from which all else follows.*)
THEOREM CostInvariant == Spec => []CostInv
<1>1. CostInv /\ [Next]_vars => CostInv'
  BY NextInv
<1> QED
  BY <1>1, InitInv, PTL DEF Spec

(* Type correctness.                                                       *)
THEOREM CostTypes == Spec => []TypeOK
<1>1. CostInv => TypeOK
  BY DEF CostInv
<1> QED
  BY <1>1, CostInvariant, PTL

(* README.md:268: an analysis is billed for no more than twice the limit.  *)
THEOREM BillCorrect == Spec => []BillBounded
<1>1. CostInv => BillBounded
  BY DEF CostInv, FlightsSound, Paid, BillBounded
<1> QED
  BY <1>1, CostInvariant, PTL

(* Missing evidence is marked partial.                                     *)
THEOREM GapsCorrect == Spec => []GapsAreTold
<1>1. CostInv => GapsAreTold
  BY DEF CostInv, FlightsSound, NotedGaps, GapsAreTold
<1> QED
  BY <1>1, CostInvariant, PTL

(* Only the two jobs bill an analysis, each from its own stage.            *)
LEMMA BilledByRuns ==
  ASSUME CostInv, [Next]_vars, NEW k \in DOMAIN flight \cap DOMAIN flight',
         flight'[k].billed > flight[k].billed
  PROVE  flight[k].stage \in {"run1", "run2"}
<1>1. flight \in [DOMAIN flight -> FlightState] /\ flight[k] \in FlightState /\ flight[k].billed \in Nat
  BY DEF CostInv, TypeOK, FlightState
<1>2. flight'[k] # flight[k] /\ flight'[k].billed # flight[k].billed
  BY <1>1
<1>3. ASSUME NEW l \in Key, RunContributors(l) PROVE flight[k].stage = "run1"
  BY <1>1, <1>2, <1>3 DEF RunContributors, In
<1>4. ASSUME NEW l \in Key, RunHistory(l) PROVE flight[k].stage = "run2"
  BY <1>1, <1>2, <1>4 DEF RunHistory, In
<1>5. ASSUME NEW l \in Key, Recheck(l) PROVE FALSE
  BY <1>1, <1>2, <1>5 DEF Recheck, In, Begin, FlightState
<1>6. ASSUME NEW l \in Key, FactsFail(l) \/ EnrichTraffic(l) \/ Estimates(l) PROVE FALSE
  BY <1>1, <1>2, <1>6 DEF FactsFail, EnrichTraffic, Estimates, Estimate, In, FlightTo, FlightState
<1>7. ASSUME NEW l \in Key, AssetsReturn(l) PROVE FALSE
  BY <1>1, <1>2, <1>7 DEF AssetsReturn, In, FlightState
<1>8. ASSUME NEW l \in Key, RecommendationsReturn(l) PROVE FALSE
  BY <1>1, <1>2, <1>8 DEF RecommendationsReturn, In, FlightState
<1>9. ASSUME NEW l \in Key, AwaitAssets(l) PROVE FALSE
  <2>1. PICK isPartial \in BOOLEAN :
          flight' = [flight EXCEPT ![l] = Told(l, "asset_inventory", isPartial, "recommendations")]
    <3>1. CASE flight' = [flight EXCEPT ![l] = Told(l, "asset_inventory", TRUE, "recommendations")]
      BY <3>1
    <3>2. CASE flight' = [flight EXCEPT ![l] =
                 Told(l, "asset_inventory", flight[l].assets \in {"truncated", "error"}, "recommendations")]
      <4>1. (flight[l].assets \in {"truncated", "error"}) \in BOOLEAN
        OBVIOUS
      <4> QED
        BY <3>2, <4>1
    <3> QED
      BY <1>9, <3>1, <3>2 DEF AwaitAssets
  <2> QED
    BY <1>1, <1>2, <2>1 DEF Told, FlightState
<1>10. ASSUME NEW l \in Key, AwaitRecommendations(l) PROVE FALSE
  <2>1. CASE flight' = [flight EXCEPT ![l] = Told(l, "recommender", TRUE, "traffic")]
    BY <1>1, <1>2, <2>1 DEF Told, FlightState
  <2>2. CASE flight' = [flight EXCEPT ![l] = Recommended(l, flight[l].recommendations)]
    BY <1>1, <1>2, <2>2 DEF Recommended, Told, FlightState
  <2> QED
    BY <1>10, <2>1, <2>2 DEF AwaitRecommendations
<1>11. ASSUME NEW l \in Key, Finish(l) PROVE FALSE
  BY <1>1, <1>2, <1>11 DEF Finish, In, FlightState
<1>12. ASSUME NEW l \in Key, Deliver(l) PROVE FALSE
  BY <1>1, <1>2, <1>12 DEF Deliver, Without, Restrict
<1>13. ASSUME NEW c \in Caller, Do(c) PROVE FALSE
  BY <1>1, <1>2, <1>13 DEF Do, Store, FlightState
<1>14. ASSUME UNCHANGED flight PROVE FALSE
  BY <1>2, <1>14
<1> QED
  BY <1>3, <1>4, <1>5, <1>6, <1>7, <1>8, <1>9, <1>10, <1>11, <1>12, <1>13, <1>14
     DEF Next, vars, FlightStep, RemoteStep, CallStep, Explain, ContextEnds, Lookup, Tick

(* README.md:268 "caches results for 15 minutes": no charge while the      *)
(* answer of the key is still good.                                        *)
THEOREM NoChargeCorrect == Spec => NoChargeWhileFresh
<1> DEFINE Step == \A k \in DOMAIN flight \cap DOMAIN flight' :
                     flight'[k].billed > flight[k].billed => ~getCachedHits(k, clock)
<1>1. CostInv /\ [Next]_vars => [Step]_vars
  <2> SUFFICES ASSUME CostInv, [Next]_vars, NEW k \in DOMAIN flight \cap DOMAIN flight',
                      flight'[k].billed > flight[k].billed
               PROVE  ~getCachedHits(k, clock)
    OBVIOUS
  <2>1. flight[k].stage \in Looked
    BY BilledByRuns DEF Looked, Stage
  <2> QED
    BY <2>1, FlightFacts DEF getCachedHits
<1> QED
  BY <1>1, CostInvariant, PTL DEF Spec, NoChargeWhileFresh

(* README.md:268, engine.go:238: what the cache serves is younger than its *)
(* time to live, and not past the time when the quota is back.             *)
THEOREM CostServedInTime == Spec => ServedInTime
<1> DEFINE Step == \A c \in DOMAIN call \ DOMAIN call' :
                     call[c].pc = "lookup" =>
                       LET answer == cache[call[c].key].answer
                       IN  /\ call[c].now < answer.generatedAt + CacheTTL
                           /\ answer.retryAt # 0 => call[c].now < answer.retryAt
<1>1. CostInv /\ [Next]_vars => [Step]_vars
  <2> SUFFICES ASSUME CostInv, [Next]_vars, NEW c \in DOMAIN call \ DOMAIN call', call[c].pc = "lookup"
               PROVE  LET answer == cache[call[c].key].answer
                      IN  /\ call[c].now < answer.generatedAt + CacheTTL
                          /\ answer.retryAt # 0 => call[c].now < answer.retryAt
    OBVIOUS
  <2>1. getCachedHits(call[c].key, call[c].now)
    <3>1. c \in DOMAIN call /\ c \notin DOMAIN call' /\ call \in [DOMAIN call -> CallState]
      BY CallFacts
    <3>2. ASSUME NEW d \in Caller, Lookup(d) PROVE getCachedHits(call[c].key, call[c].now)
      BY <3>1, <3>2 DEF Lookup, Without, Restrict
    <3>3. ASSUME NEW k \in Key, Deliver(k) PROVE FALSE
      <4>1. k \in DOMAIN flight /\ c \in flight[k].waiters
        BY <3>1, <3>3 DEF Deliver, Restrict
      <4> QED
        BY <4>1 DEF CostInv, WaitersWait
    <3>4. ASSUME NEW d \in Caller, NEW k \in Key, Explain(d, k) PROVE FALSE
      BY <3>1, <3>4 DEF Explain, Store
    <3>5. ASSUME NEW d \in Caller, ContextEnds(d) \/ Do(d) PROVE FALSE
      BY <3>1, <3>5 DEF ContextEnds, Do
    <3>6. ASSUME UNCHANGED call PROVE FALSE
      BY <3>1, <3>6
    <3> QED
      BY <3>2, <3>3, <3>4, <3>5, <3>6
         DEF Next, vars, FlightStep, RemoteStep, CallStep, Tick, Recheck, FactsFail, AwaitAssets,
             AwaitRecommendations, EnrichTraffic, Finish, Estimates, Estimate, RunContributors,
             RunHistory, AssetsReturn, RecommendationsReturn
  <2>2. /\ call[c].now \in Nat /\ cache[call[c].key] \in CacheEntry /\ InTime(cache[call[c].key])
        /\ call[c].now < cache[call[c].key].expiresAt
    BY <2>1, CallFacts DEF getCachedHits, CallState, CostInv, EntriesInTime
  <2>3. /\ cache[call[c].key].expiresAt \in Nat /\ cache[call[c].key].answer.generatedAt \in Nat
        /\ cache[call[c].key].answer.retryAt \in Nat /\ CacheTTL \in Nat
    BY <2>2, CostAssumption DEF CacheEntry, Answer
  <2> QED
    BY <2>2, <2>3 DEF InTime
<1> QED
  BY <1>1, CostInvariant, PTL DEF Spec, ServedInTime
=============================================================================
