----------------------------- MODULE CostReasoning -----------------------------
(***************************************************************************)
(* How Explain (internal/costreasoning/engine.go) answers: from its cache,  *)
(* or from one analysis per key that runs under the context of the caller  *)
(* who came first and that all who ask meanwhile wait for.  An analysis    *)
(* runs two charged BigQuery jobs (internal/gcp/cost_billing.go) and then  *)
(* collects evidence which it can do without.                              *)
(***************************************************************************)
EXTENDS Integers, FiniteSets, GoMap

CONSTANTS
  Caller,
  Key,             \* the values of responseCacheKey
  IncludeIdle,     \* the keys of requests that ask for recommendations
  NewlyBilled,     \* bound: the keys whose rows may show newly billed resources
  Timeout,         \* Engine.timeout
  CacheTTL,
  MaxCacheEntries,
  MaxBytesBilled,
  TableSize,       \* bound: bytes a query over the billing table may process
  Backoff,         \* bound: how far ahead a quota error puts RetryAt
  LastArrival      \* bound: no call begins later than this

ASSUME CostAssumption ==
  /\ IncludeIdle \subseteq Key
  /\ Timeout \in Nat \ {0}
  /\ CacheTTL \in Nat \ {0}
  /\ MaxCacheEntries \in Nat \ {0}
  /\ MaxBytesBilled \in Nat
  /\ TableSize \subseteq Nat /\ TableSize # {}
  /\ Backoff \subseteq Nat \ {0}
  /\ LastArrival \in Nat

VARIABLES
  clock,
  cache,    \* key -> cacheEntry
  call,     \* caller -> the local state of its running Explain
  flight    \* key -> the analysis under way for it

vars == <<clock, cache, call, flight>>

(* What an answer says, as far as those who get it from the cache tell     *)
(* answers apart here: whether the time budget was reached, and when the   *)
(* recommendations may be asked for again (0: no quota error).             *)
Answer == [outOfTime: BOOLEAN, retryAt: Nat, generatedAt: Nat]
NoAnswer == [outOfTime |-> FALSE, retryAt |-> 0, generatedAt |-> 0]

CacheEntry == [answer: Answer, expiresAt: Nat]

(* The coverage checks followed here. *)
Check == {"asset_inventory", "recommender"}

CallPC == {"lookup", "do", "wait"}
CallState == [pc: CallPC, key: Key, now: Nat, live: BOOLEAN]

Stage == {"recheck", "estimate1", "run1", "estimate2", "run2",
          "assets", "recommendations", "traffic", "finish", "answered", "failed"}

(* assets and recommendations hold what their goroutines have sent. *)
AssetResult == {"skipped", "pending", "complete", "truncated", "error"}
RecommendationResult == {"skipped", "pending", "complete", "incomplete", "disabled", "error", "quota"}

FlightState ==
  [stage: Stage, leader: Caller, waiters: SUBSET Caller, now: Nat, deadline: Nat, billed: Nat,
   assets: AssetResult, recommendations: RecommendationResult, quotaRetryAt: Nat,
   partial: SUBSET Check, answer: Answer]

Init ==
  /\ clock = 0
  /\ cache = <<>>
  /\ call = <<>>
  /\ flight = <<>>

At(c, pc) == c \in DOMAIN call /\ call[c].pc = pc
In(k, stage) == k \in DOMAIN flight /\ flight[k].stage = stage
FlightTo(k, stage) == flight' = [flight EXCEPT ![k].stage = stage]

-----------------------------------------------------------------------------
(* getCached, for a caller whose clock read t. *)
getCachedHits(k, t) == k \in DOMAIN cache /\ t < cache[k].expiresAt
getCachedMisses(k, t) == ~getCachedHits(k, t) /\ cache' = Without(cache, k)

(* Explain reads the clock once, before it looks into the cache. *)
Explain(c, k) ==
  /\ c \notin DOMAIN call
  /\ clock <= LastArrival
  /\ call' = Store(call, c, [pc |-> "lookup", key |-> k, now |-> clock, live |-> TRUE])
  /\ UNCHANGED <<clock, cache, flight>>

(* The caller's context ends.  It does not matter to one who waits for     *)
(* another's analysis.                                                     *)
ContextEnds(c) ==
  /\ c \in DOMAIN call /\ call[c].live
  /\ At(c, "wait") => flight[call[c].key].leader = c
  /\ call' = [call EXCEPT ![c].live = FALSE]
  /\ UNCHANGED <<clock, cache, flight>>

Lookup(c) ==
  LET k == call[c].key
  IN  /\ At(c, "lookup")
      /\ \/ /\ getCachedHits(k, call[c].now)
            /\ call' = Without(call, c)
            /\ UNCHANGED cache
         \/ getCachedMisses(k, call[c].now) /\ call' = [call EXCEPT ![c].pc = "do"]
      /\ UNCHANGED <<clock, flight>>

NewFlight(c) ==
  [stage |-> "recheck", leader |-> c, waiters |-> {c}, now |-> call[c].now, deadline |-> 0,
   billed |-> 0, assets |-> "skipped", recommendations |-> "skipped", quotaRetryAt |-> 0,
   partial |-> {}, answer |-> NoAnswer]

(* flight.Do: the first caller runs the analysis itself, the others wait   *)
(* for it without looking at their own context.                            *)
Do(c) ==
  LET k == call[c].key
  IN  /\ At(c, "do")
      /\ call' = [call EXCEPT ![c].pc = "wait", ![c].now = 0]
      /\ flight' = IF k \in DOMAIN flight THEN [flight EXCEPT ![k].waiters = @ \cup {c}]
                                          ELSE Store(flight, k, NewFlight(c))
      /\ UNCHANGED <<clock, cache>>

-----------------------------------------------------------------------------
(* context.WithTimeout under the leader's context. *)
Begin(k) == flight' = [flight EXCEPT ![k].stage = "estimate1", ![k].deadline = clock + Timeout]

(* Mutant of Recheck: the cache is not looked at again. *)
RecheckNothing(k) ==
  /\ In(k, "recheck")
  /\ Begin(k)
  /\ UNCHANGED <<clock, cache, call>>

Recheck(k) ==
  /\ In(k, "recheck")
  /\ \/ /\ getCachedHits(k, flight[k].now)
        /\ flight' = [flight EXCEPT ![k].stage = "answered", ![k].answer = cache[k].answer]
        /\ UNCHANGED cache
     \/ getCachedMisses(k, flight[k].now) /\ Begin(k)
  /\ UNCHANGED <<clock, call>>

(* ctx.Err() of the analysis. *)
Ended(k) == clock >= flight[k].deadline \/ ~call[flight[k].leader].live

(* CollectCostFacts returns an error: a remote call failed, the context    *)
(* ended under one, or the estimate is over the limit.                     *)
FactsFail(k) ==
  /\ k \in DOMAIN flight /\ flight[k].stage \in {"estimate1", "run1", "estimate2", "run2"}
  /\ FlightTo(k, "failed")
  /\ UNCHANGED <<clock, cache, call>>

(* The dry run of a query, and the comparison of its estimate.  The table  *)
(* changes all the time: the job may meet another size than the dry run.   *)
Estimate(k, stage, next) ==
  /\ In(k, stage) /\ ~Ended(k)
  /\ \E bytes \in TableSize : bytes <= MaxBytesBilled
  /\ FlightTo(k, next)
  /\ UNCHANGED <<clock, cache, call>>

(* Mutant of Accepts: the job goes out without MaxBytesBilled. *)
AcceptsAnything(bytes) == TRUE

(* BigQuery runs, and charges, no job that would exceed its MaxBytesBilled.*)
Accepts(bytes) == bytes <= MaxBytesBilled

(* The job runs and is charged, whether or not its rows arrive.            *)
RunContributors(k) ==
  /\ In(k, "run1") /\ ~Ended(k)
  /\ \E bytes \in TableSize, next \in {"estimate2", "failed"} :
       /\ Accepts(bytes)
       /\ flight' = [flight EXCEPT ![k].stage = next, ![k].billed = @ + bytes]
  /\ UNCHANGED <<clock, cache, call>>

(* The rows of the second job say whether a resource was billed for the    *)
(* first time; then both kinds of evidence are asked for in the background.*)
RunHistory(k) ==
  /\ In(k, "run2") /\ ~Ended(k)
  /\ \E bytes \in TableSize, next \in {"assets", "failed"}, firstSeen \in {FALSE, (k \in NewlyBilled)} :
       /\ Accepts(bytes)
       /\ flight' = [flight EXCEPT
            ![k].stage = next,
            ![k].billed = @ + bytes,
            ![k].assets = IF next = "assets" /\ firstSeen THEN "pending" ELSE "skipped",
            ![k].recommendations = IF next = "assets" /\ k \in IncludeIdle THEN "pending" ELSE "skipped"]
  /\ UNCHANGED <<clock, cache, call>>

Estimates(k) == Estimate(k, "estimate1", "run1") \/ Estimate(k, "estimate2", "run2")

(* The goroutines: an ended context makes their calls fail.  What comes    *)
(* after the analysis stopped waiting for it is read by nobody.            *)
AssetsReturn(k) ==
  /\ In(k, "assets") /\ flight[k].assets = "pending"
  /\ \E result \in {"complete", "truncated", "error"} :
       /\ Ended(k) => result = "error"
       /\ flight' = [flight EXCEPT ![k].assets = result]
  /\ UNCHANGED <<clock, cache, call>>

RecommendationsReturn(k) ==
  /\ In(k, "assets") \/ In(k, "recommendations")
  /\ flight[k].recommendations = "pending"
  /\ \/ \E result \in {"complete", "incomplete", "disabled", "error"} :
          /\ Ended(k) => result = "error"
          /\ flight' = [flight EXCEPT ![k].recommendations = result]
     \/ \E wait \in Backoff :
          flight' = [flight EXCEPT ![k].recommendations = "quota", ![k].quotaRetryAt = clock + wait]
  /\ UNCHANGED <<clock, cache, call>>

(* The check becomes partial if it must, and the analysis moves on. *)
Told(k, check, isPartial, next) ==
  [flight[k] EXCEPT !.stage = next, !.partial = IF isPartial THEN @ \cup {check} ELSE @]

(* Mutant of AwaitAssets: the end of the context counts as no assets. *)
AwaitAssetsSilently(k) ==
  /\ In(k, "assets")
  /\ flight[k].assets # "pending" \/ Ended(k)
  /\ flight' = [flight EXCEPT ![k] =
       Told(k, "asset_inventory", flight[k].assets \in {"truncated", "error"}, "recommendations")]
  /\ UNCHANGED <<clock, cache, call>>

(* select: when the result and the end of the context are both there,      *)
(* either is taken.                                                        *)
AwaitAssets(k) ==
  LET result == flight[k].assets
  IN  /\ In(k, "assets")
      /\ \/ /\ result # "pending"
            /\ flight' = [flight EXCEPT ![k] =
                 Told(k, "asset_inventory", result \in {"truncated", "error"}, "recommendations")]
         \/ /\ result # "skipped" /\ Ended(k)
            /\ flight' = [flight EXCEPT ![k] =
                 Told(k, "asset_inventory", TRUE, "recommendations")]
      /\ UNCHANGED <<clock, cache, call>>

(* A result that came; a quota error tells when to ask again. *)
Recommended(k, result) ==
  [Told(k, "recommender", result \in {"incomplete", "error", "quota"}, "traffic")
     EXCEPT !.answer.retryAt = flight[k].quotaRetryAt]

(* Mutant of AwaitRecommendations: the result is awaited, come what may. *)
AwaitRecommendationsForever(k) ==
  LET result == flight[k].recommendations
  IN  /\ In(k, "recommendations") /\ result # "pending"
      /\ flight' = [flight EXCEPT ![k] = Recommended(k, result)]
      /\ UNCHANGED <<clock, cache, call>>

AwaitRecommendations(k) ==
  LET result == flight[k].recommendations
  IN  /\ In(k, "recommendations")
      /\ \/ /\ result # "pending"
            /\ flight' = [flight EXCEPT ![k] = Recommended(k, result)]
         \/ /\ result # "skipped" /\ Ended(k)
            /\ flight' = [flight EXCEPT ![k] = Told(k, "recommender", TRUE, "traffic")]
      /\ UNCHANGED <<clock, cache, call>>

(* enrichTrafficWithMonitoring: there may be nothing to corroborate, and   *)
(* what does not answer is marked partial at once.                         *)
EnrichTraffic(k) ==
  /\ In(k, "traffic")
  /\ FlightTo(k, "finish")
  /\ UNCHANGED <<clock, cache, call>>

(* Mutant of Expiry: the answer is kept for CacheTTL in any case. *)
ExpiryOfAll(now, noLaterThan) == now + CacheTTL

Expiry(now, noLaterThan) ==
  IF noLaterThan # 0 /\ noLaterThan < now + CacheTTL THEN noLaterThan ELSE now + CacheTTL

(* One of those that expire first. *)
Victims(m) == {k \in DOMAIN m : \A l \in DOMAIN m : m[k].expiresAt <= m[l].expiresAt}

(* setCachedUntil, with the clock reading that the analysis began with. *)
setCachedUntil(k, answer, now, noLaterThan) ==
  LET expiresAt == Expiry(now, noLaterThan)
      kept      == Restrict(cache, {l \in DOMAIN cache : now < cache[l].expiresAt})
      entry     == [answer |-> answer, expiresAt |-> expiresAt]
  IN  IF now >= expiresAt THEN cache' = Without(cache, k)
      ELSE IF k \notin DOMAIN kept /\ Cardinality(DOMAIN kept) >= MaxCacheEntries
      THEN \E victim \in Victims(kept) : cache' = Store(Without(kept, victim), k, entry)
      ELSE cache' = Store(kept, k, entry)

(* finalizeResponse, and the last look at the context. *)
Finish(k) ==
  LET answer == [flight[k].answer EXCEPT !.outOfTime = Ended(k), !.generatedAt = flight[k].now]
  IN  /\ In(k, "finish")
      /\ setCachedUntil(k, answer, flight[k].now, answer.retryAt)
      /\ flight' = [flight EXCEPT ![k].stage = "answered", ![k].answer = answer]
      /\ UNCHANGED <<clock, call>>

(* singleflight forgets the key and all who wait return with its result. *)
Deliver(k) ==
  /\ k \in DOMAIN flight /\ flight[k].stage \in {"answered", "failed"}
  /\ call' = Restrict(call, DOMAIN call \ flight[k].waiters)
  /\ flight' = Without(flight, k)
  /\ UNCHANGED <<clock, cache>>

-----------------------------------------------------------------------------
(* An analysis that waits for somebody else. *)
Waits(k) ==
  k \in DOMAIN flight /\ flight[k].stage \notin {"recheck", "finish", "answered", "failed"}

(* Time passes until the last call arrives, and then as long as some       *)
(* analysis waits for the end of its budget.                               *)
Tick ==
  /\ clock < LastArrival \/ \E k \in Key : Waits(k) /\ ~Ended(k)
  /\ clock' = clock + 1
  /\ UNCHANGED <<cache, call, flight>>

CallStep(c) == Lookup(c) \/ Do(c)

(* What the server does by itself, and what an ended context brings about. *)
FlightStep(k) ==
  \/ Recheck(k)
  \/ FactsFail(k) /\ Ended(k)
  \/ AwaitAssets(k) \/ AwaitRecommendations(k)
  \/ EnrichTraffic(k) /\ Ended(k)
  \/ Finish(k) \/ Deliver(k)

(* What others answer, if they do. *)
RemoteStep(k) ==
  \/ FactsFail(k) \/ Estimates(k) \/ RunContributors(k) \/ RunHistory(k)
  \/ AssetsReturn(k) \/ RecommendationsReturn(k) \/ EnrichTraffic(k)

Next ==
  \/ \E c \in Caller : (\E k \in Key : Explain(c, k)) \/ ContextEnds(c) \/ CallStep(c)
  \/ \E k \in Key : FlightStep(k) \/ RemoteStep(k)
  \/ Tick

Spec == Init /\ [][Next]_vars

(* The server's own code runs and time passes; no remote API need answer.  *)
FairSpec ==
  /\ Spec
  /\ \A c \in Caller : WF_vars(CallStep(c))
  /\ \A k \in Key : WF_vars(FlightStep(k))
  /\ WF_vars(Tick)

-----------------------------------------------------------------------------
TypeOK ==
  /\ clock \in Nat
  /\ DOMAIN cache \subseteq Key
  /\ cache \in [DOMAIN cache -> CacheEntry]
  /\ DOMAIN call \subseteq Caller /\ call \in [DOMAIN call -> CallState]
  /\ DOMAIN flight \subseteq Key /\ flight \in [DOMAIN flight -> FlightState]

(* README.md:268 "enforces a maximum-bytes-billed limit": the two jobs of  *)
(* an analysis cost no more than twice the limit, though the table grows   *)
(* between the dry run and the job and replies are lost.                   *)
BillBounded == \A k \in DOMAIN flight : flight[k].billed <= 2 * MaxBytesBilled

(* README.md:268 "caches results for 15 minutes": nothing is charged for a *)
(* key whose answer is still good, however callers miss each other between *)
(* the cache, the running analysis and its end.                            *)
NoChargeWhileFresh ==
  [][\A k \in DOMAIN flight \cap DOMAIN flight' :
       flight'[k].billed > flight[k].billed => ~getCachedHits(k, clock)]_vars

(* What the cache serves is younger than CacheTTL, and an answer that the  *)
(* Recommender quota cut short is not served once a retry may succeed      *)
(* (engine.go:238), by the clock that the caller read.                     *)
ServedInTime ==
  [][\A c \in DOMAIN call \ DOMAIN call' :
       call[c].pc = "lookup" =>
         LET answer == cache[call[c].key].answer
         IN  /\ call[c].now < answer.generatedAt + CacheTTL
             /\ answer.retryAt # 0 => call[c].now < answer.retryAt]_vars

(* Evidence that did not come, or came incomplete, is always marked        *)
(* partial, in whatever order the collectors and the end of the context    *)
(* come.                                                                   *)
GapsAreTold ==
  \A k \in DOMAIN flight :
    /\ flight[k].stage \in {"recommendations", "traffic", "finish"} =>
         \/ flight[k].assets \in {"skipped", "complete"}
         \/ "asset_inventory" \in flight[k].partial
    /\ flight[k].stage \in {"traffic", "finish"} =>
         \/ flight[k].recommendations \in {"skipped", "complete", "disabled"}
         \/ "recommender" \in flight[k].partial

(* Every call returns, though no API ever answers. *)
Answered == \A c \in Caller : c \in DOMAIN call ~> c \notin DOMAIN call

(* engine.go:240 "Cost analysis reached its time budget": an answer that   *)
(* says so has used it up.                                                 *)
TimeBudgetTold ==
  \A k \in DOMAIN flight :
    flight[k].answer.outOfTime => clock >= flight[k].deadline
=============================================================================
