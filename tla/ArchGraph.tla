------------------------------- MODULE ArchGraph -------------------------------
(***************************************************************************)
(* How ExportArchitectureGraph (internal/gcp/archgraph.go) serves callers:  *)
(* from the cache, or from one collection per key that all who ask at the  *)
(* same time share (doSharedCall, internal/gcp/cache.go).  A collection    *)
(* lists many APIs in three batches, keeps going when one fails, and gives *)
(* up when its own deadline has passed.                                    *)
(***************************************************************************)
EXTENDS TTLCache

CONSTANTS
  Caller,
  Core,          \* batch 1: the APIs listed for every project
  ListClusters,  \* the one of them that finds GKE clusters
  PerCluster,    \* batch 2: those listed when batch 1 found a cluster
  Signals,       \* batch 3: traces
  Mesh,          \* batch 3: those listed when batch 1 found a cluster
  TellsCut,      \* the APIs whose truncation is put among the errors
  Reply,         \* bound: what a listing may come to by itself
  graphTimeout,
  LastArrival    \* bound: no call begins later than this

ASSUME GraphAssumption ==
  /\ ListClusters \in Core
  /\ Reply \subseteq {"ok", "failed", "cut"}
  /\ graphTimeout \in Nat \ {0}
  /\ LastArrival \in Nat

VARIABLES
  call,     \* caller -> the local state of its running call
  flight    \* key -> the collection under way for it

vars == <<cacheVars, call, flight>>

Api == Core \cup PerCluster \cup Signals \cup Mesh

(* failed: an error, of the call or of one of its regions; cut: the list   *)
(* stopped at its budget (Truncated) without an error; aborted: the        *)
(* context of the collection ended under the call.                         *)
Outcome == Reply \cup {"aborted"}

(* The graph, as far as it matters here: what became of each listing. *)
Graph == UNION {[apis -> Outcome] : apis \in SUBSET Api}

(* graph.Errors: of the listings cut short only iam.serviceAccounts is     *)
(* mentioned (archgraph.go:573).                                           *)
Errors(graph) ==
  {api \in DOMAIN graph :
     graph[api] \in {"failed", "aborted"} \/ (graph[api] = "cut" /\ api \in TellsCut)}

CallPC == {"get", "cleanup", "join", "wait", "graph", "failed"}
Stage == {"start", "get", "cleanup", "batch1", "batch2", "batch3", "resolved", "graph", "failed"}

CallState == [pc: CallPC, key: Key, read: Nat, live: BOOLEAN]

FlightState == [stage: Stage, waiters: SUBSET Caller, read: Nat,
                deadline: Nat, clusters: BOOLEAN, graph: Graph]

Init ==
  /\ CacheInit
  /\ call = <<>>
  /\ flight = <<>>

At(c, pc) == c \in DOMAIN call /\ call[c].pc = pc
In(k, stage) == k \in DOMAIN flight /\ flight[k].stage = stage
CallTo(c, pc) == call' = [call EXCEPT ![c].pc = pc, ![c].read = 0]
FlightTo(k, stage) == flight' = [flight EXCEPT ![k].stage = stage, ![k].read = 0]

-----------------------------------------------------------------------------
(* A call comes in with a valid request and a live context; graphCache.get *)
(* reads the clock.                                                        *)
ExportArchitectureGraph(c, k) ==
  /\ c \notin DOMAIN call
  /\ clock <= LastArrival
  /\ call' = Store(call, c, [pc |-> "get", key |-> k, read |-> clock, live |-> TRUE])
  /\ UNCHANGED <<cacheVars, flight>>

(* The caller's context ends: it disconnects, or its deadline passes. *)
ContextEnds(c) ==
  /\ c \in DOMAIN call /\ call[c].live
  /\ call' = [call EXCEPT ![c].live = FALSE]
  /\ UNCHANGED <<cacheVars, flight>>

Get(c) ==
  LET k == call[c].key
      read == call[c].read
  IN  /\ At(c, "get")
      /\ \/ lookupHits(k, read) /\ CallTo(c, "graph")
         \/ lookupStale(k, read) /\ CallTo(c, "cleanup")
         \/ lookupMisses(k) /\ CallTo(c, "join")
      /\ UNCHANGED <<cacheVars, flight>>

Cleanup(c) ==
  LET k == call[c].key
  IN  /\ At(c, "cleanup")
      /\ \/ cleanupHits(k) /\ CallTo(c, "graph") /\ UNCHANGED cache
         \/ cleanup(k) /\ CallTo(c, "join")
      /\ UNCHANGED <<clock, flight>>

NewFlight(c) ==
  [stage |-> "start", waiters |-> {c}, read |-> 0, deadline |-> 0,
   clusters |-> FALSE, graph |-> <<>>]

(* doSharedCall: group.DoChan starts the collection, or joins the one      *)
(* under way, however far that is.                                         *)
Join(c) ==
  LET k == call[c].key
  IN  /\ At(c, "join")
      /\ IF ~call[c].live
           THEN CallTo(c, "failed") /\ UNCHANGED flight
           ELSE /\ CallTo(c, "wait")
                /\ flight' = IF k \in DOMAIN flight
                             THEN [flight EXCEPT ![k].waiters = @ \cup {c}]
                             ELSE Store(flight, k, NewFlight(c))
      /\ UNCHANGED cacheVars

(* A waiter whose context ended need not wait for the others. *)
GiveUp(c) ==
  LET k == call[c].key
  IN  /\ At(c, "wait") /\ ~call[c].live
      /\ CallTo(c, "failed")
      /\ flight' = [flight EXCEPT ![k].waiters = @ \ {c}]
      /\ UNCHANGED cacheVars

Return(c) ==
  /\ At(c, "graph") \/ At(c, "failed")
  /\ call' = Without(call, c)
  /\ UNCHANGED <<cacheVars, flight>>

-----------------------------------------------------------------------------
(* The goroutine of the flight: the cache may have been filled since the   *)
(* leader looked.                                                          *)
StartFlight(k) ==
  /\ In(k, "start")
  /\ flight' = [flight EXCEPT ![k].stage = "get", ![k].read = clock]
  /\ UNCHANGED <<cacheVars, call>>

(* collectArchitectureGraph: outerCtx gets its deadline, batch 1 starts. *)
Collect(k) ==
  flight' = [flight EXCEPT ![k].stage = "batch1", ![k].read = 0, ![k].deadline = clock + graphTimeout]

(* Mutant of FlightGet: the cache is not looked at again. *)
FlightGetNothing(k) ==
  /\ In(k, "get")
  /\ Collect(k)
  /\ UNCHANGED <<cacheVars, call>>

FlightGet(k) ==
  /\ In(k, "get")
  /\ \/ /\ lookupHits(k, flight[k].read)
        /\ flight' = [flight EXCEPT ![k].stage = "graph", ![k].read = 0, ![k].graph = cache[k].value]
     \/ lookupStale(k, flight[k].read) /\ FlightTo(k, "cleanup")
     \/ lookupMisses(k) /\ Collect(k)
  /\ UNCHANGED <<cacheVars, call>>

FlightCleanup(k) ==
  /\ In(k, "cleanup")
  /\ \/ /\ cleanupHits(k)
        /\ flight' = [flight EXCEPT ![k].stage = "graph", ![k].read = 0, ![k].graph = cache[k].value]
        /\ UNCHANGED cache
     \/ cleanup(k) /\ Collect(k)
  /\ UNCHANGED <<clock, call>>

(* The listings that run in the current batch. *)
Batch(k) ==
  CASE flight[k].stage = "batch1" -> Core
    [] flight[k].stage = "batch2" -> IF flight[k].clusters THEN PerCluster ELSE {}
    [] flight[k].stage = "batch3" -> Signals \cup (IF flight[k].clusters THEN Mesh ELSE {})
    [] OTHER -> {}

Running(k) == IF k \in DOMAIN flight THEN Batch(k) \ DOMAIN flight[k].graph ELSE {}

(* Mutants of Ended: the collection ends with the context of a caller, and *)
(* it has no deadline.                                                     *)
EndedWithCaller(k) ==
  clock >= flight[k].deadline \/ \E c \in flight[k].waiters : ~call[c].live

EndedNever(k) == FALSE

(* outerCtx.Err(): context.WithoutCancel leaves the deadline only. *)
Ended(k) == clock >= flight[k].deadline

ListingReturns(k, api) ==
  /\ api \in Running(k)
  /\ \E reply \in Reply, found \in BOOLEAN :
       /\ found => api = ListClusters /\ reply # "failed"
       /\ flight' = [flight EXCEPT ![k].graph = Store(@, api, reply),
                                   ![k].clusters = @ \/ found]
  /\ UNCHANGED <<cacheVars, call>>

ListingAborted(k, api) ==
  /\ api \in Running(k) /\ Ended(k)
  /\ flight' = [flight EXCEPT ![k].graph = Store(@, api, "aborted")]
  /\ UNCHANGED <<cacheVars, call>>

(* Mutant of AfterBatch: the last batch is not checked. *)
AfterBatchUnchecked(k) ==
  CASE flight[k].stage = "batch3" -> "resolved"
    [] Ended(k) -> "failed"
    [] flight[k].stage = "batch1" -> "batch2"
    [] OTHER -> "batch3"

(* Wait, then outerCtx.Err(): batch 2 is skipped when it has nothing to do.*)
AfterBatch(k) ==
  CASE Ended(k) /\ ~(flight[k].stage = "batch2" /\ Batch(k) = {}) -> "failed"
    [] flight[k].stage = "batch1" -> "batch2"
    [] flight[k].stage = "batch2" -> "batch3"
    [] OTHER -> "resolved"

BatchDone(k) ==
  /\ k \in DOMAIN flight /\ flight[k].stage \in {"batch1", "batch2", "batch3"}
  /\ Running(k) = {}
  /\ FlightTo(k, AfterBatch(k))
  /\ UNCHANGED <<cacheVars, call>>

CacheGraph(k) ==
  /\ In(k, "resolved")
  /\ set(k, flight[k].graph)
  /\ FlightTo(k, "graph")
  /\ UNCHANGED <<clock, call>>

(* singleflight forgets the key and hands the result to all who wait.      *)
Deliver(k) ==
  /\ k \in DOMAIN flight /\ flight[k].stage \in {"graph", "failed"}
  /\ call' = [c \in DOMAIN call |-> IF c \in flight[k].waiters
                                    THEN [call[c] EXCEPT !.pc = flight[k].stage] ELSE call[c]]
  /\ flight' = Without(flight, k)
  /\ UNCHANGED cacheVars

(* Time passes until the last call arrives, and then as long as some       *)
(* collection waits for its deadline.                                      *)
Tick ==
  /\ clock < LastArrival \/ \E k \in Key : Running(k) # {} /\ ~(clock >= flight[k].deadline)
  /\ clock' = clock + 1
  /\ UNCHANGED <<cache, call, flight>>

CallStep(c) == Get(c) \/ Cleanup(c) \/ Join(c) \/ GiveUp(c) \/ Return(c)

FlightStep(k) ==
  \/ StartFlight(k) \/ FlightGet(k) \/ FlightCleanup(k)
  \/ \E api \in Api : ListingAborted(k, api)
  \/ BatchDone(k) \/ CacheGraph(k) \/ Deliver(k)

Next ==
  \/ \E c \in Caller : (\E k \in Key : ExportArchitectureGraph(c, k)) \/ ContextEnds(c) \/ CallStep(c)
  \/ \E k \in Key : FlightStep(k) \/ \E api \in Api : ListingReturns(k, api)
  \/ Tick

Spec == Init /\ [][Next]_vars

(* The server's own code runs and time passes; no remote API need answer.  *)
FairSpec ==
  /\ Spec
  /\ \A c \in Caller : WF_vars(CallStep(c))
  /\ \A k \in Key : WF_vars(FlightStep(k))
  /\ WF_vars(Tick)

-----------------------------------------------------------------------------
CacheTypeOK ==
  /\ DOMAIN cache \subseteq Key
  /\ cache \in [DOMAIN cache -> [value: Graph, expiresAt: Nat]]
  /\ clock \in Nat

FlightTypeOK ==
  /\ DOMAIN flight \subseteq Key
  /\ flight \in [DOMAIN flight -> FlightState]

TypeOK ==
  /\ CacheTypeOK
  /\ DOMAIN call \subseteq Caller /\ call \in [DOMAIN call -> CallState]
  /\ FlightTypeOK

(* A graph whose listings were aborted by the end of the collection is     *)
(* never kept for later callers: whatever the errors of a cached graph     *)
(* say, an API really failed (archgraph.go:594, 707, 762).                 *)
NoAbortedListingCached ==
  \A k \in DOMAIN cache : \A api \in DOMAIN cache[k].value : cache[k].value[api] # "aborted"

(* The cache holds at most c.max graphs, whoever fills it. *)
CacheBounded == Cardinality(DOMAIN cache) <= MaxEntries

(* No collection, of up to two minutes of API calls, starts while a graph  *)
(* is there that has not expired: not even when the leader's first look    *)
(* came before the graph was filled in (archgraph.go:39).                  *)
NoCollectionWhileFresh ==
  [][\A k \in Key : In(k, "batch1")' /\ ~In(k, "batch1") => ~FreshAt(k, clock)]_vars

(* cache.go:46 "a concurrent refresh cannot be deleted based on the stale  *)
(* entry": a graph goes when it has expired or, to make room for another,  *)
(* as the one that would expire first.                                     *)
FreshStays ==
  [][\A k \in DOMAIN cache \ DOMAIN cache' :
       \/ clock >= cache[k].expiresAt
       \/ /\ Cardinality(DOMAIN cache) >= MaxEntries
          /\ \E l \in DOMAIN cache' \ DOMAIN cache : In(l, "resolved")
          /\ \A l \in DOMAIN cache : cache[k].expiresAt <= cache[l].expiresAt]_vars

(* cache.go:86 "allowing each waiter to honor its own cancellation": who   *)
(* still waits is turned away only when the collection used up its own     *)
(* time, never because another caller left.                                *)
OnlyOwnCancellation ==
  [][\A c \in Caller :
       At(c, "wait") /\ call[c].live /\ At(c, "failed")' =>
         clock >= flight[call[c].key].deadline]_vars

(* Every call is answered, though no API ever answers.                     *)
Answered == \A c \in Caller : c \in DOMAIN call ~> c \notin DOMAIN call
=============================================================================
