------------------------------ MODULE Diagnostics ------------------------------
(***************************************************************************)
(* One diagnosis of an incident (internal/diagnostics/engine.go,            *)
(* collect.go): the services in scope are found, each is collected by a     *)
(* goroutine of its own as a slot gets free, each call of which may fail,   *)
(* be cut short or be ended by the deadline, and the answer is made of what *)
(* came in. A service is known by its place in the order of names.          *)
(***************************************************************************)
EXTENDS IncidentCauses, Sequences

CONSTANTS
  Situations, \* sequences of services [name, region, labelled, signals, dependencies]
  Requests,   \* [name, region, maxServices, maxDependencies, platform, limit]
  NoName,     \* a name or region that is not given
  Slots,      \* goroutines that collect at a time
  MaxLost     \* bound: collectors of one service that fail by themselves, or are cut

VARIABLES
  services,  \* what there is, and what is the matter with it
  request,
  listing,   \* what became of ListServices: "unused", "whole", "cut" or "failed"
  scope,     \* [phase, targets, confidence, warned]
  late,      \* the time budget of the diagnosis is used up
  worker,    \* target -> "waiting", "collecting", "checking" or "sent"
  data,      \* target -> what was collected
  answer     \* [status, causes]

ASSUME RequestsAssumption ==
  /\ \A there \in Situations : Len(there) \in Nat
  /\ \A asked \in Requests : asked.maxServices \in Nat

vars == <<services, request, listing, scope, late, worker, data, answer>>
situation == <<services, request>>

Unanswered == [status |-> "none", causes |-> {}]
NoScope == [phase |-> "open", targets |-> {}, confidence |-> "high", warned |-> FALSE]
Nothing ==
  [collected |-> FALSE, lost |-> {}, cut |-> {}, warned |-> FALSE, health |-> "skipped", blamed |-> 0]

Init ==
  /\ services \in Situations
  /\ request \in Requests
  /\ listing = "unused"
  /\ scope = NoScope
  /\ late = FALSE
  /\ worker = [t \in {} |-> "waiting"]
  /\ data = [t \in {} |-> Nothing]
  /\ answer = Unanswered

(* The time budget runs out at any moment.                                  *)
RunOut ==
  /\ ~late /\ answer.status = "none"
  /\ late' = TRUE
  /\ UNCHANGED <<situation, listing, scope, worker, data, answer>>

-----------------------------------------------------------------------------
(* What the request asks for, among services up to a place.                 *)
Matches(last) ==
  {t \in 1..last :
     /\ request.region \in {NoName, services[t].region}
     /\ IF request.name # NoName THEN services[t].name = request.name ELSE services[t].labelled}

First(targets, n) == {t \in targets : F!Quantify(targets, LAMBDA u : u <= t) <= n}

(* resolveScope on a listing up to a place.                                 *)
Scope(last) ==
  LET targets == First(Matches(last), request.maxServices)
      doubt   == IF request.name # NoName THEN Cardinality(targets) > 1
                 ELSE Cardinality(targets) = request.maxServices
  IN  [phase |-> IF targets # {} THEN "found" ELSE IF request.name # NoName THEN "unknown" ELSE "unclear",
       targets |-> targets,
       confidence |-> IF targets = {} THEN "low" ELSE IF doubt THEN "medium" ELSE "high",
       warned |-> targets = {} \/ doubt]

(* A service named with its region is not looked up, others are; a listing  *)
(* cut short is used like a whole one.                                      *)
ResolveScope ==
  /\ scope.phase = "open"
  /\ \E l \in IF request.name # NoName /\ request.region # NoName THEN {"unused"}
              ELSE {"failed"} \cup (IF late THEN {} ELSE {"whole", "cut"}) :
       /\ listing' = l
       /\ scope' = CASE l = "failed" -> [NoScope EXCEPT !.phase = "failed"]
                     [] l = "cut"    -> Scope(Len(services) - 1)
                     [] OTHER        -> Scope(Len(services))
       /\ worker' = [t \in scope'.targets |-> "waiting"]
       /\ data' = [t \in scope'.targets |-> Nothing]
  /\ UNCHANGED <<situation, late, answer>>

-----------------------------------------------------------------------------
Become(t, state, collected) ==
  /\ worker' = [worker EXCEPT ![t] = state]
  /\ data' = [data EXCEPT ![t] = collected]
  /\ UNCHANGED <<situation, listing, scope, late, answer>>

Busy == {t \in DOMAIN worker : worker[t] \in {"collecting", "checking"}}

(* With a free slot and no time left either may be chosen.                  *)
TakeSlot(t) ==
  /\ worker[t] = "waiting" /\ Cardinality(Busy) < Slots
  /\ Become(t, "collecting", data[t])

(* Mutant of GiveUp: the result says nothing of the deadline.               *)
GiveUpInSilence(t) ==
  /\ worker[t] = "waiting" /\ late
  /\ Become(t, "sent", data[t])

(* Mutant of GiveUp: the goroutine returns without a result.                *)
GiveUpWithoutResult(t) ==
  /\ worker[t] = "waiting" /\ late
  /\ Become(t, "gone", data[t])

GiveUp(t) ==
  /\ worker[t] = "waiting" /\ late
  /\ Become(t, "sent", [data[t] EXCEPT !.warned = TRUE])

Collectors ==
  {SeenBy[s] : s \in DOMAIN SeenBy \ {"platform_event"}} \cup {"dependency_topology"}
    \cup (IF request.platform THEN {"platform_health"} ELSE {})

(* Collectors run side by side and each fails alone, with the deadline all  *)
(* those that are still out.                                                *)
MayBeLost ==
  (UNION {F!kSubset(n, Collectors) : n \in 0..MaxLost}) \cup (IF late THEN {Collectors} ELSE {})

(* Metrics are cut to a number of series.                                   *)
Cuttable == {"request_and_error_rate", "latency_p99"}

(* collectService up to g.Wait. A metric that was cut counts as complete.   *)
Collect(t) ==
  /\ worker[t] = "collecting"
  /\ \E lost \in MayBeLost, cut \in {{}} \cup {{c} : c \in Cuttable} :
       /\ cut = {} \/ Cardinality(lost) < MaxLost
       /\ Become(t, IF "dependency_topology" \in lost THEN "sent" ELSE "checking",
                    [data[t] EXCEPT !.collected = TRUE, !.lost = lost, !.cut = cut])

-----------------------------------------------------------------------------
Listed == {"cloudsql_instance", "vpc_connector"}  \* checked against an inventory
Asked == {"pubsub_topic", "cloudrun_service"}     \* asked one by one

dependencies(t) ==
  LET all == services[t].dependencies
  IN  SubSeq(all, 1, IF Len(all) > request.maxDependencies THEN request.maxDependencies ELSE Len(all))

(* Mutant of Blamed: an inventory that was not read is like an empty one.   *)
BlamedForFailure(dependency, failed, partOfRegion) ==
  \/ dependency.state \in {"bad", "absent"}
  \/ dependency.kind \in Listed /\ failed
  \/ dependency.kind = "vpc_connector" /\ partOfRegion

(* What counts against a dependency. The errors that a listing of VPC       *)
(* connectors comes with are not looked at: who is not listed is missing.   *)
Blamed(dependency, failed, partOfRegion) ==
  /\ ~failed
  /\ \/ dependency.state \in {"bad", "absent"}
     \/ dependency.kind = "vpc_connector" /\ partOfRegion

(* The calls that may fail: one per inventory, one per other dependency.    *)
FailedCalls(t) ==
  {failed \in SUBSET DOMAIN dependencies(t) :
     /\ \A i \in failed : dependencies(t)[i].kind \in Listed \cup Asked
     /\ \A i, j \in DOMAIN dependencies(t) :
          dependencies(t)[i].kind = dependencies(t)[j].kind /\ dependencies(t)[i].kind \in Listed
            => (i \in failed <=> j \in failed)}

(* collectDependencyHealth.                                                 *)
CheckDependencies(t) ==
  /\ worker[t] = "checking"
  /\ \E failed \in FailedCalls(t), partOfRegion \in BOOLEAN :
       LET checked == dependencies(t)
           quiet   == {i \in DOMAIN checked : checked[i].kind = "cloudrun_service" /\ checked[i].state = "quiet"}
       IN  Become(t, "sent",
             [data[t] EXCEPT
                !.health = IF failed \cup quiet = {} THEN "complete" ELSE "partial",
                !.blamed = F!Quantify(DOMAIN checked, LAMBDA i : Blamed(checked[i], i \in failed, partOfRegion)),
                !.warned = Len(services[t].dependencies) > Len(checked)])

-----------------------------------------------------------------------------
(* What a metric that was cut short still shows is left open: nothing.      *)
Collected(t) ==
  IF data[t].collected THEN Seen(services[t].signals, data[t].lost \cup data[t].cut) ELSE {}

Worst == LET found == {Symptoms(Collected(t)) : t \in DOMAIN data}
         IN  IF "critical" \in found THEN "critical"
             ELSE IF "degraded" \in found THEN "degraded" ELSE "healthy"

(* Warnings and partial checks, as summarize counts them; a check that was  *)
(* skipped follows a warning or was not asked for.                          *)
Gaps(t) ==
  data[t].warned \/ data[t].lost # {} \/ data[t].health = "partial"

(* The engine waits for every goroutine, whatever the time.                 *)
Answer ==
  /\ scope.phase = "found" /\ answer.status = "none"
  /\ \A t \in DOMAIN worker : worker[t] = "sent"
  /\ answer' =
       [status |-> IF Worst = "healthy" /\ \E t \in DOMAIN data : Gaps(t) THEN "inconclusive" ELSE Worst,
        causes |-> rankRootCauses({[service |-> t, seen |-> Collected(t), blamed |-> data[t].blamed] :
                                     t \in DOMAIN data}, request.limit)]
  /\ UNCHANGED <<situation, listing, scope, late, worker, data>>

AnswerWithoutTargets ==
  /\ scope.phase \in {"failed", "unknown", "unclear"} /\ answer.status = "none"
  /\ answer' = [status |-> IF scope.phase = "unclear" THEN "needs_scope" ELSE "error", causes |-> {}]
  /\ UNCHANGED <<situation, listing, scope, late, worker, data>>

Work(t) == TakeSlot(t) \/ GiveUp(t) \/ Collect(t) \/ CheckDependencies(t)

Next ==
  \/ RunOut
  \/ ResolveScope
  \/ \E t \in DOMAIN worker : Work(t)
  \/ Answer
  \/ AnswerWithoutTargets

(* Calls end, at the latest with the deadline in their context.             *)
Fairness ==
  /\ WF_vars(ResolveScope) /\ WF_vars(Answer) /\ WF_vars(AnswerWithoutTargets)
  /\ WF_vars(\E t \in DOMAIN worker : Work(t))

Spec == Init /\ [][Next]_vars /\ Fairness

-----------------------------------------------------------------------------
(* engine.go:132 and summarize: "healthy" with high confidence means that   *)
(* no service the request asks for shows symptoms. What the code passes     *)
(* over in silence: metrics and listings cut short, and a name that is in   *)
(* several regions when one service is the limit.                           *)
PassedOver ==
  \/ listing = "cut"
  \/ request.name # NoName /\ request.maxServices = 1
  \/ \E t \in DOMAIN data : data[t].cut # {}
HealthyIsEarned ==
  (answer.status = "healthy" /\ scope.confidence = "high" /\ ~PassedOver) =>
    \A t \in Matches(Len(services)) : Symptoms(services[t].signals) = "healthy"

(* A dependency is the cause of an incident only if one is in trouble: no   *)
(* call that fails is taken for a failing dependency, which the tests ask   *)
(* for Pub/Sub (engine_test.go:261). The exception is a region of VPC       *)
(* connectors that could not be listed.                                     *)
BlameIsEarned ==
  \A cause \in answer.causes :
    cause.code = "dependency_failure" =>
      \E i \in DOMAIN dependencies(cause.service) :
        \/ dependencies(cause.service)[i].state \in {"bad", "absent"}
        \/ dependencies(cause.service)[i].kind = "vpc_connector"

(* Every diagnosis is answered, at the latest soon after the deadline.      *)
Answered == <>(answer.status # "none")
=============================================================================
