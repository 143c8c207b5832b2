---------------------------- MODULE IncidentCauses ----------------------------
(***************************************************************************)
(* What the diagnosis of an incident makes of what it collected on one      *)
(* service (internal/diagnostics/analyze.go, detectors.go). A signal is a   *)
(* comparison of the source that came out true: "slow" for a p99 latency of *)
(* twice the baseline, "many_logged" for fifty error entries, and so on.    *)
(***************************************************************************)
EXTENDS Integers, FiniteSets

F == INSTANCE FiniteSetsExt

(* The collector that a signal is seen by.                                  *)
SeenBy == [
  newest_serves     |-> "service_details",
  recent_revision   |-> "revision_history",
  baseline_revision |-> "revision_history",
  config_changed    |-> "revision_history",
  identity_changed  |-> "revision_history",
  errors_logged     |-> "error_logs",
  many_logged       |-> "error_logs",
  permission_denied |-> "error_logs",
  connection_lost   |-> "error_logs",
  deploy_audited    |-> "audit_changes",
  iam_changed       |-> "audit_changes",
  error_rate        |-> "request_and_error_rate",
  many_errors       |-> "request_and_error_rate",
  newest_fails      |-> "request_and_error_rate",
  older_fails       |-> "request_and_error_rate",
  slow              |-> "latency_p99",
  platform_event    |-> "platform_health"]

Seen(signals, lost) == {s \in signals : SeenBy[s] \notin lost}

-----------------------------------------------------------------------------
(* analyzeSymptoms, severeSymptoms.                                         *)
Symptoms(seen) ==
  IF seen \cap {"many_errors", "many_logged"} # {} THEN "critical"
  ELSE IF seen \cap {"error_rate", "errors_logged", "slow"} # {} THEN "degraded"
  ELSE "healthy"

(* The onset is the first error, logged or measured: taken to be as close   *)
(* to a recent revision in both.                                            *)
OnsetFollows(seen) ==
  "recent_revision" \in seen /\ seen \cap {"errors_logged", "error_rate"} # {}

-----------------------------------------------------------------------------
Weight(condition, weight) == IF condition THEN weight ELSE 0

DeploymentRegression(seen) ==
  IF seen \cap {"recent_revision", "baseline_revision"} = {} THEN 0
  ELSE Weight("recent_revision" \in seen, 30)
     + Weight("recent_revision" \notin seen, 15)
     + Weight(OnsetFollows(seen), 25)
     + Weight("newest_fails" \in seen, 25)
     + Weight("config_changed" \in seen, 15)
     + Weight("newest_serves" \in seen, 10)
     + Weight("deploy_audited" \in seen, 10)
     - Weight("older_fails" \in seen, 25)

IAMRegression(seen) ==
  IF seen \cap {"permission_denied", "identity_changed"} = {} THEN 0
  ELSE Weight("permission_denied" \in seen, 35)
     + Weight("identity_changed" \in seen, 25)
     + Weight("iam_changed" \in seen, 30)

(* blamed: how many dependencies were found to have an issue.               *)
DependencyFailure(seen, blamed) ==
  IF blamed = 0 THEN 0
  ELSE 55 + 10 * (blamed - 1) + Weight("connection_lost" \in seen, 20)

PlatformIncident(seen) == Weight("platform_event" \in seen, 75)

(* An error entry has a text, which is the dominant pattern or shares it.   *)
ApplicationFailure(seen) ==
  Weight("error_rate" \in seen, 30) + Weight("errors_logged" \in seen, 25 + 20)

LatencyRegression(seen) ==
  IF "slow" \notin seen THEN 0 ELSE 50 + Weight("error_rate" \in seen, 15)

(* finish: a score is kept within 0..100, and below 20 there is no cause.   *)
Score(raw) == IF raw < 20 THEN 0 ELSE IF raw > 100 THEN 100 ELSE raw

Detected(seen, blamed) ==
  LET scores == [
        application_failure   |-> Score(ApplicationFailure(seen)),
        dependency_failure    |-> Score(DependencyFailure(seen, blamed)),
        deployment_regression |-> Score(DeploymentRegression(seen)),
        iam_regression        |-> Score(IAMRegression(seen)),
        latency_regression    |-> Score(LatencyRegression(seen)),
        platform_incident     |-> Score(PlatformIncident(seen))]
  IN  IF Symptoms(seen) = "healthy" THEN {}
      ELSE {[code |-> code, score |-> scores[code]] : code \in {c \in DOMAIN scores : scores[c] > 0}}

-----------------------------------------------------------------------------
(* The codes in alphabetical order, which breaks ties.                      *)
CodeOrder == [
  application_failure |-> 1, dependency_failure |-> 2, deployment_regression |-> 3,
  iam_regression |-> 4, latency_regression |-> 5, platform_incident |-> 6,
  unclassified_incident |-> 7]

RanksBefore(a, b) ==
  \/ a.score > b.score
  \/ a.score = b.score /\ a.service < b.service
  \/ a.score = b.score /\ a.service = b.service /\ CodeOrder[a.code] < CodeOrder[b.code]

(* rankRootCauses: services are numbered in the order of their names. Only  *)
(* if no detector found anything on any service is a cause unclassified.    *)
rankRootCauses(data, limit) ==
  LET detected == UNION {{[service |-> d.service, code |-> found.code, score |-> found.score] :
                            found \in Detected(d.seen, d.blamed)} : d \in data}
      unknown  == {[service |-> d.service, code |-> "unclassified_incident", score |-> 25] :
                     d \in {e \in data : Symptoms(e.seen) # "healthy"}}
      causes   == IF detected = {} THEN unknown ELSE detected
  IN  {c \in causes : F!Quantify(causes, LAMBDA d : RanksBefore(d, c)) < limit}
=============================================================================
