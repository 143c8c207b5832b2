----------------------------- MODULE MCDiagnostics -----------------------------
(* Diagnostics of a shop in two regions and of a service without label, sound, *)
(* failing after a deployment, slow, or with dependencies in trouble.          *)
EXTENDS Diagnostics

CONSTANTS shop, web, eu, us

Service(name, region, labelled, signals, uses) ==
  [name |-> name, region |-> region, labelled |-> labelled, signals |-> signals, dependencies |-> uses]
Uses(kind, state) == [kind |-> kind, state |-> state]

Failing == {"recent_revision", "config_changed", "identity_changed", "newest_serves", "newest_fails",
            "deploy_audited", "iam_changed", "error_rate", "many_errors", "errors_logged",
            "permission_denied", "platform_event"}
Disconnected == {"baseline_revision", "older_fails", "errors_logged", "many_logged", "connection_lost"}

MCSituations ==
  {<<Service(shop, eu, TRUE, a, <<Uses("cloudsql_instance", "good"), Uses("pubsub_topic", "good")>>),
     Service(shop, us, TRUE, b, <<>>)>> : a \in {{}, Failing, {"slow"}}, b \in {{}, {"error_rate", "slow"}}}
  \cup
  {<<Service(shop, eu, TRUE, Disconnected, <<Uses(kind, state), Uses("vpc_connector", "good")>>),
     Service(web, eu, labelled, {"errors_logged"}, <<Uses("cloudrun_service", "quiet")>>)>> :
       kind \in {"cloudsql_instance", "external_db"}, state \in {"good", "bad"}, labelled \in BOOLEAN}

Request0 ==
  [name |-> NoName, region |-> NoName, maxServices |-> 3, maxDependencies |-> 2, platform |-> TRUE, limit |-> 3]
MCRequests ==
  {Request0,
   [Request0 EXCEPT !.maxServices = 1, !.platform = FALSE],
   [Request0 EXCEPT !.region = us],
   [Request0 EXCEPT !.name = shop, !.maxDependencies = 1],
   [Request0 EXCEPT !.name = shop, !.region = eu, !.limit = 10],
   [Request0 EXCEPT !.name = web, !.maxServices = 1]}
=============================================================================
