------------------------------ MODULE ToolServer ------------------------------
(***************************************************************************)
(* A process of the server from its command line to its answers: the flag   *)
(* --modules is parsed, the adapter opens the clients those modules need,   *)
(* the tools of those modules are offered, and requests run their calls     *)
(* with whatever each call meets. One request runs at a time; requests      *)
(* share the clients and the cache of regions.                              *)
(***************************************************************************)
EXTENDS ToolCatalog, AdapterClients, FiniteSets

CONSTANTS
  Settings,  \* what the process may be started with
  MaxCached  \* bound: lists of regions that are kept at once

VARIABLES
  settings,  \* [all, names: the flag; recommender, cost, export: switches;
             \* ownProject: whether billing exports are queried in the server's project]
  process,   \* "opening", "serving", "usage", "settings" or "client" (why it ended)
  open,      \* the clients that are open
  regions,   \* regionsCache: where a list is from and whether it warns, by client
  request    \* lost: "told", and the outcomes that were passed over in silence

vars == <<settings, process, open, regions, request>>

Idle == [phase |-> "idle", tool |-> "none", at |-> 1, lost |-> {}, guessed |-> FALSE]

selected == Selection(settings.all, settings.names)
costModuleEnabled == settings.cost /\ Enabled(selected, "cost")
wanted == ClientsToOpen(selected, settings.recommender, costModuleEnabled)

(* Mutant of Discovery: the list is kept without its warning.               *)
DiscoveryUnmarked(outcome) == [fallback |-> outcome # "whole", warning |-> FALSE]

(* discoverRegions. Failure, cancellation and a missing client all leave    *)
(* the list of likely regions with a warning, and that is kept as long as   *)
(* a real list.                                                             *)
Discovery(outcome) == [fallback |-> outcome # "whole", warning |-> outcome # "whole"]

Init ==
  /\ settings \in Settings
  /\ process = IF settings.all \/ parseModulesFlag(settings.names) THEN "opening" ELSE "usage"
  /\ open = {}
  /\ regions = [client \in {} |-> Discovery("whole")]
  /\ request = Idle

-----------------------------------------------------------------------------
(* New: the settings are validated, then each client is opened in turn; the *)
(* first error closes what is open and ends the process.                    *)
RejectSettings ==
  /\ process = "opening" /\ open = {}
  /\ ~validateAdapterSettings(selected)
  /\ process' = "settings"
  /\ UNCHANGED <<settings, open, regions, request>>

OpenClient ==
  /\ process = "opening"
  /\ validateAdapterSettings(selected)
  /\ \E client \in NextToOpen(wanted, open) : open' = open \cup {client}
  /\ UNCHANGED <<settings, process, regions, request>>

FailToOpen ==
  /\ process = "opening"
  /\ validateAdapterSettings(selected)
  /\ \E client \in NextToOpen(wanted, open) : connection(client, settings.ownProject) \notin open
  /\ process' = "client"
  /\ open' = open \ closeClients(open, settings.ownProject)
  /\ UNCHANGED <<settings, regions, request>>

Serve ==
  /\ process = "opening"
  /\ validateAdapterSettings(selected)
  /\ wanted \subseteq open
  /\ process' = "serving"
  /\ UNCHANGED <<settings, open, regions, request>>

-----------------------------------------------------------------------------
(* FilteredRegistry: the tools of the selected modules; two modules are     *)
(* there only if they are configured. Resources are always there.           *)
Offered(tool) ==
  LET module == Catalog[tool].module
  IN  \/ module = "_resources"
      \/ /\ Enabled(selected, module)
         /\ module = "cost" => costModuleEnabled
         /\ module = "recommender_export" => settings.export

Start(tool) ==
  /\ process = "serving" /\ request.phase = "idle"
  /\ Offered(tool)
  /\ request' = [Idle EXCEPT !.phase = "running", !.tool = tool]
  /\ UNCHANGED <<settings, process, open, regions>>

operation == Catalog[request.tool].operation
Running == process = "serving" /\ request.phase = "running"
AtCall == Running /\ request.at <= Len(operation)
call == operation[request.at]

(* An optional part that the arguments do not ask for.                      *)
SkipPart ==
  /\ AtCall /\ call.asked > 0
  /\ request' = [request EXCEPT !.at = @ + call.asked]
  /\ UNCHANGED <<settings, process, open, regions>>

After(outcome) ==
  LET effect == EffectOf(call, outcome)
      next   == [request EXCEPT !.at = @ + 1 + Skipped(call, outcome)]
  IN  CASE effect = "none"  -> next
        [] effect = "panic" -> [request EXCEPT !.phase = "panicked"]
        [] effect = "fail"  -> [request EXCEPT !.phase = "failed"]
        [] effect = "empty" -> [request EXCEPT !.phase = "answered", !.lost = @ \cup {outcome}]
        [] OTHER            -> [next EXCEPT !.lost = @ \cup {IF effect = "told" THEN "told" ELSE outcome}]

Meet(outcome) ==
  /\ AtCall /\ ~call.kept
  /\ outcome \in Outcomes(call, open \cup {"K8s"})
  /\ request' = After(outcome)
  /\ UNCHANGED <<settings, process, open, regions>>

-----------------------------------------------------------------------------
(* A list in the cache is used as it is, and asks nothing of the API.       *)
Discovered == call.client \in DOMAIN regions

(* Of more than MaxCached lists an older one has expired.                   *)
Remember(outcome) ==
  IF Discovered THEN {regions}
  ELSE {[c \in clients \cup {call.client} |->
           IF c = call.client THEN Discovery(outcome) ELSE regions[c]] :
             clients \in {old \in SUBSET DOMAIN regions :
                            Cardinality(old) = IF Cardinality(DOMAIN regions) < MaxCached
                                               THEN Cardinality(DOMAIN regions) ELSE MaxCached - 1}}

(* The list is needed unless the request names a region; as it is needed,   *)
(* its warning goes into the answer.                                        *)
UseRegions(discovery) ==
  [After(IF discovery.warning THEN "failed" ELSE "whole") EXCEPT !.guessed = @ \/ discovery.fallback]

Discover(outcome) ==
  /\ AtCall /\ call.kept
  /\ outcome \in IF Discovered THEN {"whole"} ELSE Outcomes(call, open)
  /\ IF EffectOf(call, outcome) = "empty"
     THEN /\ request' = After(outcome)
          /\ regions' = regions
     ELSE /\ regions' \in Remember(outcome)
          /\ request' \in {[request EXCEPT !.at = @ + 1]} \cup
               (IF call.failed = "none" THEN {} ELSE {UseRegions(regions'[call.client])})
  /\ UNCHANGED <<settings, process, open>>

Reply ==
  /\ request.phase \in {"answered", "failed"}
  /\ request' = Idle
  /\ UNCHANGED <<settings, process, open, regions>>

Expire(client) ==
  /\ client \in DOMAIN regions
  /\ regions' = [c \in DOMAIN regions \ {client} |-> regions[c]]
  /\ UNCHANGED <<settings, process, open, request>>

(* The caller leaves; a discovery it was waiting for has failed.            *)
Cancel ==
  /\ Running
  /\ request' = [request EXCEPT !.phase = "failed"]
  /\ regions' \in {regions} \cup
       (IF AtCall /\ call.kept /\ call.client \in open THEN Remember("failed") ELSE {})
  /\ UNCHANGED <<settings, process, open>>

Answer ==
  /\ Running /\ request.at > Len(operation)
  /\ request' = [request EXCEPT !.phase = "answered"]
  /\ UNCHANGED <<settings, process, open, regions>>

-----------------------------------------------------------------------------
Proceed ==
  \/ SkipPart
  \/ \E outcome \in Outcome : Meet(outcome)
  \/ \E outcome \in Outcome : Discover(outcome)
  \/ Answer

Next ==
  \/ RejectSettings \/ OpenClient \/ FailToOpen \/ Serve
  \/ \E tool \in DOMAIN Catalog : Start(tool)
  \/ Proceed
  \/ Cancel \/ Reply
  \/ \E client \in DOMAIN regions : Expire(client)

Spec == Init /\ [][Next]_vars

-----------------------------------------------------------------------------
(* What the modules of a process need is open before their tools are        *)
(* offered: no call of any tool or resource meets a client that was never   *)
(* opened, whichever modules were selected, except the Recommender, which   *)
(* has its own switch. A client missing from moduleClientDeps would be a    *)
(* nil pointer at the first use of that tool, or an empty answer.           *)
ClientsSuffice == AtCall => call.client \in open \cup {"K8s", "Recommender"}

(* Tools that are known to lose something without a word; README.md names   *)
(* the line that drops it for each.                                         *)
LosesFailures ==
  {"gcp_get_aura_score", "gcp_project_aura_summary", "gcp_servicedirectory_list",
   "gcp_generate_architecture_diagram", "gcp_export_architecture_graph", "gcp_compare_environments",
   "gcp_incident_diagnose", "gcp_export_serverless_graph"}
LosesPages ==
  {"gcp_workflows_list_executions", "gcp_cloudrun_list_job_executions", "gcp_storage_list_buckets",
   "BucketList", "gcp_gke_get_mesh_topology", "gcp_gke_get_cluster_bottlenecks",
   "gcp_observability_coverage", "gcp_export_serverless_graph",
   "gcp_generate_architecture_diagram", "gcp_export_architecture_graph", "gcp_compare_environments",
   "gcp_incident_diagnose", "gcp_project_security_audit", "gcp_cost_explain"}

(* A call that failed makes the whole request fail or is told of in its     *)
(* answer, through all the operations a tool is composed of and whichever   *)
(* of their calls fail; so is a listing that stopped at a budget or left    *)
(* pages behind.                                                            *)
GapsAreTold ==
  request.phase = "answered" =>
    /\ "failed" \in request.lost => request.tool \in LosesFailures
    /\ "cut" \in request.lost => request.tool \in LosesPages

(* Regions that were guessed because their discovery failed, or because a   *)
(* caller left during it, are served from the cache to later requests; each *)
(* of those that lists with them says that it is partial.                   *)
GuessIsTold ==
  (request.phase = "answered" /\ request.guessed) => "told" \in request.lost

(* A start that fails, at whichever client it fails, closes whatever it had *)
(* opened and that can be closed, each connection once: also the one of     *)
(* every client that New opens but no selection names, and the one that two *)
(* clients share.                                                           *)
NothingLeftOpen ==
  [][process' = "client" /\ process # "client" =>
       \A client \in open \ services :
         \E closed \in open \ open' :
           /\ connection(closed, settings.ownProject) = connection(client, settings.ownProject)
           /\ \A other \in open \ open' :
                connection(other, settings.ownProject) = connection(client, settings.ownProject) => other = closed]_vars

(* Every list of modules the flag accepts starts, as far as its settings    *)
(* go: all but those with "serverlessgraph", which the flag's help and      *)
(* README.md offer and moduleClientDeps does not have.                      *)
AcceptedModulesStart == process = "settings" => "serverlessgraph" \in settings.names
=============================================================================
