---------------------------- MODULE AdapterClients ----------------------------
(***************************************************************************)
(* Which clients of Google Cloud a selection of tool modules opens          *)
(* (gcp/modules.go), and which selections the two places that look at it    *)
(* accept (cmd/aura-tracker-gcp/main.go and gcp/client.go). A selection is  *)
(* what --modules was parsed to: all is the absent flag, Go's nil map.      *)
(***************************************************************************)
EXTENDS Integers, Sequences

moduleClientDeps ==
  [gke           |-> {"ClusterMgr", "Metric", "LogAdmin"},
   gke_workloads |-> {"ClusterMgr"},
   gke_mesh      |-> {"Metric", "LogAdmin"},
   networking    |-> {"Compute", "APIGateway"},
   cloudrun      |-> {"RunSvc", "RunRevisions", "RunJobs"},
   functions     |-> {"FunctionsV1", "RunSvc"},
   eventarc      |-> {"Eventarc"},
   scheduler     |-> {"Scheduler"},
   workflows     |-> {"Workflows", "WorkflowExec"},
   tasks         |-> {"Tasks"},
   secretmanager |-> {"SecretMgr", "RunSvc"},
   vpcaccess     |-> {"VPCAccess"},
   cloudsql      |-> {"SQLAdmin"},
   pubsub        |-> {"PubSub", "Metric"},
   logging       |-> {"LogAdmin"},
   monitoring    |-> {"Metric", "Trace", "MonitoringV3", "MonitoringV1"},
   iam           |-> {"CRM", "IAMAdmin"},
   topology      |-> {"RunSvc", "PubSub"},
   aura          |-> {"Metric", "RunSvc", "ClusterMgr", "GCS"},
   storage       |-> {"GCS"},
   datastores    |-> {"Spanner", "AlloyDB", "Firestore", "Memorystore"},
   supplychain   |-> {"ArtifactRegistry", "CloudBuild", "ServiceDirectory"},
   coverage      |-> {"RunSvc", "Metric", "Trace", "MonitoringV3", "LogAdmin"},
   archgraph     |-> {"RunSvc", "RunJobs", "FunctionsV1", "Eventarc", "Scheduler", "Workflows",
                      "WorkflowExec", "Tasks", "SecretMgr", "VPCAccess", "SQLAdmin", "PubSub",
                      "Spanner", "AlloyDB", "Firestore", "Memorystore", "ArtifactRegistry",
                      "CloudBuild", "ServiceDirectory", "Compute", "APIGateway", "IAMAdmin",
                      "ClusterMgr", "Metric", "Trace", "MonitoringV3", "LogAdmin"},
   tagging       |-> {"CRMv3"},
   incident      |-> {"RunSvc", "RunRevisions", "LogAdmin", "Metric", "PubSub", "SQLAdmin", "VPCAccess"},
   cost          |-> {"BQ", "Metric", "Asset"},
   security      |-> {"Asset", "IAMAdmin", "SecretMgr", "RunSvc", "FunctionsV1", "Compute",
                      "ClusterMgr", "CRMv3", "IAMv2", "GKEHub"},
   drift         |-> {"RunSvc", "RunRevisions", "RunJobs", "ClusterMgr", "Compute", "APIGateway",
                      "FunctionsV1", "Eventarc", "Scheduler", "Workflows", "Tasks", "SecretMgr",
                      "VPCAccess", "SQLAdmin", "PubSub", "GCS", "BQ", "Spanner", "AlloyDB",
                      "Firestore", "Memorystore", "ArtifactRegistry", "CloudBuild",
                      "ServiceDirectory", "MonitoringV3", "MonitoringV1", "IAMAdmin"},
   recommender_export |-> {"BQ"}]

(* The pseudo-module _resources: what the MCP resources read is always open. *)
resourceDeps == {"BQ", "GCS", "CRM", "RunSvc", "RunRevisions"}

(* mcp.AllModules, the tool modules that have a name of their own.          *)
AllModules ==
  {"gke", "cloudrun", "pubsub", "logging", "monitoring", "iam", "topology", "aura", "storage",
   "functions", "eventarc", "scheduler", "workflows", "tasks", "secretmanager", "vpcaccess",
   "cloudsql", "serverlessgraph", "gke_workloads", "gke_mesh", "networking", "datastores",
   "supplychain", "coverage", "archgraph", "tagging", "incident", "cost", "security", "drift"}

parseModulesFlag(names) == names \subseteq AllModules \cup {"recommender_export"}

Selection(all, only) == [all |-> all, only |-> only]

Enabled(selection, module) == selection.all \/ module \in selection.only

(* Mutant of validateAdapterSettings: what only the export tool selects is   *)
(* taken for a name that is internal, like _resources.                      *)
validateToolModules(selection) ==
  selection.all \/ selection.only \subseteq DOMAIN moduleClientDeps \cap AllModules

(* The part of validateAdapterSettings that looks at the modules.           *)
validateAdapterSettings(selection) ==
  selection.all \/ selection.only \subseteq DOMAIN moduleClientDeps

(* Mutant of neededClients: the resources' own clients are not added.       *)
neededByModules(selection) ==
  UNION {moduleClientDeps[m] : m \in {m \in DOMAIN moduleClientDeps : Enabled(selection, m)}}

neededClients(selection) ==
  resourceDeps
    \cup UNION {moduleClientDeps[m] : m \in {m \in DOMAIN moduleClientDeps : Enabled(selection, m)}}

(* New opens these: the executions client comes with the jobs client, the   *)
(* Recommender's and the one of the billing export's project have switches  *)
(* of their own.                                                            *)
ClientsToOpen(selection, enableRecommender, enableCostReasoning) ==
  neededClients(selection)
    \cup (IF "RunJobs" \in neededClients(selection) THEN {"RunExecs"} ELSE {})
    \cup (IF enableRecommender THEN {"Recommender"} ELSE {})
    \cup (IF enableCostReasoning THEN {"CostBQ"} ELSE {})

(* It opens them in this order, and gives up at the first that fails.       *)
openingOrder ==
  <<"ClusterMgr", "RunSvc", "RunRevisions", "RunJobs", "RunExecs", "FunctionsV1", "Eventarc",
    "Scheduler", "Workflows", "WorkflowExec", "Tasks", "SecretMgr", "Trace", "VPCAccess", "Compute",
    "APIGateway", "ArtifactRegistry", "CloudBuild", "ServiceDirectory", "MonitoringV3",
    "MonitoringV1", "IAMAdmin", "SQLAdmin", "PubSub", "LogAdmin", "Metric", "Recommender", "CRM",
    "CRMv3", "Asset", "IAMv2", "GKEHub", "BQ", "CostBQ", "GCS", "Spanner", "AlloyDB", "Firestore",
    "Memorystore">>

NextToOpen(wanted, open) ==
  {openingOrder[i] : i \in {i \in DOMAIN openingOrder :
     /\ openingOrder[i] \in wanted \ open
     /\ \A j \in 1..i - 1 : openingOrder[j] \notin wanted \ open}}

(* New makes these with NewService, as REST services over the one shared    *)
(* HTTP client, that have nothing to close. All others have a Close method. *)
services ==
  {"FunctionsV1", "Trace", "VPCAccess", "Compute", "APIGateway", "ArtifactRegistry", "CloudBuild",
   "ServiceDirectory", "MonitoringV3", "MonitoringV1", "IAMAdmin", "SQLAdmin", "CRM", "CRMv3",
   "Asset", "IAMv2", "GKEHub", "Spanner", "AlloyDB", "Firestore", "Memorystore"}

(* What a client is: the one of a billing export that is queried in the     *)
(* server's own project is the BigQuery client that is open already.        *)
(* Bound: billing exports are queried in one project.                       *)
connection(client, ownProject) == IF client = "CostBQ" /\ ownProject THEN "BQ" ELSE client

(* Mutant of closeClients: ownedCostClients is not looked at.               *)
closeCostClientsToo(open, ownProject) ==
  open \cap {"ClusterMgr", "RunSvc", "RunRevisions", "RunJobs", "RunExecs", "Eventarc", "Scheduler",
             "Workflows", "WorkflowExec", "Tasks", "SecretMgr", "PubSub", "LogAdmin", "Metric",
             "Recommender", "CostBQ", "BQ", "GCS"}

(* The clients whose Close is called.                                       *)
closeClients(open, ownProject) ==
  open \cap ({"ClusterMgr", "RunSvc", "RunRevisions", "RunJobs", "RunExecs", "Eventarc", "Scheduler",
              "Workflows", "WorkflowExec", "Tasks", "SecretMgr", "PubSub", "LogAdmin", "Metric",
              "Recommender"} \cup (IF ownProject THEN {} ELSE {"CostBQ"}) \cup {"BQ", "GCS"})
=============================================================================
