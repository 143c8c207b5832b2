--------------------------- MODULE AdapterOperations ---------------------------
(***************************************************************************)
(* The read operations of internal/gcp, each as the calls it makes (see     *)
(* AdapterStages). The wait for the rate limiter before a call and the      *)
(* deadline of the operation end it the way the call's own failure does.    *)
(***************************************************************************)
EXTENDS AdapterStages

(* The Kubernetes API of a cluster, dialled by each operation that reads it: *)
(* a client that is never missing.                                          *)
K8sAPI == Call("K8s")
dialK8s == <<Call("ClusterMgr")>>

-----------------------------------------------------------------------------
(* Regional listers. The failure of discoverRegions leaves a list of likely *)
(* regions and a warning, and both stay in the cache of regions; where the  *)
(* request names a region neither is used. Each region's failure, and the   *)
(* region that reached its share of the budget, is noted in Errors.         *)
discoverRegions(client) == <<Kept(Noted(client))>>
regionalListing(client) == <<Paged(Noted(client))>>

ListTriggers      == discoverRegions("Eventarc") \o regionalListing("Eventarc")
ListSchedulerJobs == discoverRegions("Scheduler") \o regionalListing("Scheduler")
ListWorkflows     == discoverRegions("Workflows") \o regionalListing("Workflows")
ListTaskQueues    == discoverRegions("Tasks") \o regionalListing("Tasks")

(* Without its client it answers at once that there is none; it reads every *)
(* page of a region.                                                        *)
ListVPCConnectors ==
  <<Kept(IfFailed(OrEmpty("VPCAccess"), "told")), IfFailed(Call("VPCAccess"), "told")>>

(* The request names a region: the discovery is made and not used.          *)
InRegion(op) == [op EXCEPT ![1].failed = "none"]

GetTrigger             == <<Guarded("Eventarc")>>
ListWorkflowExecutions == <<IfCut(OrEmpty("WorkflowExec"), "silent")>>

ListSecrets == <<Paged(OrEmpty("SecretMgr"))>> \o WhenAsked(<<Paged(Noted("RunSvc"))>>)

ListSQLInstances == <<OrEmpty("SQLAdmin")>>

listFunctionsV1     == <<Paged(Guarded("FunctionsV1"))>>
listFunctionsV2     == <<Paged(Guarded("RunSvc"))>>
ListFunctions       == WhenAsked(listFunctionsV1) \o WhenAsked(listFunctionsV2)
GetFunctionDetails  == WhenAsked(<<Guarded("RunSvc")>>) \o WhenAsked(<<Guarded("FunctionsV1")>>)

-----------------------------------------------------------------------------
(* Cloud Run.                                                               *)
(* Mutant of ListServices: the page token is not put into the answer.       *)
ListServicesUnpaged == <<IfCut(Call("RunSvc"), "silent")>>

ListServices      == <<Paged(Call("RunSvc"))>>
ListJobs          == <<Paged(Call("RunJobs"))>>
GetJobDetails     == <<Call("RunJobs")>>
ListJobExecutions == <<IfCut(Call("RunExecs"), "silent")>>
GetServiceDetails == <<Call("RunSvc")>>
ListRevisions     == <<Paged(Call("RunRevisions"))>>

-----------------------------------------------------------------------------
(* Storage, messages and data.                                              *)
ListDatasets   == <<Paged(Call("BQ")), IfFailed(Call("BQ"), "told")>>
ListTables     == <<Paged(Call("BQ")), IfFailed(Call("BQ"), "told")>>
GetTableSchema == <<Paged(Call("BQ"))>>

checkedBucketAttrs == <<Guarded("GCS"), Guarded("CRM")>>
ListBuckets        == <<IfCut(Call("GCS"), "silent")>>
ListBucketObjects  == checkedBucketAttrs \o <<Paged(Call("GCS"))>>
GetBucketMetadata  == checkedBucketAttrs

ListTopics         == <<Paged(IfFailed(Call("PubSub"), "told")), Paged(Call("PubSub"))>>
InspectTopicHealth ==
  <<Call("PubSub"), Paged(IfFailed(Call("PubSub"), "told")), Paged(Noted("Metric"))>>
ListSubscriptions  == <<Paged(OrEmpty("PubSub")), IfFailed(Call("PubSub"), "told")>>

ListSpannerInstances     == <<OrEmpty("Spanner")>>
ListAlloyDBClusters      == <<OrEmpty("AlloyDB")>>
ListFirestoreDatabases   == <<OrEmpty("Firestore")>>
ListMemorystoreInstances == <<OrEmpty("Memorystore")>>

ListArtifactRegistryRepos     == <<OrEmpty("ArtifactRegistry")>>
ListArtifactRegistryImages    == <<OrEmpty("ArtifactRegistry")>>
ListCloudBuildTriggers        == <<OrEmpty("CloudBuild")>>
ListServiceDirectoryNamespaces ==
  <<OrEmpty("ServiceDirectory"), IfFailed(Call("ServiceDirectory"), "silent")>>

-----------------------------------------------------------------------------
(* Networking, tags and IAM.                                                *)
ListLoadBalancers ==
  WhenAsked(<<Paged(Call("Compute"))>>) \o WhenAsked(<<Paged(Call("Compute"))>>)
ListURLMaps      == WhenAsked(<<Paged(Call("Compute"))>>) \o WhenAsked(<<Paged(Call("Compute"))>>)
ListNEGs         == <<Paged(Call("Compute"))>>
ListAPIGateways  == <<Paged(Call("APIGateway"))>>
ListVPCNetworks  == <<Paged(Call("Compute"))>>
ListVPCSubnets   == <<Paged(Call("Compute"))>>
ListPSCEndpoints == <<Paged(Call("Compute"))>>

ListTaggedResources == <<Paged(Call("CRMv3"))>>

(* A URN of a bucket or of the project; any other is refused.               *)
GetResourceIAMBindings == WhenAsked(<<Guarded("GCS")>> \o checkedBucketAttrs) \o WhenAsked(<<Guarded("CRM")>>)
ListServiceAccounts    == <<Paged(OrEmpty("IAMAdmin"))>>
TestPermissions        == <<Call("CRM")>>

-----------------------------------------------------------------------------
(* Logs, metrics and traces.                                                *)
QueryRecentLogs == <<Paged(Call("LogAdmin"))>>

ListAlertPolicies     == <<Paged(OrEmpty("MonitoringV3"))>>
ListUptimeChecks      == <<OrEmpty("MonitoringV3")>>
ListSLOs              == <<OrEmpty("MonitoringV3"), Guarded("MonitoringV3")>>
ListDashboards        == <<OrEmpty("MonitoringV1")>>
ListMetricDescriptors == <<Paged(Call("Metric"))>>
ListTraceServices     == WhenAsked(<<Paged(Call("Metric"))>>) \o WhenAsked(<<Paged(Call("Trace"))>>)
GetMetrics            == <<Paged(Call("Metric"))>>

ListTraceDependencyEdges == <<Paged(Call("Trace"))>>

(* The inventory's own flag is not read; the other three signals say when   *)
(* they could not be had.                                                   *)
GetObservabilityCoverage ==
  LET nodes   == IfAbsent(Reporting(ListServices)[1], "silent")
      Asking(op) == <<IfAbsent(Trusting(op)[1], "told")>>
  IN  <<nodes>> \o Asking(ListTraceDependencyEdges) \o Asking(ListAlertPolicies)
        \o <<Noted("Metric"), Noted("LogAdmin")>>

-----------------------------------------------------------------------------
(* GKE. Workloads are paged through kind by kind under one token.           *)
ListClusters           == <<Call("ClusterMgr")>>
GetClusterDetails      == <<Call("ClusterMgr")>>
ListGKEWorkloads       == dialK8s \o <<Paged(K8sAPI)>>
GetGKEWorkloadDetails  == dialK8s \o <<K8sAPI>>
ListGKEServices        == dialK8s \o <<Paged(K8sAPI)>>
ListGKEIngresses       == dialK8s \o <<Paged(K8sAPI)>> \o WhenAsked(<<Paged(K8sAPI)>>)
ListGKENetworkPolicies == dialK8s \o <<Paged(K8sAPI)>>

(* The mesh's metrics, and where they are missing or empty the proxies'     *)
(* logs, read until they show 200 edges.                                    *)
istioMeshEdges      == <<IfFailed(Call("Metric"), "told")>>
logBasedMeshEdges   == <<IfCut(IfFailed(Call("LogAdmin"), "told"), "silent")>>
GetGKEMeshTopology  == istioMeshEdges \o WhenAsked(logBasedMeshEdges)

GetClusterBottlenecks ==
  Assuming(GetClusterDetails) \o Assuming(GetMetrics) \o Assuming(GetMetrics)
    \o Assuming(QueryRecentLogs)

-----------------------------------------------------------------------------
(* Scores of resources. A signal that could not be fetched is counted as    *)
(* missing; the Recommender's own failure, other than its quota (which the  *)
(* report notes), only reaches the log.                                     *)
fetchMetricPoint          == <<IfFailed(Call("Metric"), "told")>>
fetchRecommenderInsights  == <<IfFailed(IfAbsent(Call("Recommender"), "silent"), "silent")>>

fetchCloudRunSignals ==
  fetchMetricPoint \o fetchMetricPoint \o fetchMetricPoint \o fetchMetricPoint
    \o fetchRecommenderInsights
fetchCloudSQLSignals ==
  fetchMetricPoint \o fetchMetricPoint \o fetchMetricPoint
    \o fetchRecommenderInsights \o fetchRecommenderInsights
fetchBigQuerySignals ==
  fetchMetricPoint \o fetchMetricPoint \o fetchMetricPoint \o fetchMetricPoint
fetchGKESignals ==
  fetchMetricPoint \o fetchMetricPoint \o fetchMetricPoint \o <<Noted("ClusterMgr")>>
fetchGCSSignals == Requiring(GetBucketMetadata)

GetAuraScore ==
  WhenAsked(fetchCloudRunSignals) \o WhenAsked(fetchCloudSQLSignals)
    \o WhenAsked(fetchBigQuerySignals) \o WhenAsked(fetchGKESignals) \o WhenAsked(fetchGCSSignals)

(* The richer audit of a cluster wants all five of its inputs.              *)
GetGKEAuraScore ==
  <<Call("Metric"), Call("Metric"), Call("Metric"), Guarded("ClusterMgr"), Guarded("ClusterMgr")>>
GetGCSAuraScore == fetchGCSSignals

(* Discovery of a project's resources: a kind that cannot be listed is left *)
(* out, with a line in the log; each resource that cannot be scored is      *)
(* reported as unavailable.                                                 *)
listSQLInstances    == <<Paged(IfFailed(Call("Metric"), "silent"))>>
listBigQueryDatasets == <<Paged(IfFailed(Call("Metric"), "silent"))>>
listGKEClusters     == <<IfFailed(IfAbsent(Call("ClusterMgr"), "silent"), "silent")>>
GetProjectAuraSummary ==
  Requiring(ListServices) \o listSQLInstances \o listBigQueryDatasets \o listGKEClusters
    \o Trusting(GetAuraScore)

-----------------------------------------------------------------------------
(* Compositions.                                                            *)
listTopologySubscriptions == <<Paged(Noted("PubSub"))>>
GetServiceTopology ==
  <<Call("RunSvc")>> \o listTopologySubscriptions \o WhenAsked(Trusting(ListServices))

(* The twelve listers run side by side and share only what they append to,  *)
(* so one order stands for all. Errors are passed on; Truncated is not read. *)
ExportServerlessGraph ==
  Reporting(ListServices) \o Reporting(ListJobs) \o Reporting(ListFunctions)
    \o Trusting(ListTriggers) \o Trusting(ListSchedulerJobs) \o Trusting(ListWorkflows)
    \o Trusting(ListTaskQueues) \o Reporting(ListSecrets) \o Reporting(ListSubscriptions)
    \o Trusting(ListVPCConnectors) \o Reporting(ListSQLInstances) \o Reporting(ListTopics)
=============================================================================
