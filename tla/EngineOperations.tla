---------------------------- MODULE EngineOperations ----------------------------
(***************************************************************************)
(* The operations of the engines that are built from others' answers        *)
(* (architecture graph, drift, incidents, security audit, cost) and of the  *)
(* mutations, as the calls they come down to. What each engine does with    *)
(* its answers while it runs is modelled in a module of its own; here it    *)
(* matters which clients it needs and which gaps it passes on.              *)
(***************************************************************************)
EXTENDS AdapterOperations

-----------------------------------------------------------------------------
(* collectArchitectureGraph notes the error of every listing; it appends    *)
(* the Errors of the regional and Kubernetes ones, and looks at Truncated   *)
(* for service accounts only.                                               *)
ExportArchitectureGraph ==
  Reporting(ListServices) \o Reporting(ListJobs) \o Reporting(ListFunctions)
    \o Trusting(ListTriggers) \o Trusting(ListSchedulerJobs) \o Trusting(ListWorkflows)
    \o Trusting(ListTaskQueues) \o Reporting(ListSecrets) \o Reporting(ListSubscriptions)
    \o Trusting(ListVPCConnectors) \o Reporting(ListSQLInstances) \o Reporting(ListTopics)
    \o Reporting(ListSpannerInstances) \o Reporting(ListAlloyDBClusters)
    \o Reporting(ListFirestoreDatabases) \o Reporting(ListMemorystoreInstances)
    \o Reporting(ListArtifactRegistryRepos) \o Reporting(ListCloudBuildTriggers)
    \o Reporting(ListServiceDirectoryNamespaces) \o Reporting(ListLoadBalancers)
    \o Reporting(ListURLMaps) \o Reporting(ListNEGs) \o Reporting(ListAPIGateways)
    \o Reporting(ListVPCNetworks) \o Reporting(ListVPCSubnets) \o Reporting(ListPSCEndpoints)
    \o Trusting(ListServiceAccounts) \o Reporting(ListClusters)
    \o WhenAsked(Reporting(ListGKEWorkloads) \o Reporting(ListGKEServices) \o Reporting(ListGKEIngresses))
    \o Reporting(ListTraceDependencyEdges) \o WhenAsked(Reporting(GetGKEMeshTopology))

(* The diagram repeats the graph's errors and drops nothing more.           *)
Generate == Requiring(ExportArchitectureGraph)

-----------------------------------------------------------------------------
(* The drift collectors: a listing's failure leaves its component partial.  *)
(* BigQuery's flags and those of a cluster's services, ingresses and        *)
(* policies are not read.                                                   *)
compareServerless ==
  Trusting(ListServices) \o Trusting(GetServiceDetails) \o Trusting(ListRevisions)
    \o Trusting(ListJobs) \o Trusting(GetJobDetails) \o Trusting(ListFunctions)
    \o Trusting(GetFunctionDetails) \o Trusting(ListTriggers) \o Trusting(ListSchedulerJobs)
    \o Trusting(ListWorkflows) \o Trusting(ListTaskQueues) \o Trusting(ListSecrets)
    \o Trusting(ListVPCConnectors) \o Trusting(ListSQLInstances)
compareData ==
  Trusting(ListTopics) \o Trusting(ListSubscriptions) \o Trusting(ListBuckets)
    \o Trusting(GetBucketMetadata) \o Reporting(ListDatasets) \o Reporting(ListTables)
    \o Trusting(GetTableSchema) \o Trusting(ListSpannerInstances) \o Trusting(ListAlloyDBClusters)
    \o Trusting(ListFirestoreDatabases) \o Trusting(ListMemorystoreInstances)
    \o Trusting(ListArtifactRegistryRepos) \o Trusting(ListCloudBuildTriggers)
    \o Trusting(ListServiceDirectoryNamespaces) \o Trusting(ListAlertPolicies)
    \o Trusting(ListUptimeChecks) \o Trusting(ListSLOs) \o Trusting(ListDashboards)
    \o Trusting(ListServiceAccounts)
comparePlatform ==
  Trusting(ListClusters) \o Trusting(GetClusterDetails)
    \o WhenAsked(Trusting(ListGKEWorkloads) \o Trusting(GetGKEWorkloadDetails)
                   \o Reporting(ListGKEServices) \o Reporting(ListGKEIngresses)
                   \o Reporting(ListGKENetworkPolicies))
    \o Trusting(ListLoadBalancers) \o Trusting(ListURLMaps) \o Trusting(ListNEGs)
    \o Trusting(ListAPIGateways) \o Trusting(ListVPCNetworks) \o Trusting(ListVPCSubnets)
    \o Trusting(ListPSCEndpoints)
Compare == WhenAsked(compareServerless) \o WhenAsked(compareData) \o WhenAsked(comparePlatform)

-----------------------------------------------------------------------------
(* An incident's targets are looked for unless both name and region are     *)
(* given; each collector's failure is a check that is not complete.         *)
resolveScope == WhenAsked(Assuming(ListServices))
collectDependencyHealth ==
  WhenAsked(Reporting(ListSQLInstances)) \o WhenAsked(InRegion(Reporting(ListVPCConnectors)))
    \o WhenAsked(Reporting(InspectTopicHealth) \o Reporting(GetMetrics))
    \o WhenAsked(Reporting(GetMetrics))
Diagnose ==
  resolveScope
    \o Trusting(GetServiceDetails) \o Reporting(ListRevisions) \o Trusting(QueryRecentLogs)
    \o Trusting(QueryRecentLogs) \o Trusting(GetMetrics) \o Reporting(GetMetrics)
    \o Reporting(GetServiceTopology) \o WhenAsked(Reporting(QueryRecentLogs))
    \o WhenAsked(collectDependencyHealth)

-----------------------------------------------------------------------------
(* The facts of a security audit. The engine turns an error into the        *)
(* coverage of its category and passes on the units that came with facts.   *)
SearchSecurityIAMPolicies ==
  <<Guarded("Asset"), [Noted("CRMv3") EXCEPT !.absentSkips = 1, !.failedSkips = 1],
    Noted("IAMv2"), Paged(Guarded("Asset"))>>
ListServiceAccountSecurityFacts == <<Guarded("IAMAdmin")>>
ListSecretSecurityFacts         == <<Paged(Guarded("SecretMgr")), Noted("RunSvc")>>
collectGKEPublicServiceSecurityFacts ==
  <<Noted("ClusterMgr")>> \o WhenAsked(<<Paged(IfFailed(K8sAPI, "told"))>>)
ListPublicServiceSecurityFacts ==
  <<IfAbsent(Call("RunSvc"), "silent"), IfAbsent(Call("FunctionsV1"), "silent")>>
    \o collectGKEPublicServiceSecurityFacts
ListFirewallSecurityFacts == <<Guarded("Compute"), Noted("Compute")>>
ListWorkloadIdentitySecurityFacts ==
  <<Guarded("ClusterMgr")>> \o WhenAsked(<<Paged(IfFailed(K8sAPI, "told"))>>)
    \o <<Noted("IAMAdmin"), Noted("Asset")>>
(* Switched off, it says so; cut short, it warns, which the engine drops.   *)
ListSecurityRecommendations == <<IfCut(IfAbsent(Call("Recommender"), "told"), "silent")>>

Audit ==
  Trusting(SearchSecurityIAMPolicies) \o Trusting(ListServiceAccountSecurityFacts)
    \o Trusting(ListSecretSecurityFacts) \o Trusting(ListPublicServiceSecurityFacts)
    \o Trusting(ListFirewallSecurityFacts) \o Trusting(ListWorkloadIdentitySecurityFacts)
    \o Trusting(ListSecurityRecommendations)

-----------------------------------------------------------------------------
(* Cost: without billing facts there is no answer; what explains them may   *)
(* be missing. The time series that corroborate traffic may be cut short    *)
(* unnoticed.                                                               *)
CollectCostFacts        == <<Guarded("CostBQ")>>
ListCreatedAssets       == <<Paged(Guarded("Asset"))>>
ListCostRecommendations == <<Paged(Noted("Recommender"))>>
Explain ==
  Requiring(CollectCostFacts) \o WhenAsked(Trusting(ListCreatedAssets))
    \o WhenAsked(Trusting(ListCostRecommendations))
    \o WhenAsked(Reporting(GetMetrics) \o Reporting(GetMetrics))

-----------------------------------------------------------------------------
(* The mutations read before they write.                                    *)
UpdateTraffic   == <<Call("RunSvc"), Call("RunSvc")>>
ScaleDeployment == <<Call("ClusterMgr"), Call("ClusterMgr")>>
(* The recommendations, the table, whose being there already is no error,   *)
(* and the rows; more rows than the limit are refused.                      *)
ExportRecommendationsToBQ == <<Guarded("Recommender"), Guarded("BQ"), Guarded("BQ")>>
=============================================================================
