------------------------------ MODULE ToolCatalog ------------------------------
(***************************************************************************)
(* What the server offers (internal/mcp/tools, internal/mcp/resources): for *)
(* each tool the module that brings it, and the operation its handler calls *)
(* once and answers with, or whose error it answers with. The resources are *)
(* read the same way and belong to the pseudo-module _resources.            *)
(***************************************************************************)
EXTENDS EngineOperations

Tool(module, operation) == [module |-> module, operation |-> operation]
Resource(operation) == Tool("_resources", operation)

gcp_gke_list_clusters           == Tool("gke", ListClusters)
gcp_gke_get_cluster_details     == Tool("gke", GetClusterDetails)
gcp_gke_get_cluster_bottlenecks == Tool("gke", GetClusterBottlenecks)
gcp_gke_scale_deployment        == Tool("gke", ScaleDeployment)

gcp_gke_list_workloads        == Tool("gke_workloads", ListGKEWorkloads)
gcp_gke_get_workload_details  == Tool("gke_workloads", GetGKEWorkloadDetails)
gcp_gke_list_services         == Tool("gke_workloads", ListGKEServices)
gcp_gke_list_ingresses        == Tool("gke_workloads", ListGKEIngresses)
gcp_gke_list_network_policies == Tool("gke_workloads", ListGKENetworkPolicies)

gcp_gke_get_mesh_topology == Tool("gke_mesh", GetGKEMeshTopology)

gcp_cloudrun_list_services       == Tool("cloudrun", ListServices)
gcp_cloudrun_get_service_details == Tool("cloudrun", GetServiceDetails)
gcp_cloudrun_update_traffic      == Tool("cloudrun", UpdateTraffic)
gcp_cloudrun_list_jobs           == Tool("cloudrun", ListJobs)
gcp_cloudrun_get_job_details     == Tool("cloudrun", GetJobDetails)
gcp_cloudrun_list_job_executions == Tool("cloudrun", ListJobExecutions)

gcp_functions_list        == Tool("functions", ListFunctions)
gcp_functions_get_details == Tool("functions", GetFunctionDetails)

gcp_eventarc_list_triggers == Tool("eventarc", ListTriggers)
gcp_eventarc_get_trigger   == Tool("eventarc", GetTrigger)

gcp_scheduler_list_jobs == Tool("scheduler", ListSchedulerJobs)

gcp_workflows_list            == Tool("workflows", ListWorkflows)
gcp_workflows_list_executions == Tool("workflows", ListWorkflowExecutions)

gcp_tasks_list_queues == Tool("tasks", ListTaskQueues)

gcp_secretmanager_list == Tool("secretmanager", ListSecrets)

gcp_vpc_list_connectors == Tool("vpcaccess", ListVPCConnectors)

gcp_cloudsql_list_instances == Tool("cloudsql", ListSQLInstances)

gcp_storage_list_buckets        == Tool("storage", ListBuckets)
gcp_storage_get_bucket_metadata == Tool("storage", GetBucketMetadata)
gcp_storage_list_bucket_objects == Tool("storage", ListBucketObjects)

gcp_pubsub_list_topics          == Tool("pubsub", ListTopics)
gcp_pubsub_inspect_topic_health == Tool("pubsub", InspectTopicHealth)
gcp_pubsub_list_subscriptions   == Tool("pubsub", ListSubscriptions)

gcp_spanner_list_instances     == Tool("datastores", ListSpannerInstances)
gcp_alloydb_list_clusters      == Tool("datastores", ListAlloyDBClusters)
gcp_firestore_list_databases   == Tool("datastores", ListFirestoreDatabases)
gcp_memorystore_list_instances == Tool("datastores", ListMemorystoreInstances)

gcp_artifactregistry_list_repos  == Tool("supplychain", ListArtifactRegistryRepos)
gcp_artifactregistry_list_images == Tool("supplychain", ListArtifactRegistryImages)
gcp_cloudbuild_list_triggers     == Tool("supplychain", ListCloudBuildTriggers)
gcp_servicedirectory_list        == Tool("supplychain", ListServiceDirectoryNamespaces)

gcp_compute_list_loadbalancers == Tool("networking", ListLoadBalancers)
gcp_compute_list_url_maps      == Tool("networking", ListURLMaps)
gcp_compute_list_negs          == Tool("networking", ListNEGs)
gcp_apigateway_list            == Tool("networking", ListAPIGateways)
gcp_vpc_list_networks          == Tool("networking", ListVPCNetworks)
gcp_vpc_list_subnets           == Tool("networking", ListVPCSubnets)
gcp_psc_list_endpoints         == Tool("networking", ListPSCEndpoints)

gcp_tag_list_resources == Tool("tagging", ListTaggedResources)

gcp_iam_test_permissions      == Tool("iam", TestPermissions)
gcp_iam_get_resource_bindings == Tool("iam", GetResourceIAMBindings)
gcp_iam_list_service_accounts == Tool("iam", ListServiceAccounts)

gcp_logging_query_recent == Tool("logging", QueryRecentLogs)

gcp_monitoring_get_metrics             == Tool("monitoring", GetMetrics)
gcp_monitoring_list_metric_descriptors == Tool("monitoring", ListMetricDescriptors)
gcp_trace_list_services                == Tool("monitoring", ListTraceServices)
gcp_monitoring_list_alert_policies     == Tool("monitoring", ListAlertPolicies)
gcp_monitoring_list_uptime_checks      == Tool("monitoring", ListUptimeChecks)
gcp_monitoring_list_slos               == Tool("monitoring", ListSLOs)
gcp_monitoring_list_dashboards         == Tool("monitoring", ListDashboards)
gcp_trace_list_dependency_edges        == Tool("monitoring", ListTraceDependencyEdges)

gcp_observability_coverage == Tool("coverage", GetObservabilityCoverage)

gcp_get_service_topology == Tool("topology", GetServiceTopology)

gcp_export_serverless_graph == Tool("serverlessgraph", ExportServerlessGraph)

gcp_generate_architecture_diagram == Tool("archgraph", Generate)
gcp_export_architecture_graph     == Tool("archgraph", ExportArchitectureGraph)

gcp_get_aura_score       == Tool("aura", GetAuraScore)
gcp_project_aura_summary == Tool("aura", GetProjectAuraSummary)
gcp_gke_get_aura_score   == Tool("aura", GetGKEAuraScore)
gcp_gcs_get_aura_score   == Tool("aura", GetGCSAuraScore)

gcp_incident_diagnose == Tool("incident", Diagnose)

gcp_project_security_audit == Tool("security", Audit)

gcp_compare_environments == Tool("drift", Compare)

gcp_cost_explain == Tool("cost", Explain)

gcp_export_recommendations_to_bq == Tool("recommender_export", ExportRecommendationsToBQ)

(* The snapshot of a service is its details and its latest revisions.       *)
DatasetList             == Resource(ListDatasets)
TableListTemplate       == Resource(ListTables)
TableSchemaTemplate     == Resource(GetTableSchema)
ServiceList             == Resource(ListServices)
RevisionsTemplate       == Resource(ListRevisions)
ServiceSnapshotTemplate == Resource(Requiring(GetServiceDetails) \o Requiring(ListRevisions))
BucketList              == Resource(ListBuckets)
BucketMetadataTemplate  == Resource(GetBucketMetadata)
ObjectListTemplate      == Resource(ListBucketObjects)
MyPermissions           == Resource(TestPermissions)

Catalog ==
  [gcp_gke_list_clusters |-> gcp_gke_list_clusters, gcp_gke_get_cluster_details
   |-> gcp_gke_get_cluster_details, gcp_gke_get_cluster_bottlenecks
   |-> gcp_gke_get_cluster_bottlenecks, gcp_gke_scale_deployment
   |-> gcp_gke_scale_deployment, gcp_gke_list_workloads |-> gcp_gke_list_workloads,
   gcp_gke_get_workload_details |-> gcp_gke_get_workload_details, gcp_gke_list_services
   |-> gcp_gke_list_services, gcp_gke_list_ingresses |-> gcp_gke_list_ingresses,
   gcp_gke_list_network_policies |-> gcp_gke_list_network_policies,
   gcp_gke_get_mesh_topology |-> gcp_gke_get_mesh_topology, gcp_cloudrun_list_services
   |-> gcp_cloudrun_list_services, gcp_cloudrun_get_service_details
   |-> gcp_cloudrun_get_service_details, gcp_cloudrun_update_traffic
   |-> gcp_cloudrun_update_traffic, gcp_cloudrun_list_jobs |-> gcp_cloudrun_list_jobs,
   gcp_cloudrun_get_job_details |-> gcp_cloudrun_get_job_details,
   gcp_cloudrun_list_job_executions |-> gcp_cloudrun_list_job_executions, gcp_functions_list
   |-> gcp_functions_list, gcp_functions_get_details |-> gcp_functions_get_details,
   gcp_eventarc_list_triggers |-> gcp_eventarc_list_triggers, gcp_eventarc_get_trigger
   |-> gcp_eventarc_get_trigger, gcp_scheduler_list_jobs |-> gcp_scheduler_list_jobs,
   gcp_workflows_list |-> gcp_workflows_list, gcp_workflows_list_executions
   |-> gcp_workflows_list_executions, gcp_tasks_list_queues |-> gcp_tasks_list_queues,
   gcp_secretmanager_list |-> gcp_secretmanager_list, gcp_vpc_list_connectors
   |-> gcp_vpc_list_connectors, gcp_cloudsql_list_instances |-> gcp_cloudsql_list_instances,
   gcp_storage_list_buckets |-> gcp_storage_list_buckets, gcp_storage_get_bucket_metadata
   |-> gcp_storage_get_bucket_metadata, gcp_storage_list_bucket_objects
   |-> gcp_storage_list_bucket_objects, gcp_pubsub_list_topics |-> gcp_pubsub_list_topics,
   gcp_pubsub_inspect_topic_health |-> gcp_pubsub_inspect_topic_health,
   gcp_pubsub_list_subscriptions |-> gcp_pubsub_list_subscriptions,
   gcp_spanner_list_instances |-> gcp_spanner_list_instances, gcp_alloydb_list_clusters
   |-> gcp_alloydb_list_clusters, gcp_firestore_list_databases
   |-> gcp_firestore_list_databases, gcp_memorystore_list_instances
   |-> gcp_memorystore_list_instances, gcp_artifactregistry_list_repos
   |-> gcp_artifactregistry_list_repos, gcp_artifactregistry_list_images
   |-> gcp_artifactregistry_list_images, gcp_cloudbuild_list_triggers
   |-> gcp_cloudbuild_list_triggers, gcp_servicedirectory_list
   |-> gcp_servicedirectory_list, gcp_compute_list_loadbalancers
   |-> gcp_compute_list_loadbalancers, gcp_compute_list_url_maps
   |-> gcp_compute_list_url_maps, gcp_compute_list_negs |-> gcp_compute_list_negs,
   gcp_apigateway_list |-> gcp_apigateway_list, gcp_vpc_list_networks
   |-> gcp_vpc_list_networks, gcp_vpc_list_subnets |-> gcp_vpc_list_subnets,
   gcp_psc_list_endpoints |-> gcp_psc_list_endpoints, gcp_tag_list_resources
   |-> gcp_tag_list_resources, gcp_iam_test_permissions |-> gcp_iam_test_permissions,
   gcp_iam_get_resource_bindings |-> gcp_iam_get_resource_bindings,
   gcp_iam_list_service_accounts |-> gcp_iam_list_service_accounts, gcp_logging_query_recent
   |-> gcp_logging_query_recent, gcp_monitoring_get_metrics |-> gcp_monitoring_get_metrics,
   gcp_monitoring_list_metric_descriptors |-> gcp_monitoring_list_metric_descriptors,
   gcp_trace_list_services |-> gcp_trace_list_services, gcp_monitoring_list_alert_policies
   |-> gcp_monitoring_list_alert_policies, gcp_monitoring_list_uptime_checks
   |-> gcp_monitoring_list_uptime_checks, gcp_monitoring_list_slos
   |-> gcp_monitoring_list_slos, gcp_monitoring_list_dashboards
   |-> gcp_monitoring_list_dashboards, gcp_trace_list_dependency_edges
   |-> gcp_trace_list_dependency_edges, gcp_observability_coverage
   |-> gcp_observability_coverage, gcp_get_service_topology |-> gcp_get_service_topology,
   gcp_export_serverless_graph |-> gcp_export_serverless_graph,
   gcp_generate_architecture_diagram |-> gcp_generate_architecture_diagram,
   gcp_export_architecture_graph |-> gcp_export_architecture_graph, gcp_get_aura_score
   |-> gcp_get_aura_score, gcp_project_aura_summary |-> gcp_project_aura_summary,
   gcp_gke_get_aura_score |-> gcp_gke_get_aura_score, gcp_gcs_get_aura_score
   |-> gcp_gcs_get_aura_score, gcp_incident_diagnose |-> gcp_incident_diagnose,
   gcp_project_security_audit |-> gcp_project_security_audit, gcp_compare_environments
   |-> gcp_compare_environments, gcp_cost_explain |-> gcp_cost_explain,
   gcp_export_recommendations_to_bq |-> gcp_export_recommendations_to_bq, DatasetList
   |-> DatasetList, TableListTemplate |-> TableListTemplate, TableSchemaTemplate
   |-> TableSchemaTemplate, ServiceList |-> ServiceList, RevisionsTemplate
   |-> RevisionsTemplate, ServiceSnapshotTemplate |-> ServiceSnapshotTemplate, BucketList
   |-> BucketList, BucketMetadataTemplate |-> BucketMetadataTemplate, ObjectListTemplate
   |-> ObjectListTemplate, MyPermissions |-> MyPermissions]
=============================================================================
