---------------------------- MODULE DriftCollectors ----------------------------
(***************************************************************************)
(* What the collectors of internal/drift/collector*.go can return for one   *)
(* component of one environment: which listings they make, what the        *)
(* failure of each does, and which of the gaps a listing reports they pass *)
(* on to the comparison.                                                   *)
(***************************************************************************)
EXTENDS Integers, FiniteSets

CONSTANTS
  maxResourcesPerComponent,
  Config,     \* the configurations of resources, once normalized
  Summary     \* what a listing alone shows of one

ASSUME CollectorsAssumption == maxResourcesPerComponent \in Nat \ {0} /\ Summary \in Config

(* A resource of the comparison. place stands for location and qualifier;  *)
(* serial is its rank among those that agree in all of these (alert        *)
(* policies and other things known by their display name); config is its   *)
(* normalized configuration.                                               *)
Resource == [kind: STRING, name: STRING, place: STRING, serial: Nat, config: Config]

-----------------------------------------------------------------------------
(* A listing: the listing it goes through (a cluster, a dataset) and the    *)
(* one whose failure there skips it, whether its own failure fails the     *)
(* collector or leaves it partial, whether each resource is fetched in     *)
(* detail afterwards and a failure of that is told, the gaps it can have,  *)
(* and those of them that the collector is told and looks at.              *)
Listing(kind) ==
  [kind |-> kind, within |-> "none", after |-> "none", fatal |-> FALSE, details |-> "none",
   gaps |-> {}, told |-> {}]

Fatal(l)        == [l EXCEPT !.fatal = TRUE]
Detailed(l)     == [l EXCEPT !.details = "told"]
Thinned(l)      == [l EXCEPT !.details = "silent"]
Within(l, kind) == [l EXCEPT !.within = kind]
After(l, kind)  == [l EXCEPT !.after = kind]
Tells(l, gaps)  == [l EXCEPT !.gaps = @ \cup gaps, !.told = @ \cup gaps]
Drops(l, gaps)  == [l EXCEPT !.gaps = @ \cup gaps]

(* says: what a collector may call its result from the start.              *)
(* stops: whether it ends, as partial, on the resource that fills it.      *)
Collector(listings) == [says |-> {"whole"}, stops |-> FALSE, listings |-> listings]

Truncated == {"truncated"}
Errors    == {"errors"}

collectCloudRun ==
  Collector({Fatal(Detailed(Tells(Listing("cloudrun.service"), Truncated))),
             Detailed(Tells(Listing("cloudrun.job"), Truncated))})

collectFunctions == Collector({Fatal(Detailed(Tells(Listing("cloudfunctions.function"), Truncated)))})

collectEventarc  == Collector({Fatal(Tells(Listing("eventarc.trigger"), Truncated \cup Errors))})
collectScheduler == Collector({Fatal(Tells(Listing("scheduler.job"), Truncated \cup Errors))})
collectWorkflows == Collector({Fatal(Tells(Listing("workflows.workflow"), Truncated \cup Errors))})

(* Rate and retry settings of a queue, and the settings of an SQL instance, *)
(* are not compared, which these say of themselves.                        *)
collectTasks ==
  [Collector({Fatal(Tells(Listing("cloudtasks.queue"), Truncated \cup Errors))}) EXCEPT !.says = {"partial"}]
collectCloudSQL == [Collector({Fatal(Listing("cloudsql.instance"))}) EXCEPT !.says = {"partial"}]

collectSecrets   == Collector({Fatal(Tells(Listing("secretmanager.secret"), Truncated))})
collectVPCAccess == Collector({Fatal(Tells(Listing("vpcaccess.connector"), Errors))})

(* A topic's subscriptions may not all have been counted. *)
collectPubSub ==
  [Collector({Fatal(Tells(Listing("pubsub.topic"), Truncated)),
              Tells(Listing("pubsub.subscription"), Truncated)}) EXCEPT !.says = {"whole", "partial"}]

(* ListBuckets ends at its 200th bucket without a word. *)
collectStorage == Collector({Fatal(Detailed(Drops(Listing("storage.bucket"), Truncated)))})

(* Neither response's Truncated nor its Errors is looked at. *)
collectBigQuery ==
  LET tables == Within(Listing("bigquery.table"), "bigquery.dataset")
  IN  [Collector({Fatal(Drops(Listing("bigquery.dataset"), Truncated \cup Errors)),
                  Detailed(Drops(tables, Truncated \cup Errors))}) EXCEPT !.stops = TRUE]

collectDatastores ==
  Collector({Listing("spanner.instance"), Listing("alloydb.cluster"),
             Listing("firestore.database"), Listing("memorystore.instance")})

(* A namespace whose services could not be listed comes without them, and   *)
(* ListServiceDirectoryNamespaces does not say so.                         *)
collectSupplyChain ==
  Collector({Listing("artifactregistry.repository"), Listing("cloudbuild.trigger"),
             Thinned(Listing("servicedirectory.namespace"))})

collectMonitoring ==
  Collector({Tells(Listing("monitoring.alert_policy"), Truncated), Listing("monitoring.uptime_check"),
             Listing("monitoring.slo"), Listing("monitoring.dashboard")})

collectIAM ==
  [Collector({Fatal(Drops(Listing("iam.service_account"), Truncated))}) EXCEPT !.says = {"partial"}]

collectGKE == Collector({Fatal(Detailed(Listing("gke.cluster")))})

(* Of services, ingresses and policies only Errors is looked at. *)
collectGKEWorkloads ==
  LET inCluster(kind) == Within(Tells(Listing(kind), Errors), "gke.cluster")
      next(kind)      == After(Drops(inCluster(kind), Truncated), "gke.workload")
  IN  Collector({Fatal(Listing("gke.cluster")),
                 Detailed(Tells(inCluster("gke.workload"), Truncated)),
                 next("gke.service"), next("gke.ingress"), next("gke.network_policy")})

collectNetworking ==
  Collector({Tells(Listing(kind), Truncated) :
               kind \in {"compute.load_balancer", "compute.url_map", "compute.neg", "apigateway.gateway",
                         "compute.network", "compute.subnet", "compute.psc_endpoint"}})

supportedComponents ==
  [cloudrun |-> collectCloudRun, gke |-> collectGKE, gke_workloads |-> collectGKEWorkloads,
   networking |-> collectNetworking, functions |-> collectFunctions, eventarc |-> collectEventarc,
   scheduler |-> collectScheduler, workflows |-> collectWorkflows, tasks |-> collectTasks,
   secretmanager |-> collectSecrets, vpcaccess |-> collectVPCAccess, cloudsql |-> collectCloudSQL,
   pubsub |-> collectPubSub, storage |-> collectStorage, bigquery |-> collectBigQuery,
   datastores |-> collectDatastores, supplychain |-> collectSupplyChain,
   monitoring |-> collectMonitoring, iam |-> collectIAM]

-----------------------------------------------------------------------------
(* What became of each listing of a collector. *)
Outcomes(collector) ==
  {outcome \in [collector.listings -> {"complete", "failed", "truncated", "errors"}] :
     \A l \in collector.listings : outcome[l] \in {"complete", "failed"} \cup l.gaps}

(* What keeps a resource away: a gap in its own listing or in the one it    *)
(* goes through, or a failure of the one before it.                        *)
Incomplete(collector, outcome, r) ==
  \E l \in collector.listings : l.kind = r.kind /\
    \E m \in collector.listings :
      \/ m.kind \in {l.kind, l.within} /\ outcome[m] # "complete"
      \/ m.kind = l.after /\ outcome[m] = "failed"

(* A listing that failed brings nothing, unless it is made once for each    *)
(* cluster or dataset.                                                     *)
Failed(collector, outcome, r) ==
  \E l \in collector.listings : l.kind = r.kind /\ l.within = "none" /\ outcome[l] = "failed"

(* The sets of resources that may not come. *)
MayBeLost(collector, inventory, outcome) ==
  {lost \in SUBSET {r \in inventory : Incomplete(collector, outcome, r)} :
     \A r \in inventory : Failed(collector, outcome, r) => r \in lost}

(* The resources whose details did not come stay as they were listed. *)
AsListed(resources, bare) ==
  {IF r \in bare THEN [r EXCEPT !.config = Summary] ELSE r : r \in resources}

CanBeBare(collector, resources) ==
  {r \in resources : \E l \in collector.listings : l.kind = r.kind /\ l.details \in {"told", "silent"}}

NoResult == [resources |-> {}, partial |-> FALSE, err |-> TRUE]

(* What can become of the listings when Collect returns no error. *)
Returned(collector) ==
  {outcome \in Outcomes(collector) : \A l \in collector.listings : l.fatal => outcome[l] # "failed"}

(* Mutant of Collected: what a listing says of its gaps is not passed on. *)
CollectedSilently(collector, inventory) ==
  {[resources |-> inventory \ lost, partial |-> FALSE, err |-> FALSE] :
     lost \in UNION {MayBeLost(collector, inventory, outcome) : outcome \in Returned(collector)}}

(* The limit. Which resources are left depends on the order of their names, *)
(* which is left open here.                                                *)
Limited(collector, resources, gap) ==
  LET full == Cardinality(resources) = maxResourcesPerComponent
  IN  IF Cardinality(resources) <= maxResourcesPerComponent
      THEN {[resources |-> resources, partial |-> partial, err |-> FALSE] :
              partial \in {p \in BOOLEAN : (gap => p) /\ (p => gap \/ (collector.stops /\ full))}}
      ELSE {[resources |-> kept, partial |-> TRUE, err |-> FALSE] :
              kept \in {s \in SUBSET resources : Cardinality(s) = maxResourcesPerComponent}}

(* What makes the result partial, before the limit. *)
Gap(collector, outcome, said, bare) ==
  \/ said = "partial"
  \/ \E l \in collector.listings :
       outcome[l] \in l.told \cup {"failed"} \/ (l.details = "told" /\ \E r \in bare : l.kind = r.kind)

(* The results for given listings and losses. *)
Gathered(collector, inventory, outcome, lost) ==
  UNION {UNION {Limited(collector, AsListed(inventory \ lost, bare), Gap(collector, outcome, said, bare)) :
                  bare \in SUBSET CanBeBare(collector, inventory \ lost)} :
           said \in collector.says}

(* The results without an error that Collect can return for an inventory.  *)
Collected(collector, inventory) ==
  UNION {UNION {Gathered(collector, inventory, outcome, lost) : lost \in MayBeLost(collector, inventory, outcome)} :
           outcome \in Returned(collector)}

(* Collect returns an error when a fatal listing failed. *)
CanFail(collector) == \E l \in collector.listings : l.fatal

(* What the comparison counts on: a collector is told of every gap and      *)
(* looks at it, or calls itself partial anyway.                            *)
PassesOnGaps(collector) ==
  \/ collector.says = {"partial"}
  \/ \A l \in collector.listings : l.gaps \subseteq l.told /\ l.details # "silent"
=============================================================================
