------------------------------ MODULE DriftProofs ------------------------------
(***************************************************************************)
(* What DriftEngine answers, for any components, inventories and limits:    *)
(* parity is earned and a missing resource is missing, of all components    *)
(* whose collectors pass on the gaps they are told of; and no environment   *)
(* is the baseline.                                                        *)
(***************************************************************************)
EXTENDS DriftEngine, FiniteSetTheorems, TLAPS

(* The components whose answer may lack something in silence: the           *)
(* collectors of bigquery and gke_workloads do not look at every gap        *)
(* (collector_data.go:66-110, collector_platform.go:32-116), and those of    *)
(* storage and supplychain are not told of one (gcp/storage.go:26,           *)
(* gcp/supplychain.go:178-181).                                            *)
Silent == {"bigquery", "gke_workloads", "storage", "supplychain"}

(* All other collectors look at every gap that a listing reports. *)
LEMMA CollectorsPassOnGaps ==
  \A c \in DOMAIN supportedComponents \ Silent : PassesOnGaps(supportedComponents[c])
  <1> USE DEF PassesOnGaps, Collector, Listing, Fatal, Detailed, Tells, Drops, Truncated, Errors
  <1>a. \A kind : Listing(kind).gaps \subseteq Listing(kind).told /\ Listing(kind).details # "silent"
    OBVIOUS
  <1>b. \A kind : /\ Tells(Listing(kind), Truncated).gaps \subseteq Tells(Listing(kind), Truncated).told
                  /\ Tells(Listing(kind), Truncated).details # "silent"
    OBVIOUS
  <1>c. \A kind : LET l == Fatal(Detailed(Tells(Listing(kind), Truncated)))
                     m == Detailed(Tells(Listing(kind), Truncated))
                     n == Fatal(Tells(Listing(kind), Truncated))
                 IN  /\ l.gaps \subseteq l.told /\ l.details # "silent"
                     /\ m.gaps \subseteq m.told /\ m.details # "silent"
                     /\ n.gaps \subseteq n.told /\ n.details # "silent"
    OBVIOUS
  <1>1. PassesOnGaps(collectCloudRun)
    <2> HIDE DEF Listing, Tells, Fatal, Detailed
    <2> QED BY <1>c DEF collectCloudRun
  <1>2. PassesOnGaps(collectFunctions)
    BY DEF collectFunctions
  <1>3. PassesOnGaps(collectEventarc)
    BY DEF collectEventarc
  <1>4. PassesOnGaps(collectScheduler)
    BY DEF collectScheduler
  <1>5. PassesOnGaps(collectWorkflows)
    BY DEF collectWorkflows
  <1>6. PassesOnGaps(collectTasks)
    BY DEF collectTasks
  <1>7. PassesOnGaps(collectCloudSQL)
    BY DEF collectCloudSQL
  <1>8. PassesOnGaps(collectSecrets)
    BY DEF collectSecrets
  <1>9. PassesOnGaps(collectVPCAccess)
    BY DEF collectVPCAccess
  <1>10. PassesOnGaps(collectPubSub)
    <2> HIDE DEF Listing, Tells, Fatal, Detailed
    <2> QED BY <1>b, <1>c DEF collectPubSub
  <1>11. PassesOnGaps(collectDatastores)
    <2> HIDE DEF Listing, Tells
    <2> QED BY <1>a, <1>b DEF collectDatastores
  <1>12. PassesOnGaps(collectMonitoring)
    <2> HIDE DEF Listing, Tells
    <2> QED BY <1>a, <1>b DEF collectMonitoring
  <1>13. PassesOnGaps(collectIAM)
    BY DEF collectIAM
  <1>14. PassesOnGaps(collectGKE)
    BY DEF collectGKE
  <1>15. PassesOnGaps(collectNetworking)
    BY DEF collectNetworking
  <1> HIDE DEF PassesOnGaps, Collector, Listing, Fatal, Detailed, Tells, Drops
  <1> QED
    BY <1>1, <1>2, <1>3, <1>4, <1>5, <1>6, <1>7, <1>8, <1>9, <1>10, <1>11, <1>12, <1>13, <1>14, <1>15
       DEF supportedComponents, Silent

(* What such a collector returns without an error and not as partial is     *)
(* the whole inventory (GCPCollector.Collect).                             *)
LEMMA CollectedWhole ==
  ASSUME NEW collector, NEW inventory, PassesOnGaps(collector),
         NEW r \in Collected(collector, inventory), ~r.partial
  PROVE  r.resources = inventory
  <1>1. PICK outcome \in Returned(collector) :
          r \in UNION {Gathered(collector, inventory, outcome, lost) :
                         lost \in MayBeLost(collector, inventory, outcome)}
    BY DEF Collected
  <1>2. PICK lost \in MayBeLost(collector, inventory, outcome) : r \in Gathered(collector, inventory, outcome, lost)
    BY <1>1
  <1>a. PICK said \in collector.says :
          r \in UNION {Limited(collector, AsListed(inventory \ lost, bare), Gap(collector, outcome, said, bare)) :
                         bare \in SUBSET CanBeBare(collector, inventory \ lost)}
    BY <1>2 DEF Gathered
  <1>3. PICK bare \in SUBSET CanBeBare(collector, inventory \ lost) :
          r \in Limited(collector, AsListed(inventory \ lost, bare), Gap(collector, outcome, said, bare))
    BY <1>a
  <1>4. r.resources = AsListed(inventory \ lost, bare) /\ ~Gap(collector, outcome, said, bare)
    BY <1>3 DEF Limited
  <1>5. \A l \in collector.listings : l.gaps \subseteq l.told /\ l.details # "silent"
    BY <1>a, <1>4 DEF Gap, PassesOnGaps
  <1>b. bare = {}
    BY <1>3, <1>4, <1>5 DEF CanBeBare, Gap
  <1>6. \A l \in collector.listings : outcome[l] = "complete"
    <2>1. \A l \in collector.listings : outcome[l] \notin l.told \cup {"failed"}
      BY <1>4 DEF Gap
    <2> QED BY <1>1, <1>5, <2>1 DEF Returned, Outcomes
  <1>7. lost = {}
    BY <1>2, <1>6 DEF MayBeLost, Incomplete
  <1> QED BY <1>4, <1>b, <1>7 DEF AsListed

-----------------------------------------------------------------------------
(* Two inventories in which nothing is different and nothing is missing are *)
(* configured alike (compareComponent).                                    *)
LEMMA ComparedAlike ==
  ASSUME NEW a, NEW b, NEW complete, complete,
         \A d \in compareComponent(a, b, complete) : d.status \notin {"different", "missing_in_environment"}
  PROVE  Configuration(a) = Configuration(b)
  <1> DEFINE pairs == matchResources(a, b)
  <1>1. ASSUME NEW p \in pairs
        PROVE  Identity(p[1]) = Identity(p[2]) /\ Equivalent(p[1], p[2])
    <2>1. p \in a \X b /\ Identity(p[1]) = Identity(p[2])
      BY DEF matchResources, exactIdentity, Identity
    <2>2. [left |-> {p[1]}, right |-> {p[2]},
           status |-> IF Equivalent(p[1], p[2]) THEN "equivalent" ELSE "different"]
            \in compareComponent(a, b, complete)
      BY DEF compareComponent
    <2> QED BY <2>1, <2>2
  <1>2. ASSUME NEW p \in pairs
        PROVE  /\ p[1] \in a /\ p[2] \in b
               /\ <<exactIdentity(p[1]), p[1].config>> = <<exactIdentity(p[2]), p[2].config>>
    <2>1. p \in a \X b
      BY DEF matchResources
    <2> QED BY <1>1, <2>1 DEF Equivalent, exactIdentity, Identity
  <1>3. ASSUME NEW l \in a
        PROVE  \E p \in pairs : p[1] = l
    <2> SUFFICES ASSUME \A p \in pairs : p[1] # l
                 PROVE  FALSE
      OBVIOUS
    <2>1. [left |-> {l}, right |-> {}, status |-> Unmatched(complete)] \in compareComponent(a, b, complete)
      BY DEF compareComponent
    <2> QED BY <2>1 DEF Unmatched
  <1>4. ASSUME NEW r \in b
        PROVE  \E p \in pairs : p[2] = r
    <2> SUFFICES ASSUME \A p \in pairs : p[2] # r
                 PROVE  FALSE
      OBVIOUS
    <2>1. [left |-> {}, right |-> {r}, status |-> Unmatched(complete)] \in compareComponent(a, b, complete)
      BY DEF compareComponent
    <2> QED BY <2>1 DEF Unmatched
  <1> HIDE DEF pairs
  <1>5. \A l \in a : \E r \in b : <<exactIdentity(l), l.config>> = <<exactIdentity(r), r.config>>
    BY <1>2, <1>3
  <1>6. \A r \in b : \E l \in a : <<exactIdentity(l), l.config>> = <<exactIdentity(r), r.config>>
    BY <1>2, <1>4
  <1> QED BY <1>5, <1>6 DEF Configuration

(* A resource that is reported without a counterpart has none, if no two    *)
(* resources of an inventory are alike (matchResources).                   *)
LEMMA MissingHasNoCounterpart ==
  ASSUME NEW a \in SUBSET Resource, NEW b \in SUBSET Resource, NEW complete,
         Unambiguous(a), Unambiguous(b),
         NEW d \in compareComponent(a, b, complete)
  PROVE  /\ \A l \in d.left, r \in b : d.right = {} => exactIdentity(l) # exactIdentity(r)
         /\ \A r \in d.right, l \in a : d.left = {} => exactIdentity(l) # exactIdentity(r)
  <1> DEFINE pairs == matchResources(a, b)
  <1>1. ASSUME NEW l \in a, NEW r \in b, exactIdentity(l) = exactIdentity(r)
        PROVE  \E p \in pairs : p[1] = l /\ p[2] = r
    <2>1. Alike(a, l) = {l} /\ Alike(b, r) = {r}
      BY DEF Unambiguous
    <2>2. l.serial \in Nat /\ r.serial \in Nat
      BY DEF Resource
    <2>3. <<l, r>> \in pairs
      BY <1>1, <2>1, <2>2 DEF matchResources
    <2> QED BY <2>3
  <1> HIDE DEF pairs
  <1>2. \/ \E p \in pairs : d.left = {p[1]} /\ d.right = {p[2]}
        \/ \E l \in a : d.left = {l} /\ d.right = {} /\ \A p \in pairs : p[1] # l
        \/ \E r \in b : d.left = {} /\ d.right = {r} /\ \A p \in pairs : p[2] # r
    BY DEF compareComponent, pairs
  <1>3. CASE \E p \in pairs : d.left = {p[1]} /\ d.right = {p[2]}
    BY <1>3
  <1>4. CASE \E l \in a : d.left = {l} /\ d.right = {} /\ \A p \in pairs : p[1] # l
    BY <1>1, <1>4
  <1>5. CASE \E r \in b : d.left = {} /\ d.right = {r} /\ \A p \in pairs : p[2] # r
    BY <1>1, <1>5
  <1> QED BY <1>2, <1>3, <1>4, <1>5

(* Only a full comparison finds that something is missing. *)
LEMMA MissingNeedsComplete ==
  ASSUME NEW a, NEW b, NEW complete, NEW d \in compareComponent(a, b, complete),
         d.status = "missing_in_environment"
  PROVE  complete
  BY DEF compareComponent, Unmatched

-----------------------------------------------------------------------------
(* The assumptions under which the answer can be trusted: none of those     *)
(* components is asked for, and no two resources of an environment are     *)
(* alike.                                                                  *)
Trustworthy ==
  /\ Component \cap Silent = {}
  /\ \A c \in Component : \A s \in Inventory[c] : Unambiguous(s)

(* What was collected is everything, or says that it is not. *)
Whole ==
  \A j \in Job : result[j].err \/ result[j].partial \/ result[j].resources = world[j]

DriftInv ==
  /\ DOMAIN result = Job
  /\ \A j \in Job : world[j] \in SUBSET Resource /\ Unambiguous(world[j])
  /\ Whole
  /\ ParityIsEarned
  /\ MissingIsReal

LEMMA DriftInit == ASSUME Trustworthy PROVE Init => DriftInv
  <1> SUFFICES ASSUME Init PROVE DriftInv
    OBVIOUS
  <1> USE DEF Init
  <1>1. \A j \in Job : world[j] \in SUBSET Resource /\ Unambiguous(world[j])
    BY EngineAssumption DEF Job, Trustworthy
  <1>2. ParityIsEarned /\ MissingIsReal
    BY DEF ParityIsEarned, MissingIsReal, NoResponse
  <1> QED BY <1>1, <1>2 DEF DriftInv, Whole, NoResult

(* An answer whose coverage is complete has compared everything. *)
LEMMA CompleteIsWhole ==
  ASSUME Whole, NEW j \in Job, ~Known(j).err, ~Known(j).partial
  PROVE  Known(j).resources = world[j]
  BY DEF Whole, Known, NoResult

LEMMA AnswerEarnsParity ==
  ASSUME Whole, Answer.result = "parity", NEW c \in Component
  PROVE  Configuration(world[<<c, "a">>]) = Configuration(world[<<c, "b">>])
  <1> DEFINE compared == [x \in Component |-> IF x \in Comparable THEN DriftsOf(x) ELSE {}]
  <1>1. /\ CoverageStatus = "complete"
        /\ \A d \in UNION {compared[x] : x \in Component} : d.status \notin {"different", "missing_in_environment"}
    BY DEF Answer, Result
  <1>2. ASSUME NEW s \in Side
        PROVE  /\ ~Known(<<c, s>>).err /\ ~Known(<<c, s>>).partial
               /\ Known(<<c, s>>).resources = world[<<c, s>>]
    <2>1. <<c, s>> \in Job
      BY DEF Job
    <2>2. ~Known(<<c, s>>).err /\ ~Known(<<c, s>>).partial
      BY <1>1, <2>1 DEF CoverageStatus, CoverageOf
    <2> QED BY <2>1, <2>2, CompleteIsWhole
  <1>3. c \in Comparable
    BY <1>2 DEF Comparable
  <1>4. \A d \in DriftsOf(c) : d.status \notin {"different", "missing_in_environment"}
    BY <1>1, <1>3
  <1> QED BY <1>2, <1>4, ComparedAlike DEF DriftsOf, Side

LEMMA AnswerMissingIsReal ==
  ASSUME Whole, \A j \in Job : world[j] \in SUBSET Resource /\ Unambiguous(world[j]),
         NEW c \in Component, NEW d \in Answer.compared[c], d.status = "missing_in_environment"
  PROVE  /\ \A l \in d.left, r \in world[<<c, "b">>] : d.right = {} => exactIdentity(l) # exactIdentity(r)
         /\ \A r \in d.right, l \in world[<<c, "a">>] : d.left = {} => exactIdentity(l) # exactIdentity(r)
  <1>1. c \in Comparable /\ d \in DriftsOf(c)
    BY DEF Answer
  <1>2. \A s \in Side : ~Known(<<c, s>>).partial
    BY <1>1, MissingNeedsComplete DEF DriftsOf
  <1>3. ASSUME NEW s \in Side
        PROVE  Known(<<c, s>>).resources = world[<<c, s>>]
    <2>1. <<c, s>> \in Job /\ ~Known(<<c, s>>).err /\ ~Known(<<c, s>>).partial
      BY <1>1, <1>2 DEF Job, Comparable
    <2> QED BY <2>1, CompleteIsWhole
  <1>4. d \in compareComponent(world[<<c, "a">>], world[<<c, "b">>], \A s \in Side : ~Known(<<c, s>>).partial)
    BY <1>1, <1>3 DEF DriftsOf, Side
  <1>5. \A s \in Side : world[<<c, s>>] \in SUBSET Resource /\ Unambiguous(world[<<c, s>>])
    BY DEF Job
  <1> HIDE DEF Known
  <1> QED BY <1>4, <1>5, MissingHasNoCounterpart DEF Side

LEMMA DriftNext == ASSUME Trustworthy PROVE DriftInv /\ [Next]_vars => DriftInv'
  <1> SUFFICES ASSUME DriftInv, [Next]_vars PROVE DriftInv'
    OBVIOUS
  <1> USE DEF DriftInv
  <1>1. CASE UNCHANGED <<world, result, response>>
    BY <1>1 DEF Whole, ParityIsEarned, MissingIsReal
  <1>2. ASSUME NEW j \in Job, CollectReturns(j)
        PROVE  DriftInv'
    <2> DEFINE collector == supportedComponents[j[1]]
    <2>1. PICK r \in Collected(collector, world[j]) \cup {NoResult} : result' = [result EXCEPT ![j] = r]
      BY <1>2 DEF CollectReturns
    <2>2. PassesOnGaps(collector)
      BY EngineAssumption, CollectorsPassOnGaps DEF Job, Trustworthy
    <2> HIDE DEF collector
    <2>3. r.err \/ r.partial \/ r.resources = world[j]
      BY <2>1, <2>2, CollectedWhole DEF NoResult
    <2>4. UNCHANGED <<world, response>>
      BY <1>2 DEF CollectReturns
    <2>5. DOMAIN result' = Job /\ Whole'
      BY <2>1, <2>3, <2>4 DEF Whole
    <2> QED BY <2>4, <2>5 DEF ParityIsEarned, MissingIsReal
  <1>3. CASE Respond
    <2>1. UNCHANGED <<world, result>> /\ response' = Answer
      BY <1>3 DEF Respond
    <2>2. ParityIsEarned'
      BY <2>1, AnswerEarnsParity DEF ParityIsEarned, Configuration
    <2>3. MissingIsReal'
      BY <2>1, AnswerMissingIsReal DEF MissingIsReal
    <2> QED BY <2>1, <2>2, <2>3 DEF Whole
  <1>4. \/ UNCHANGED <<world, result, response>>
        \/ \E j \in Job : CollectReturns(j)
        \/ Respond
    BY DEF Next, vars, ContextEnds, Acquire, Skip, Receive
  <1> QED BY <1>1, <1>2, <1>3, <1>4

THEOREM DriftInvariant == ASSUME Trustworthy PROVE Spec => []DriftInv
  BY DriftInit, DriftNext, PTL DEF Spec

(* For any components but the silent ones, any number of slots and any      *)
(* inventories without doubles: Compare (engine.go:79-178) says "parity"   *)
(* only of environments that are configured alike.                         *)
THEOREM ParityCorrect == ASSUME Trustworthy PROVE Spec => []ParityIsEarned
  <1>1. DriftInv => ParityIsEarned
    BY DEF DriftInv
  <1> QED BY <1>1, DriftInvariant, PTL

(* And what it then reports as missing is not there. *)
THEOREM MissingCorrect == ASSUME Trustworthy PROVE Spec => []MissingIsReal
  <1>1. DriftInv => MissingIsReal
    BY DEF DriftInv
  <1> QED BY <1>1, DriftInvariant, PTL

-----------------------------------------------------------------------------
(* What Collect returns of an inventory without doubles has none. *)
LEMMA CollectedUnambiguous ==
  ASSUME NEW collector, NEW inventory \in SUBSET Resource, Unambiguous(inventory),
         NEW r \in Collected(collector, inventory)
  PROVE  r.resources \in SUBSET Resource /\ Unambiguous(r.resources)
  <1>1. PICK outcome \in Returned(collector) :
          r \in UNION {Gathered(collector, inventory, outcome, lost) :
                         lost \in MayBeLost(collector, inventory, outcome)}
    BY DEF Collected
  <1>2. PICK lost \in MayBeLost(collector, inventory, outcome) : r \in Gathered(collector, inventory, outcome, lost)
    BY <1>1
  <1>3. PICK said \in collector.says :
          r \in UNION {Limited(collector, AsListed(inventory \ lost, bare), Gap(collector, outcome, said, bare)) :
                         bare \in SUBSET CanBeBare(collector, inventory \ lost)}
    BY <1>2 DEF Gathered
  <1>4. PICK bare \in SUBSET CanBeBare(collector, inventory \ lost) :
          r \in Limited(collector, AsListed(inventory \ lost, bare), Gap(collector, outcome, said, bare))
    BY <1>3
  <1>5. r.resources \subseteq AsListed(inventory \ lost, bare)
    BY <1>4 DEF Limited
  <1>6. ASSUME NEW q \in r.resources
        PROVE  \E x \in inventory : /\ exactIdentity(q) = exactIdentity(x)
                                    /\ q = IF x \in bare THEN [x EXCEPT !.config = Summary] ELSE x
    <2>1. PICK x \in inventory : q = IF x \in bare THEN [x EXCEPT !.config = Summary] ELSE x
      BY <1>5 DEF AsListed
    <2>2. q.kind = x.kind /\ q.name = x.name /\ q.place = x.place
      BY <2>1 DEF Resource
    <2> QED BY <2>1, <2>2 DEF exactIdentity
  <1>7. ASSUME NEW q \in r.resources
        PROVE  q \in Resource
    <2>1. PICK x \in inventory : q = IF x \in bare THEN [x EXCEPT !.config = Summary] ELSE x
      BY <1>6
    <2>2. x \in Resource
      OBVIOUS
    <2>3. CASE x \in bare
      <3>1. q = [kind |-> x.kind, name |-> x.name, place |-> x.place, serial |-> x.serial, config |-> Summary]
        BY <2>1, <2>2, <2>3 DEF Resource
      <3>2. /\ x.kind \in STRING /\ x.name \in STRING /\ x.place \in STRING /\ x.serial \in Nat
        BY <2>2 DEF Resource
      <3>3. [kind |-> x.kind, name |-> x.name, place |-> x.place, serial |-> x.serial, config |-> Summary]
              \in Resource
        BY <3>2, CollectorsAssumption DEF Resource
      <3> QED BY <3>1, <3>3
    <2>4. CASE x \notin bare
      BY <2>1, <2>2, <2>4
    <2> QED BY <2>3, <2>4
  <1>8. ASSUME NEW p \in r.resources, NEW q \in r.resources, exactIdentity(p) = exactIdentity(q)
        PROVE  p = q
    <2>1. PICK x \in inventory : /\ exactIdentity(p) = exactIdentity(x)
                                 /\ p = IF x \in bare THEN [x EXCEPT !.config = Summary] ELSE x
      BY <1>6
    <2>2. PICK y \in inventory : /\ exactIdentity(q) = exactIdentity(y)
                                 /\ q = IF y \in bare THEN [y EXCEPT !.config = Summary] ELSE y
      BY <1>6
    <2>3. x = y
      BY <1>8, <2>1, <2>2 DEF Unambiguous, Alike
    <2> QED BY <2>1, <2>2, <2>3
  <1> QED BY <1>7, <1>8 DEF Unambiguous, Alike

(* Without doubles, a pair is a pair whichever side it is looked at from. *)
LEMMA MatchUnambiguous ==
  ASSUME NEW a \in SUBSET Resource, NEW b \in SUBSET Resource, Unambiguous(a), Unambiguous(b),
         NEW l \in a, NEW r \in b
  PROVE  <<l, r>> \in matchResources(a, b) <=>
           \/ Identity(l) = Identity(r) /\ Group(a, l) = {l} /\ Group(b, r) = {r}
           \/ exactIdentity(l) = exactIdentity(r)
  <1>1. Alike(a, l) = {l} /\ Alike(b, r) = {r}
    BY DEF Unambiguous
  <1>2. l.serial \in Nat /\ r.serial \in Nat
    BY DEF Resource
  <1> QED BY <1>1, <1>2 DEF matchResources

LEMMA MatchMirrored ==
  ASSUME NEW a \in SUBSET Resource, NEW b \in SUBSET Resource, Unambiguous(a), Unambiguous(b),
         NEW l \in a, NEW r \in b
  PROVE  <<l, r>> \in matchResources(a, b) <=> <<r, l>> \in matchResources(b, a)
  BY MatchUnambiguous

(* matchResources gives a resource one counterpart. *)
LEMMA MatchOnce ==
  ASSUME NEW a \in SUBSET Resource, NEW b \in SUBSET Resource, Unambiguous(a), Unambiguous(b),
         NEW p \in matchResources(a, b), NEW q \in matchResources(a, b)
  PROVE  p[1] = q[1] <=> p[2] = q[2]
  <1>1. /\ p = <<p[1], p[2]>> /\ p[1] \in a /\ p[2] \in b
        /\ q = <<q[1], q[2]>> /\ q[1] \in a /\ q[2] \in b
    BY DEF matchResources
  <1>2. /\ \/ Identity(p[1]) = Identity(p[2]) /\ Group(a, p[1]) = {p[1]} /\ Group(b, p[2]) = {p[2]}
           \/ exactIdentity(p[1]) = exactIdentity(p[2])
        /\ \/ Identity(q[1]) = Identity(q[2]) /\ Group(a, q[1]) = {q[1]} /\ Group(b, q[2]) = {q[2]}
           \/ exactIdentity(q[1]) = exactIdentity(q[2])
    BY <1>1, MatchUnambiguous
  <1>3. \A x, y : exactIdentity(x) = exactIdentity(y) => Identity(x) = Identity(y)
    BY DEF exactIdentity, Identity
  <1>4. /\ \A x, y \in a : exactIdentity(x) = exactIdentity(y) => x = y
        /\ \A x, y \in b : exactIdentity(x) = exactIdentity(y) => x = y
    BY DEF Unambiguous, Alike
  <1> QED BY <1>1, <1>2, <1>3, <1>4 DEF Group

(* Neither side of the comparison is the baseline (compareComponent). *)
LEMMA ComparedMirrored ==
  ASSUME NEW a \in SUBSET Resource, NEW b \in SUBSET Resource, Unambiguous(a), Unambiguous(b), NEW complete,
         NEW d \in compareComponent(a, b, complete)
  PROVE  [left |-> d.right, right |-> d.left, status |-> d.status] \in compareComponent(b, a, complete)
  <1> DEFINE pairs == matchResources(a, b)
             mirrored == matchResources(b, a)
             swapped == [left |-> d.right, right |-> d.left, status |-> d.status]
  <1>1. \A x, y : <<x, y>> \in pairs => x \in a /\ y \in b
    BY DEF matchResources
  <1>2. \A x, y : <<y, x>> \in mirrored => x \in a /\ y \in b
    BY DEF matchResources
  <1>3. \A x, y : <<x, y>> \in pairs <=> <<y, x>> \in mirrored
    BY <1>1, <1>2, MatchMirrored
  <1>4. /\ \A p \in pairs : p = <<p[1], p[2]>>
        /\ \A p \in mirrored : p = <<p[1], p[2]>>
    BY DEF matchResources
  <1> HIDE DEF pairs, mirrored
  <1>5. CASE \E p \in pairs :
               d = [left |-> {p[1]}, right |-> {p[2]},
                    status |-> IF Equivalent(p[1], p[2]) THEN "equivalent" ELSE "different"]
    <2>1. PICK p \in pairs :
            d = [left |-> {p[1]}, right |-> {p[2]},
                 status |-> IF Equivalent(p[1], p[2]) THEN "equivalent" ELSE "different"]
      BY <1>5
    <2> DEFINE q == <<p[2], p[1]>>
    <2>2. q \in mirrored /\ q[1] = p[2] /\ q[2] = p[1]
      BY <1>3, <1>4
    <2> HIDE DEF q
    <2>3. swapped = [left |-> {q[1]}, right |-> {q[2]},
                     status |-> IF Equivalent(q[1], q[2]) THEN "equivalent" ELSE "different"]
      BY <2>1, <2>2 DEF Equivalent
    <2> QED BY <2>2, <2>3 DEF compareComponent, mirrored
  <1>6. CASE \E l \in a : d = [left |-> {l}, right |-> {}, status |-> Unmatched(complete)]
                          /\ \A p \in pairs : p[1] # l
    <2>1. PICK l \in a : /\ d = [left |-> {l}, right |-> {}, status |-> Unmatched(complete)]
                         /\ \A p \in pairs : p[1] # l
      BY <1>6
    <2>2. ASSUME NEW p \in mirrored
          PROVE  p[2] # l
      <3>1. <<p[2], p[1]>> \in pairs
        BY <1>3, <1>4
      <3> QED BY <2>1, <3>1
    <2>3. swapped = [left |-> {}, right |-> {l}, status |-> Unmatched(complete)]
      BY <2>1
    <2> QED BY <2>2, <2>3 DEF compareComponent, mirrored
  <1>7. CASE \E r \in b : d = [left |-> {}, right |-> {r}, status |-> Unmatched(complete)]
                          /\ \A p \in pairs : p[2] # r
    <2>1. PICK r \in b : /\ d = [left |-> {}, right |-> {r}, status |-> Unmatched(complete)]
                         /\ \A p \in pairs : p[2] # r
      BY <1>7
    <2>2. ASSUME NEW p \in mirrored
          PROVE  p[1] # r
      <3>1. <<p[2], p[1]>> \in pairs
        BY <1>3, <1>4
      <3> QED BY <2>1, <3>1
    <2>3. swapped = [left |-> {r}, right |-> {}, status |-> Unmatched(complete)]
      BY <2>1
    <2> QED BY <2>2, <2>3 DEF compareComponent, mirrored
  <1> QED BY <1>5, <1>6, <1>7 DEF compareComponent, pairs

(* A resource is in exactly one finding (compareComponent). *)
LEMMA ComparedOnce ==
  ASSUME NEW a \in SUBSET Resource, NEW b \in SUBSET Resource, Unambiguous(a), Unambiguous(b), NEW complete
  PROVE  /\ \A l \in a : \E e \in compareComponent(a, b, complete) : \A d \in compareComponent(a, b, complete) : l \in d.left <=> d = e
         /\ \A r \in b : \E e \in compareComponent(a, b, complete) : \A d \in compareComponent(a, b, complete) : r \in d.right <=> d = e
  <1> DEFINE pairs == matchResources(a, b)
             paired(p) == [left |-> {p[1]}, right |-> {p[2]},
                           status |-> IF Equivalent(p[1], p[2]) THEN "equivalent" ELSE "different"]
             onlyA(l) == [left |-> {l}, right |-> {}, status |-> Unmatched(complete)]
             onlyB(r) == [left |-> {}, right |-> {r}, status |-> Unmatched(complete)]
             drifts == compareComponent(a, b, complete)
  <1>1. drifts = {paired(p) : p \in pairs}
                   \cup {onlyA(l) : l \in {x \in a : \A p \in pairs : p[1] # x}}
                   \cup {onlyB(r) : r \in {x \in b : \A p \in pairs : p[2] # x}}
    BY Zenon DEF compareComponent
  <1>2. \A p, q \in pairs : (p[1] = q[1] <=> p[2] = q[2]) /\ p = <<p[1], p[2]>> /\ q = <<q[1], q[2]>>
    BY MatchOnce DEF matchResources
  <1>3. /\ \A p : paired(p).left = {p[1]} /\ paired(p).right = {p[2]}
        /\ \A x : onlyA(x).left = {x} /\ onlyA(x).right = {} /\ onlyB(x).left = {} /\ onlyB(x).right = {x}
    OBVIOUS
  <1> HIDE DEF pairs, paired, onlyA, onlyB, drifts
  <1>4. ASSUME NEW l \in a
        PROVE  \E e \in drifts : \A d \in drifts : l \in d.left <=> d = e
    <2>1. CASE \E p \in pairs : p[1] = l
      <3>1. PICK p \in pairs : p[1] = l
        BY <2>1
      <3>2. \A d \in drifts : l \in d.left => d = paired(p)
        BY <1>1, <1>2, <1>3, <3>1
      <3>3. paired(p) \in drifts /\ l \in paired(p).left
        BY <1>1, <1>3, <3>1
      <3> QED BY <3>2, <3>3
    <2>2. CASE \A p \in pairs : p[1] # l
      <3>1. \A d \in drifts : l \in d.left => d = onlyA(l)
        BY <1>1, <1>3, <2>2
      <3>2. onlyA(l) \in drifts /\ l \in onlyA(l).left
        BY <1>1, <1>3, <2>2
      <3> QED BY <3>1, <3>2
    <2> QED BY <2>1, <2>2
  <1>5. ASSUME NEW r \in b
        PROVE  \E e \in drifts : \A d \in drifts : r \in d.right <=> d = e
    <2>1. CASE \E p \in pairs : p[2] = r
      <3>1. PICK p \in pairs : p[2] = r
        BY <2>1
      <3>2. \A d \in drifts : r \in d.right => d = paired(p)
        BY <1>1, <1>2, <1>3, <3>1
      <3>3. paired(p) \in drifts /\ r \in paired(p).right
        BY <1>1, <1>3, <3>1
      <3> QED BY <3>2, <3>3
    <2>2. CASE \A p \in pairs : p[2] # r
      <3>1. \A d \in drifts : r \in d.right => d = onlyB(r)
        BY <1>1, <1>3, <2>2
      <3>2. onlyB(r) \in drifts /\ r \in onlyB(r).right
        BY <1>1, <1>3, <2>2
      <3> QED BY <3>1, <3>2
    <2> QED BY <2>1, <2>2
  <1> QED BY <1>4, <1>5 DEF drifts

(* The answer speaks of what is known, and what is known does not change    *)
(* after it.                                                               *)
SpeaksOfKnown ==
  response.given => \A c \in Comparable : response.compared[c] = DriftsOf(c)

SymmetryInv ==
  /\ DOMAIN result = Job /\ DOMAIN worker = Job
  /\ \A j \in Job : world[j] \in SUBSET Resource /\ Unambiguous(world[j])
  /\ \A j \in Job : result[j].resources \in SUBSET Resource /\ Unambiguous(result[j].resources)
  /\ SpeaksOfKnown

LEMMA NothingUnambiguous == {} \in SUBSET Resource /\ Unambiguous({})
  BY DEF Unambiguous

LEMMA SymmetryInit == ASSUME Trustworthy PROVE Init => SymmetryInv
  <1> SUFFICES ASSUME Init PROVE SymmetryInv
    OBVIOUS
  <1> USE DEF Init
  <1>1. \A j \in Job : world[j] \in SUBSET Resource /\ Unambiguous(world[j])
    BY EngineAssumption DEF Job, Trustworthy
  <1>2. SpeaksOfKnown
    BY DEF SpeaksOfKnown, NoResponse
  <1> QED BY <1>1, <1>2, NothingUnambiguous DEF SymmetryInv, NoResult

LEMMA SymmetryNext == ASSUME Trustworthy PROVE SymmetryInv /\ [Next]_vars => SymmetryInv'
  <1> SUFFICES ASSUME SymmetryInv, [Next]_vars PROVE SymmetryInv'
    OBVIOUS
  <1> USE DEF SymmetryInv
  <1>1. UNCHANGED world
    BY DEF Next, vars, ContextEnds, Acquire, Skip, CollectReturns, Receive, Respond
  <1>2. \/ UNCHANGED <<worker, result>>
        \/ \E j \in Job : CollectReturns(j)
        \/ \E j \in Job : UNCHANGED result /\ \E s \in WorkerState : worker' = [worker EXCEPT ![j] = s]
    BY DEF Next, vars, ContextEnds, Acquire, Skip, Receive, Respond, WorkerState
  <1>3. ASSUME NEW j \in Job, CollectReturns(j)
        PROVE  /\ DOMAIN result' = Job /\ DOMAIN worker' = Job
               /\ \A k \in Job : result'[k].resources \in SUBSET Resource /\ Unambiguous(result'[k].resources)
    <2> DEFINE collector == supportedComponents[j[1]]
    <2>1. PICK r \in Collected(collector, world[j]) \cup {NoResult} : result' = [result EXCEPT ![j] = r]
      BY <1>3 DEF CollectReturns
    <2>2. r.resources \in SUBSET Resource /\ Unambiguous(r.resources)
      <3> HIDE DEF collector
      <3>1. world[j] \in SUBSET Resource /\ Unambiguous(world[j])
        OBVIOUS
      <3>2. CASE r \in Collected(collector, world[j])
        BY <3>1, <3>2, CollectedUnambiguous
      <3>3. CASE r = NoResult
        BY <3>3, NothingUnambiguous DEF NoResult
      <3> QED BY <2>1, <3>2, <3>3
    <2>3. \A k \in Job : result'[k] = IF k = j THEN r ELSE result[k]
      BY <2>1
    <2>4. DOMAIN result' = Job /\ DOMAIN worker' = Job
      BY <1>3, <2>1 DEF CollectReturns
    <2> QED BY <2>2, <2>3, <2>4
  <1>4. /\ DOMAIN result' = Job /\ DOMAIN worker' = Job
        /\ \A k \in Job : result'[k].resources \in SUBSET Resource /\ Unambiguous(result'[k].resources)
    <2>1. CASE UNCHANGED <<worker, result>>
      BY <2>1
    <2>2. CASE \E j \in Job : UNCHANGED result /\ \E s \in WorkerState : worker' = [worker EXCEPT ![j] = s]
      BY <2>2
    <2> QED BY <1>2, <1>3, <2>1, <2>2
  <1>5. ASSUME response.given
        PROVE  response' = response /\ \A j \in Job : Known(j)' = Known(j)
    <2>1. CASE UNCHANGED <<worker, result, response>>
      BY <2>1 DEF Known
    <2>2. ASSUME NEW j \in Job, Acquire(j) \/ Skip(j)
          PROVE  response' = response /\ \A k \in Job : Known(k)' = Known(k)
      BY <2>2 DEF Acquire, Skip, Known
    <2>3. ASSUME NEW j \in Job, CollectReturns(j)
          PROVE  response' = response /\ \A k \in Job : Known(k)' = Known(k)
      <3>1. PICK r : result' = [result EXCEPT ![j] = r]
        BY <2>3 DEF CollectReturns
      <3> QED BY <2>3, <3>1 DEF CollectReturns, Known
    <2> QED BY <1>5, <2>1, <2>2, <2>3 DEF Next, vars, ContextEnds, Receive, Respond
  <1>6. SpeaksOfKnown'
    <2>1. CASE response.given
      <3>1. \A c \in Component, s \in Side : Known(<<c, s>>)' = Known(<<c, s>>)
        BY <1>5, <2>1 DEF Job
      <3>2. Comparable' = Comparable /\ \A c \in Component : DriftsOf(c)' = DriftsOf(c)
        BY <3>1 DEF Comparable, DriftsOf, Side
      <3> QED BY <1>5, <2>1, <3>2 DEF SpeaksOfKnown, Comparable
    <2>2. CASE Respond
      <3>1. response' = Answer /\ UNCHANGED <<worker, result>>
        BY <2>2 DEF Respond
      <3>2. Comparable' = Comparable /\ \A c \in Component : DriftsOf(c)' = DriftsOf(c)
        BY <3>1 DEF Comparable, DriftsOf, Known
      <3> QED BY <3>1, <3>2 DEF SpeaksOfKnown, Answer, Comparable
    <2>3. CASE ~response.given /\ response' = response
      BY <2>3 DEF SpeaksOfKnown
    <2> QED BY <2>1, <2>2, <2>3 DEF Next, vars, ContextEnds, Acquire, Skip, CollectReturns, Receive
  <1> QED BY <1>1, <1>4, <1>6

THEOREM SymmetryInvariant == ASSUME Trustworthy PROVE Spec => []SymmetryInv
  BY SymmetryInit, SymmetryNext, PTL DEF Spec

(* Whatever the environments hold, if nothing in them is doubled: exchanged, *)
(* they give the same findings with the sides exchanged                    *)
(* (compare.go:14-157).                                                    *)
THEOREM SymmetricCorrect == ASSUME Trustworthy PROVE Spec => []Symmetric
  <1>1. ASSUME SymmetryInv PROVE Symmetric
    <2> SUFFICES ASSUME response.given, NEW c \in Comparable
                 PROVE  compareComponent(Known(<<c, "b">>).resources, Known(<<c, "a">>).resources,
                                         \A s \in Side : ~Known(<<c, s>>).partial)
                          = Mirrored(response.compared[c])
      BY DEF Symmetric
    <2> DEFINE a == Known(<<c, "a">>).resources
               b == Known(<<c, "b">>).resources
               complete == \A s \in Side : ~Known(<<c, s>>).partial
    <2>1. response.compared[c] = compareComponent(a, b, complete)
      BY <1>1 DEF SymmetryInv, SpeaksOfKnown, DriftsOf
    <2>2. /\ a \in SUBSET Resource /\ Unambiguous(a)
          /\ b \in SUBSET Resource /\ Unambiguous(b)
      BY <1>1, NothingUnambiguous DEF SymmetryInv, Known, NoResult, Job, Side, Comparable
    <2> HIDE DEF a, b, complete
    <2>3. \A d \in compareComponent(a, b, complete) :
            [left |-> d.right, right |-> d.left, status |-> d.status] \in compareComponent(b, a, complete)
      BY <2>2, ComparedMirrored
    <2>4. \A d \in compareComponent(b, a, complete) :
            [left |-> d.right, right |-> d.left, status |-> d.status] \in compareComponent(a, b, complete)
      BY <2>2, ComparedMirrored
    <2>5. \A d \in compareComponent(b, a, complete) : d = [left |-> d.left, right |-> d.right, status |-> d.status]
      BY DEF compareComponent
    <2>6. compareComponent(b, a, complete) \subseteq Mirrored(compareComponent(a, b, complete))
      <3> SUFFICES ASSUME NEW d \in compareComponent(b, a, complete)
                   PROVE  d \in Mirrored(compareComponent(a, b, complete))
        OBVIOUS
      <3> DEFINE e == [left |-> d.right, right |-> d.left, status |-> d.status]
      <3>1. e \in compareComponent(a, b, complete)
        BY <2>4
      <3>2. d = [left |-> e.right, right |-> e.left, status |-> e.status]
        BY <2>5
      <3> QED BY <3>1, <3>2 DEF Mirrored
    <2> QED BY <2>1, <2>3, <2>6 DEF Mirrored, a, b, complete
  <1> QED BY <1>1, SymmetryInvariant, PTL

(* Every resource that was collected is in one finding, and only one: none  *)
(* is passed over and none is paired twice.                                *)
THEOREM EachOnceCorrect == ASSUME Trustworthy PROVE Spec => []EachOnce
  <1>1. ASSUME SymmetryInv PROVE EachOnce
    <2> SUFFICES ASSUME response.given, NEW c \in Comparable
                 PROVE  /\ \A l \in Known(<<c, "a">>).resources :
                             Cardinality({d \in response.compared[c] : l \in d.left}) = 1
                        /\ \A r \in Known(<<c, "b">>).resources :
                             Cardinality({d \in response.compared[c] : r \in d.right}) = 1
      BY DEF EachOnce
    <2> DEFINE a == Known(<<c, "a">>).resources
               b == Known(<<c, "b">>).resources
               complete == \A s \in Side : ~Known(<<c, s>>).partial
    <2>1. response.compared[c] = compareComponent(a, b, complete)
      BY <1>1 DEF SymmetryInv, SpeaksOfKnown, DriftsOf
    <2>2. /\ a \in SUBSET Resource /\ Unambiguous(a)
          /\ b \in SUBSET Resource /\ Unambiguous(b)
      BY <1>1, NothingUnambiguous DEF SymmetryInv, Known, NoResult, Job, Side, Comparable
    <2> HIDE DEF a, b, complete
    <2>3. ASSUME NEW l \in a
          PROVE  Cardinality({d \in compareComponent(a, b, complete) : l \in d.left}) = 1
      <3>1. PICK e \in compareComponent(a, b, complete) :
              \A d \in compareComponent(a, b, complete) : l \in d.left <=> d = e
        BY <2>2, ComparedOnce
      <3>2. {d \in compareComponent(a, b, complete) : l \in d.left} = {e}
        BY <3>1
      <3> QED BY <3>2, FS_Singleton
    <2>4. ASSUME NEW r \in b
          PROVE  Cardinality({d \in compareComponent(a, b, complete) : r \in d.right}) = 1
      <3>1. PICK e \in compareComponent(a, b, complete) :
              \A d \in compareComponent(a, b, complete) : r \in d.right <=> d = e
        BY <2>2, ComparedOnce
      <3>2. {d \in compareComponent(a, b, complete) : r \in d.right} = {e}
        BY <3>1
      <3> QED BY <3>2, FS_Singleton
    <2> QED BY <2>1, <2>3, <2>4 DEF a, b
  <1> QED BY <1>1, SymmetryInvariant, PTL
=============================================================================
