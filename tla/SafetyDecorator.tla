--------------------------- MODULE SafetyDecorator ---------------------------
(***************************************************************************)
(* The two-step dry-run / confirm protocol of internal/safety/decorator.go *)
(* over the plan store, with the three mutations it guards as the adapter  *)
(* performs them (gcp/gke.go, gcp/cloudrun.go, gcp/recommender_export.go). *)
(* Calls run concurrently; each remote call and each store method is a     *)
(* step.  There is one node pool, one Cloud Run service and one BigQuery   *)
(* table: plans for different targets share nothing but the store.         *)
(***************************************************************************)
EXTENDS PlanStore

CONSTANTS
  Call,        \* handler invocations that may run at the same time
  NoPlan,      \* the plan of a call that has none yet
  Value,       \* node counts and traffic splits a caller may ask for
  Rec,         \* what recommendations may be: [name, target, rest], rest for all else
  MaxOutside,  \* bound: changes made by anyone else
  MaxTime      \* bound: the clock

ASSUME DecoratorAssumption ==
  /\ NoPlan \notin PlanID
  /\ Kind \subseteq {"scale", "traffic", "export"}
  /\ Value \subseteq Nat
  /\ MaxOutside \in Nat
  /\ MaxTime \in Nat

VARIABLES
  job,       \* running call -> its local state
  size,      \* the pool's node count (external)
  service,   \* the service's etag and traffic split (external)
  recs,      \* the active recommendations, as they are now (external)
  table,     \* the rows of the BigQuery table (external)
  outside,   \* number of outside changes so far
  offer,     \* history: plan id -> what was offered, to whom, when
  succeeded, \* history: plans whose execution was reported successful
  applied    \* history: plan id -> times it changed the pool or service, up to 2

cloudVars == <<size, service, recs, table>>
historyVars == <<offer, succeeded, applied>>
vars == <<storeVars, job, cloudVars, outside, historyVars>>

Stage == {"store", "read", "write", "ok", "fail"}
Job == [stage: Stage, owner: Owner, plan: PlanID \cup {NoPlan},
        payload: Payload, read: Nat, rows: SUBSET Rec]

Executing(c) == job[c].stage \in {"read", "write", "ok", "fail"}
Goto(c, stage) == job' = [job EXCEPT ![c].stage = stage]
Done(c) == job' = Without(job, c)

(* What the adapter reads: the node count, or the etag; an export reads no *)
(* state that its confirmation compares.                                   *)
Observed(kind) ==
  CASE kind = "scale"   -> size
    [] kind = "traffic" -> service.etag
    [] OTHER            -> 0

(* preview.NoChangeNeeded; an export has no such answer. *)
NoChange(kind, want) ==
  \/ kind = "scale" /\ size = want
  \/ kind = "traffic" /\ service.split = want

(* Requests of a kind: an export has no parameter that matters here. *)
Wants(kind) == IF kind = "export" THEN {0} ELSE Value

(* Bound: a pool or service that no kind of plan is about never changes.   *)
Settings(kind) == IF kind \in Kind THEN Value ELSE {0}

Init ==
  /\ StoreInit
  /\ job = <<>>
  /\ size \in Settings("scale")
  /\ \E s \in Settings("traffic") : service = [etag |-> 0, split |-> s]
  /\ recs \in {listing \in SUBSET Rec : \A r, s \in listing : r.name = s.name => r = s}
  /\ table = {}
  /\ outside = 0
  /\ offer = <<>>
  /\ succeeded = {}
  /\ applied = [id \in PlanID |-> 0]

-----------------------------------------------------------------------------
(* Path 1, dry_run=true: the adapter's read.  A preview that fails or that *)
(* needs no change returns without a plan and leaves no trace.             *)
DryRun(c, owner, kind, want) ==
  /\ c \notin DOMAIN job
  /\ ~NoChange(kind, want)
  /\ job' = Store(job, c, [stage |-> "store", owner |-> owner, plan |-> NoPlan, read |-> 0, rows |-> {},
                           payload |-> [kind |-> kind, want |-> want, seen |-> Observed(kind)]])
  /\ UNCHANGED <<storeVars, cloudVars, outside, historyVars>>

(* uuid.New: an identifier never handed out before.  expiresIn only reads. *)
StorePlan(c, id) ==
  /\ c \in DOMAIN job /\ job[c].stage = "store"
  /\ id \notin DOMAIN offer
  /\ putScoped(id, job[c].owner, job[c].payload.kind, job[c].payload)
  /\ offer' = Store(offer, id, [owner |-> job[c].owner, payload |-> job[c].payload, at |-> now])
  /\ Done(c)
  /\ UNCHANGED <<now, cloudVars, outside, succeeded, applied>>

RefusePlan(c) ==
  /\ c \in DOMAIN job /\ job[c].stage = "store"
  /\ putRefused
  /\ Done(c)
  /\ UNCHANGED <<now, cloudVars, outside, historyVars>>

-----------------------------------------------------------------------------
(* Path 2, confirm_plan_id=id: any caller may name any plan it has heard   *)
(* of, with any of the three operations.  The executed request is the      *)
(* stored one; ExpectedCount or ExpectedEtag is what the preview saw.      *)
Confirm(c, owner, kind, id) ==
  /\ c \notin DOMAIN job
  /\ claim(id, owner, kind)
  /\ job' = Store(job, c, [stage |-> "read", owner |-> owner, plan |-> id, read |-> 0, rows |-> {},
                           payload |-> entries[id].payload])
  /\ UNCHANGED <<now, cloudVars, outside, historyVars>>

RejectConfirm(c, owner, kind, id) ==
  /\ c \notin DOMAIN job
  /\ claimRefused(id, owner, kind)
  /\ UNCHANGED <<now, job, cloudVars, outside, historyVars>>

(* A remote call of the execution fails, or finds the target changed since *)
(* the preview (ConfirmationRequiredError).                                *)
ExecutionFails(c) ==
  /\ c \in DOMAIN job /\ job[c].stage \in {"read", "write"}
  /\ Goto(c, "fail")
  /\ UNCHANGED <<storeVars, cloudVars, outside, historyVars>>

(* Mutant of MatchesPreview: the precondition is not set from the preview. *)
MatchesAnything(payload) == TRUE

(* GetNodePool / GetService with the precondition on what the preview saw, *)
(* or the export's listing of the recommendations active now.              *)
(* As no plan is made for a request that needs no change, NoChange cannot  *)
(* hold here: the target is as the preview saw it.                         *)
MatchesPreview(payload) == Observed(payload.kind) = payload.seen

ReadTarget(c) ==
  /\ c \in DOMAIN job /\ job[c].stage = "read"
  /\ MatchesPreview(job[c].payload)
  /\ job' = [job EXCEPT ![c].stage = "write",
                        ![c].read = Observed(job[c].payload.kind),
                        ![c].rows = IF job[c].payload.kind = "export" THEN recs ELSE {}]
  /\ UNCHANGED <<storeVars, cloudVars, outside, historyVars>>

CountApplied(id) == applied' = [applied EXCEPT ![id] = IF @ < 2 THEN @ + 1 ELSE 2]

(* The node count goes out with no precondition of its own.  The reply may *)
(* be lost after the resize was accepted.                                  *)
SetNodePoolSize(c) ==
  /\ c \in DOMAIN job /\ job[c].stage = "write" /\ job[c].payload.kind = "scale"
  /\ size' = job[c].payload.want
  /\ CountApplied(job[c].plan)
  /\ \E reply \in {"ok", "fail"} : Goto(c, reply)
  /\ UNCHANGED <<storeVars, service, recs, table, outside, offer, succeeded>>

(* The request carries the etag just read and Cloud Run refuses any other. *)
(* The reply, or op.Wait, may fail after the update was accepted.          *)
UpdateService(c) ==
  /\ c \in DOMAIN job /\ job[c].stage = "write" /\ job[c].payload.kind = "traffic"
  /\ service.etag = job[c].read
  /\ service' = [etag |-> service.etag + 1, split |-> job[c].payload.want]
  /\ CountApplied(job[c].plan)
  /\ \E reply \in {"ok", "fail"} : Goto(c, reply)
  /\ UNCHANGED <<storeVars, size, recs, table, outside, offer, succeeded>>

(* Mutant of insertID: it digests all of the row, not only its target. *)
insertIDOfRow(plan, rec) == <<plan, rec>>

(* row.insertID digests the plan id, the recommendation's name, and its    *)
(* subtype and target as they are now; the description, savings, priority  *)
(* and time of the row are not in it.                                      *)
insertID(plan, rec) == <<plan, rec.name, rec.target>>

(* Inserter.Put: BigQuery takes no second row with an insert id it has, so *)
(* the row of an earlier attempt stays as it is; a failed Put may have     *)
(* inserted some of the rows.                                              *)
Put(plan, rows, reply) ==
  \E new \in SUBSET {[id |-> insertID(plan, rec), plan |-> plan, rec |-> rec] : rec \in rows} :
    /\ \A r \in new : \A s \in table \cup new : r.id = s.id => r = s
    /\ reply = "ok" => \A rec \in rows : \E s \in table \cup new : s.id = insertID(plan, rec)
    /\ table' = table \cup new

InsertRows(c) ==
  /\ c \in DOMAIN job /\ job[c].stage = "write" /\ job[c].payload.kind = "export"
  /\ \E reply \in {"ok", "fail"} : Put(job[c].plan, job[c].rows, reply) /\ Goto(c, reply)
  /\ UNCHANGED <<storeVars, size, service, recs, outside, historyVars>>

(* Mutants of FinishPlan: an error return that forgets the plan, and a     *)
(* success that releases it.                                               *)
FinishOnlySuccess(c) ==
  IF job[c].stage = "ok" THEN finish(job[c].plan, TRUE) ELSE UNCHANGED entries

FinishReleases(c) == finish(job[c].plan, FALSE)

FinishPlan(c) == finish(job[c].plan, job[c].stage = "ok")

Finish(c) ==
  /\ c \in DOMAIN job /\ job[c].stage \in {"ok", "fail"}
  /\ FinishPlan(c)
  /\ succeeded' = IF job[c].stage = "ok" THEN succeeded \cup {job[c].plan} ELSE succeeded
  /\ Done(c)
  /\ UNCHANGED <<now, cloudVars, outside, offer, applied>>

-----------------------------------------------------------------------------
(* Everyone else: other tools and operators change the same resources. *)
OutsideChange ==
  /\ outside < MaxOutside
  /\ outside' = outside + 1
  /\ \/ /\ "scale" \in Kind /\ \E n \in Value : size' = n
        /\ UNCHANGED <<service, recs>>
     \/ /\ "traffic" \in Kind /\ \E s \in Value : service' = [etag |-> service.etag + 1, split |-> s]
        /\ UNCHANGED <<size, recs>>
     \/ \E r \in Rec, remains \in BOOLEAN :
          /\ recs' = {s \in recs : s.name # r.name} \cup (IF remains THEN {r} ELSE {})
          /\ UNCHANGED <<size, service>>
  /\ UNCHANGED <<storeVars, job, table, historyVars>>

Tick ==
  /\ now < MaxTime
  /\ now' = now + 1
  /\ UNCHANGED <<entries, job, cloudVars, outside, historyVars>>

(* The process restarts: the store and the running calls are memory. *)
Restart ==
  /\ entries' = <<>>
  /\ job' = <<>>
  /\ UNCHANGED <<now, cloudVars, outside, historyVars>>

Serve(c) ==
  \/ \E id \in PlanID : StorePlan(c, id)
  \/ RefusePlan(c)
  \/ ReadTarget(c) \/ ExecutionFails(c)
  \/ SetNodePoolSize(c) \/ UpdateService(c) \/ InsertRows(c)
  \/ Finish(c)

Next ==
  \/ \E c \in Call, owner \in Owner, kind \in Kind :
       \/ \E want \in Wants(kind) : DryRun(c, owner, kind, want)
       \/ \E id \in DOMAIN offer :
            Confirm(c, owner, kind, id) \/ RejectConfirm(c, owner, kind, id)
  \/ \E c \in Call : Serve(c)
  \/ OutsideChange \/ Tick \/ Restart

Spec == Init /\ [][Next]_vars

(* A started call runs to its end: every remote call has a deadline.       *)
FairSpec == Spec /\ \A c \in Call : WF_vars(Serve(c))

-----------------------------------------------------------------------------
OfferRecord == [owner: Owner, payload: Payload, at: Nat]

JobTypeOK ==
  /\ DOMAIN job \subseteq Call
  /\ job \in [DOMAIN job -> Job]
  /\ \A c \in DOMAIN job : Executing(c) => job[c].plan \in PlanID

TypeOK ==
  /\ StoreTypeOK
  /\ JobTypeOK
  /\ size \in Nat
  /\ service \in [etag: Nat, split: Nat]
  /\ recs \subseteq Rec
  /\ \A row \in table : row.plan \in PlanID /\ row.rec \in Rec
  /\ outside \in Nat
  /\ DOMAIN offer \subseteq PlanID
  /\ offer \in [DOMAIN offer -> OfferRecord]
  /\ succeeded \subseteq PlanID
  /\ applied \in [PlanID -> 0..2]

(* The runs that execute plan id. *)
Executions(id) == {c \in DOMAIN job : Executing(c) /\ job[c].plan = id}

(* A leased plan is always held by exactly one running confirmation, and   *)
(* no second confirmation of a plan ever runs beside the first, whatever   *)
(* expires or is purged meanwhile: claim and finish pair up on every path. *)
LeaseHasOneHolder ==
  \A id \in PlanID :
    /\ \A c, d \in Executions(id) : c = d
    /\ id \in DOMAIN entries => (entries[id].inFlight <=> Executions(id) # {})

(* What runs is the request that was previewed, for the caller and session *)
(* it was previewed for, against the state it was previewed on: no         *)
(* confirmation borrows another caller's plan or changes its parameters.   *)
ExecutesTheOffer ==
  \A c \in DOMAIN job :
    Executing(c) =>
      /\ job[c].plan \in DOMAIN offer
      /\ job[c].owner = offer[job[c].plan].owner
      /\ job[c].payload = offer[job[c].plan].payload

(* The store never holds more than MaxPendingPlans plans, however many     *)
(* previews race for the last place.                                       *)
CapacityHeld == Cardinality(DOMAIN entries) <= MaxPendingPlans

(* A retried export loses no row and repeats none (recommender_export.go). *)
(* One that reports success has a row for every recommendation it read, if *)
(* need be from an earlier attempt of its plan that failed half way; and   *)
(* whatever a recommendation comes to say between the attempts, the plan   *)
(* has two rows of it only if it was given another target meanwhile.       *)
ExportRowOnce ==
  /\ \A c \in DOMAIN job : job[c].stage = "ok" =>
       \A rec \in job[c].rows : \E r \in table :
         r.plan = job[c].plan /\ r.rec.name = rec.name /\ r.rec.target = rec.target
  /\ \A r, s \in table : r.plan = s.plan /\ r.rec.name = s.rec.name /\ r # s => r.rec.target # s.rec.target

(* A traffic plan changes the service at most once, even when executions   *)
(* fail after taking effect and are retried: the etag has moved on.        *)
TrafficAppliedOnce ==
  \A id \in DOMAIN offer : offer[id].payload.kind = "traffic" => applied[id] <= 1

(* A confirmed traffic update only ever starts from the very version of    *)
(* the service that its preview showed, across concurrent plans, outside   *)
(* changes and the time between the adapter's read and its write.          *)
TrafficFromPreview ==
  [][service # service' /\ outside' = outside =>
       \E c \in DOMAIN job :
         /\ job[c].stage = "write"
         /\ offer[job[c].plan].payload.seen = service.etag
         /\ offer[job[c].plan].payload.want = service'.split]_vars

(* No plan stays leased for good: a confirmation that fails gives its plan *)
(* back and one that succeeds removes it.                                  *)
LeaseEnds ==
  \A id \in PlanID :
    (id \in DOMAIN entries /\ entries[id].inFlight)
      ~> (id \in DOMAIN entries => ~entries[id].inFlight)

(* The store and its handlers keep the promise of SingleUsePlan. *)
phase ==
  [id \in PlanID |->
     IF Executions(id) # {} THEN "executing"
     ELSE IF id \in succeeded THEN "consumed"
     ELSE IF id \in DOMAIN entries THEN "offered"
     ELSE IF id \in DOMAIN offer THEN "withdrawn"
     ELSE "none"]

deadline == [id \in PlanID |-> IF id \in DOMAIN offer THEN offer[id].at + PlanTTL ELSE 0]

Promise == INSTANCE SingleUsePlan WITH
  PlanID <- PlanID, PlanTTL <- PlanTTL, phase <- phase, deadline <- deadline, now <- now

KeepsPromise == Promise!Spec
=============================================================================
