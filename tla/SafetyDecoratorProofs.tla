------------------------ MODULE SafetyDecoratorProofs ------------------------
(***************************************************************************)
(* Proofs about SafetyDecorator, for any number of callers, calls, plans,  *)
(* any lifetime and capacity, and any values of the bounds.                *)
(***************************************************************************)
EXTENDS SafetyDecorator, FiniteSetTheorems, TLAPS

(* What purgeExpired leaves. *)
LEMMA PurgeFacts ==
  ASSUME StoreTypeOK
  PROVE  /\ DOMAIN purgeExpired = {id \in DOMAIN entries : ~Expired(id)}
         /\ DOMAIN purgeExpired \subseteq PlanID
         /\ purgeExpired \in [DOMAIN purgeExpired -> planEntry]
         /\ IsFiniteSet(DOMAIN purgeExpired)
         /\ \A id \in DOMAIN purgeExpired : purgeExpired[id] = entries[id]
  <1> DEFINE kept == {id \in DOMAIN entries : ~Expired(id)}
  <1>1. IsFiniteSet(kept)
    BY FS_Subset DEF StoreTypeOK
  <1>2. purgeExpired = Restrict(entries, kept)
    BY DEF purgeExpired
  <1> HIDE DEF kept
  <1>3. kept \subseteq DOMAIN entries
    BY DEF kept
  <1>4. /\ DOMAIN purgeExpired = kept
        /\ purgeExpired \in [kept -> planEntry]
        /\ \A id \in kept : purgeExpired[id] = entries[id]
    BY <1>2, <1>3 DEF Restrict, StoreTypeOK
  <1> QED
    BY <1>1, <1>3, <1>4 DEF kept, StoreTypeOK

(* Every method of the store keeps its type. *)
LEMMA StoreMethodsType ==
  ASSUME StoreTypeOK, now' = now, PlanStoreAssumption,
         NEW id \in PlanID, NEW owner \in Owner, NEW kind \in Kind,
         NEW payload \in Payload, NEW success \in BOOLEAN,
         \/ putScoped(id, owner, kind, payload)
         \/ putRefused
         \/ claim(id, owner, kind)
         \/ claimRefused(id, owner, kind)
         \/ finish(id, success)
  PROVE  StoreTypeOK'
  <1>1. CASE putScoped(id, owner, kind, payload)
    <2>1. [payload |-> payload, kind |-> kind, owner |-> owner,
           expiresAt |-> now + PlanTTL, inFlight |-> FALSE] \in planEntry
      BY DEF planEntry, StoreTypeOK, PlanStoreAssumption
    <2>2. IsFiniteSet(DOMAIN purgeExpired \cup {id})
      BY PurgeFacts, FS_AddElement
    <2> DEFINE e == [payload |-> payload, kind |-> kind, owner |-> owner,
                     expiresAt |-> now + PlanTTL, inFlight |-> FALSE]
    <2>3. e \in planEntry
      BY <2>1
    <2>4. entries' = Store(purgeExpired, id, e)
      BY <1>1 DEF putScoped
    <2> HIDE DEF e
    <2>5. /\ DOMAIN entries' = DOMAIN purgeExpired \cup {id}
          /\ entries' \in [DOMAIN entries' -> planEntry]
      BY <2>3, <2>4, PurgeFacts DEF Store
    <2> QED
      BY <2>2, <2>5, PurgeFacts DEF StoreTypeOK
  <1>2. CASE putRefused \/ claimRefused(id, owner, kind)
    BY <1>2, PurgeFacts DEF putRefused, claimRefused, StoreTypeOK
  <1>3. CASE claim(id, owner, kind)
    <2>1. id \in DOMAIN purgeExpired /\ purgeExpired[id] \in planEntry
      BY <1>3, PurgeFacts DEF claim, Claimable
    <2>2. [purgeExpired[id] EXCEPT !.inFlight = TRUE] \in planEntry
      BY <2>1 DEF planEntry
    <2>3. DOMAIN entries' = DOMAIN purgeExpired /\ entries' \in [DOMAIN purgeExpired -> planEntry]
      BY <1>3, <2>1, <2>2, PurgeFacts DEF claim
    <2> QED
      BY <2>3, PurgeFacts DEF StoreTypeOK
  <1>4. CASE finish(id, success)
    <2>1. IsFiniteSet(DOMAIN entries \ {id})
      BY FS_Subset DEF StoreTypeOK
    <2>2. CASE id \in DOMAIN entries /\ entries' = Restrict(entries, DOMAIN entries \ {id})
      BY <2>1, <2>2 DEF Restrict, StoreTypeOK
    <2>3. CASE id \in DOMAIN entries /\ entries' = [entries EXCEPT ![id].inFlight = FALSE]
      BY <2>3 DEF StoreTypeOK, planEntry
    <2>4. CASE UNCHANGED entries
      BY <2>4 DEF StoreTypeOK
    <2> QED
      BY <1>4, <2>2, <2>3, <2>4 DEF finish, Without
  <1> QED
    BY <1>1, <1>2, <1>3, <1>4

(* A running call moves on, from one stage of an execution to another. *)
LEMMA GotoFacts ==
  ASSUME JobTypeOK, NEW c \in DOMAIN job, NEW stage \in Stage, Executing(c), Goto(c, stage)
  PROVE  /\ DOMAIN job' = DOMAIN job
         /\ job'[c] = [job[c] EXCEPT !.stage = stage]
         /\ \A d \in DOMAIN job \ {c} : job'[d] = job[d]
         /\ JobTypeOK'
  <1>1. job[c] \in Job /\ job[c].plan \in PlanID
    BY DEF JobTypeOK
  <1>2. /\ [job[c] EXCEPT !.stage = stage] \in Job
        /\ [job[c] EXCEPT !.stage = stage].plan \in PlanID
    BY <1>1 DEF Job
  <1>3. job' = [job EXCEPT ![c] = [job[c] EXCEPT !.stage = stage]]
    BY DEF Goto
  <1> QED
    BY <1>2, <1>3 DEF JobTypeOK, Executing

(* A call returns. *)
LEMMA DoneFacts ==
  ASSUME JobTypeOK, NEW c \in DOMAIN job, Done(c)
  PROVE  /\ DOMAIN job' = DOMAIN job \ {c}
         /\ \A d \in DOMAIN job' : job'[d] = job[d]
         /\ JobTypeOK'
  BY DEF JobTypeOK, Done, Without, Restrict, Executing

(* A call starts. *)
LEMMA NewJobFacts ==
  ASSUME JobTypeOK, NEW c \in Call, c \notin DOMAIN job, NEW j \in Job,
         j.stage = "store" \/ j.plan \in PlanID,
         job' = Store(job, c, j)
  PROVE  /\ DOMAIN job' = DOMAIN job \cup {c}
         /\ job'[c] = j
         /\ \A d \in DOMAIN job : job'[d] = job[d]
         /\ JobTypeOK'
  BY DEF JobTypeOK, Store, Executing

LEMMA ObservedType ==
  ASSUME TypeOK, NEW kind PROVE Observed(kind) \in Nat
  BY DEF TypeOK, Observed

LEMMA InitType == Init => TypeOK
  <1> SUFFICES ASSUME Init PROVE TypeOK
    OBVIOUS
  <1>1. StoreTypeOK
    BY FS_EmptySet DEF Init, StoreInit, StoreTypeOK
  <1>2. size \in Nat /\ service \in [etag: Nat, split: Nat]
    BY DecoratorAssumption DEF Init, Settings
  <1>3. JobTypeOK
    BY DEF Init, JobTypeOK
  <1> QED
    BY <1>1, <1>2, <1>3 DEF Init, TypeOK

LEMMA NextType == TypeOK /\ [Next]_vars => TypeOK'
  <1> SUFFICES ASSUME TypeOK, [Next]_vars PROVE TypeOK'
    OBVIOUS
  <1> USE PlanStoreAssumption, DecoratorAssumption
  <1>j. JobTypeOK
    BY DEF TypeOK
  <1>1. ASSUME NEW c \in Call, NEW owner \in Owner, NEW kind \in Kind,
               NEW want \in Wants(kind), DryRun(c, owner, kind, want)
        PROVE  TypeOK'
    <2> DEFINE p == [kind |-> kind, want |-> want, seen |-> Observed(kind)]
               j == [stage |-> "store", owner |-> owner, plan |-> NoPlan, read |-> 0,
                     rows |-> {}, payload |-> p]
    <2>1. p \in Payload
      BY ObservedType DEF Payload, Wants
    <2>2. j \in Job /\ j.stage = "store"
      BY <2>1 DEF Job, Stage
    <2>3. c \notin DOMAIN job /\ job' = Store(job, c, j)
      BY <1>1 DEF DryRun
    <2> HIDE DEF j
    <2>4. JobTypeOK'
      BY <1>j, <2>2, <2>3, NewJobFacts
    <2> QED
      BY <1>1, <2>4 DEF DryRun, TypeOK, StoreTypeOK, storeVars, cloudVars, historyVars
  <1>2. ASSUME NEW c \in Call, NEW id \in PlanID, StorePlan(c, id)
        PROVE  TypeOK'
    <2>1. c \in DOMAIN job /\ job[c] \in Job
      BY <1>2 DEF StorePlan, TypeOK, JobTypeOK
    <2>2. /\ job[c].owner \in Owner /\ job[c].payload \in Payload
          /\ job[c].payload.kind \in Kind
      BY <2>1 DEF Job, Payload
    <2>3. StoreTypeOK'
      BY <1>2, <2>2, StoreMethodsType DEF StorePlan, TypeOK
    <2>4. JobTypeOK'
      BY <1>j, <1>2, <2>1, DoneFacts DEF StorePlan
    <2>5. [owner |-> job[c].owner, payload |-> job[c].payload, at |-> now] \in OfferRecord
      BY <2>2 DEF OfferRecord, TypeOK, StoreTypeOK
    <2>6. DOMAIN offer' \subseteq PlanID /\ offer' \in [DOMAIN offer' -> OfferRecord]
      BY <1>2, <2>5 DEF StorePlan, TypeOK, Store
    <2> QED
      BY <1>2, <2>3, <2>4, <2>6 DEF StorePlan, TypeOK, cloudVars
  <1>3. ASSUME NEW c \in Call, RefusePlan(c)
        PROVE  TypeOK'
    <2>1. StoreTypeOK'
      BY <1>3, PurgeFacts DEF RefusePlan, putRefused, TypeOK, StoreTypeOK
    <2>2. JobTypeOK'
      BY <1>j, <1>3, DoneFacts DEF RefusePlan
    <2> QED
      BY <1>3, <2>1, <2>2 DEF RefusePlan, TypeOK, cloudVars, historyVars
  <1>4. ASSUME NEW c \in Call, NEW owner \in Owner, NEW kind \in Kind,
               NEW id \in DOMAIN offer, Confirm(c, owner, kind, id)
        PROVE  TypeOK'
    <2> DEFINE j == [stage |-> "read", owner |-> owner, plan |-> id, read |-> 0,
                     rows |-> {}, payload |-> entries[id].payload]
    <2>1. id \in DOMAIN entries /\ id \in PlanID
      BY <1>4, PurgeFacts DEF Confirm, claim, Claimable, TypeOK
    <2>2. entries[id].payload \in Payload
      BY <2>1 DEF TypeOK, StoreTypeOK, planEntry
    <2>3. j \in Job /\ j.plan \in PlanID
      BY <2>1, <2>2 DEF Job, Stage
    <2>4. c \notin DOMAIN job /\ job' = Store(job, c, j)
      BY <1>4 DEF Confirm
    <2> HIDE DEF j
    <2>5. JobTypeOK'
      BY <1>j, <2>3, <2>4, NewJobFacts
    <2>6. StoreTypeOK'
      BY <1>4, <2>1, <2>2, StoreMethodsType DEF Confirm, TypeOK
    <2> QED
      BY <1>4, <2>5, <2>6 DEF Confirm, TypeOK, cloudVars, historyVars
  <1>5. ASSUME NEW c \in Call, NEW owner \in Owner, NEW kind \in Kind,
               NEW id \in DOMAIN offer, RejectConfirm(c, owner, kind, id)
        PROVE  TypeOK'
    <2>1. StoreTypeOK'
      BY <1>5, PurgeFacts DEF RejectConfirm, claimRefused, TypeOK, StoreTypeOK
    <2> QED
      BY <1>5, <2>1 DEF RejectConfirm, TypeOK, JobTypeOK, Executing, cloudVars, historyVars
  <1>6. ASSUME NEW c \in Call, ReadTarget(c)
        PROVE  TypeOK'
    <2> DEFINE j == [job[c] EXCEPT !.stage = "write", !.read = Observed(job[c].payload.kind),
                       !.rows = IF job[c].payload.kind = "export" THEN recs ELSE {}]
    <2>1. c \in DOMAIN job /\ job[c] \in Job /\ job[c].plan \in PlanID
      BY <1>6 DEF ReadTarget, TypeOK, JobTypeOK, Executing
    <2>2. j \in Job /\ j.plan \in PlanID
      BY <2>1, ObservedType DEF Job, Stage, TypeOK
    <2>3. job' = [job EXCEPT ![c] = j]
      BY <1>6 DEF ReadTarget
    <2> HIDE DEF j
    <2>4. JobTypeOK'
      BY <1>j, <2>1, <2>2, <2>3 DEF JobTypeOK, Executing
    <2> QED
      BY <1>6, <2>4 DEF ReadTarget, TypeOK, StoreTypeOK, storeVars, cloudVars, historyVars
  <1>7. ASSUME NEW c \in Call, ExecutionFails(c)
        PROVE  TypeOK'
    <2>1. JobTypeOK'
      BY <1>j, <1>7, GotoFacts DEF ExecutionFails, Stage, Executing
    <2> QED
      BY <1>7, <2>1 DEF ExecutionFails, TypeOK, StoreTypeOK, storeVars, cloudVars, historyVars
  <1>8. ASSUME NEW c \in Call, SetNodePoolSize(c) \/ UpdateService(c) \/ InsertRows(c)
        PROVE  TypeOK'
    <2>1. /\ c \in DOMAIN job /\ job[c] \in Job /\ Executing(c)
          /\ \E reply \in {"ok", "fail"} : Goto(c, reply)
      BY <1>8 DEF SetNodePoolSize, UpdateService, InsertRows, TypeOK, JobTypeOK, Executing
    <2>2. JobTypeOK'
      BY <1>j, <2>1, GotoFacts DEF Stage
    <2>3. /\ job[c].payload.want \in Nat /\ job[c].rows \subseteq Rec
          /\ job[c].plan \in PlanID
      BY <1>j, <2>1 DEF Job, Payload, JobTypeOK
    <2>4. CASE SetNodePoolSize(c)
      BY <2>2, <2>3, <2>4 DEF SetNodePoolSize, CountApplied, TypeOK, StoreTypeOK, storeVars
    <2>5. CASE UpdateService(c)
      BY <2>2, <2>3, <2>5 DEF UpdateService, CountApplied, TypeOK, StoreTypeOK, storeVars
    <2>6. CASE InsertRows(c)
      <3>1. UNCHANGED <<storeVars, size, service, recs, outside, historyVars>>
        BY <2>6 DEF InsertRows
      <3>2. PICK reply \in {"ok", "fail"} : Put(job[c].plan, job[c].rows, reply)
        BY <2>6 DEF InsertRows
      <3>3. \A row \in table' : row.plan \in PlanID /\ row.rec \in Rec
        BY <2>3, <3>2 DEF Put, TypeOK
      <3> QED
        BY <2>2, <3>1, <3>3 DEF TypeOK, StoreTypeOK, storeVars, historyVars
    <2> QED
      BY <1>8, <2>4, <2>5, <2>6
  <1>9. ASSUME NEW c \in Call, Finish(c)
        PROVE  TypeOK'
    <2>1. c \in DOMAIN job /\ job[c] \in Job /\ job[c].plan \in PlanID
      BY <1>9 DEF Finish, TypeOK, JobTypeOK, Executing
    <2>2. JobTypeOK'
      BY <1>j, <1>9, DoneFacts DEF Finish
    <2>3. job[c].owner \in Owner /\ job[c].payload \in Payload /\ job[c].payload.kind \in Kind
      BY <2>1 DEF Job, Payload
    <2>4. finish(job[c].plan, job[c].stage = "ok") /\ (job[c].stage = "ok") \in BOOLEAN
      BY <1>9 DEF Finish, FinishPlan
    <2>5. StoreTypeOK'
      BY <1>9, <2>1, <2>3, <2>4, StoreMethodsType DEF Finish, TypeOK
    <2> QED
      BY <1>9, <2>1, <2>2, <2>5 DEF Finish, TypeOK, cloudVars
  <1>10. CASE OutsideChange
    BY <1>10 DEF OutsideChange, TypeOK, JobTypeOK, Executing, StoreTypeOK, storeVars, historyVars
  <1>11. CASE Tick
    BY <1>11 DEF Tick, TypeOK, JobTypeOK, Executing, StoreTypeOK, cloudVars, historyVars
  <1>12. CASE Restart
    <2>1. StoreTypeOK'
      BY <1>12, FS_EmptySet DEF Restart, StoreTypeOK, TypeOK
    <2>2. JobTypeOK'
      BY <1>12 DEF Restart, JobTypeOK
    <2> QED
      BY <1>12, <2>1, <2>2 DEF Restart, TypeOK, cloudVars, historyVars
  <1>13. CASE UNCHANGED vars
    BY <1>13 DEF vars, storeVars, cloudVars, historyVars, TypeOK, JobTypeOK, Executing, StoreTypeOK
  <1> QED
    BY <1>1, <1>2, <1>3, <1>4, <1>5, <1>6, <1>7, <1>8, <1>9, <1>10, <1>11, <1>12, <1>13
    DEF Next, Serve

(* Types hold throughout, whatever the number of callers, calls and plans. *)
THEOREM TypeCorrect == Spec => []TypeOK
  BY InitType, NextType, PTL DEF Spec

-----------------------------------------------------------------------------
(***************************************************************************)
(* The inductive invariant.  LeaseHasOneHolder alone is not inductive: that *)
(* a claim meets no older execution of the same plan rests on every entry  *)
(* being an offer, on an identifier being offered once, and on a plan that *)
(* succeeded being gone.                                                   *)
(***************************************************************************)
EntriesAreOffers ==
  \A id \in DOMAIN entries :
    /\ id \in DOMAIN offer
    /\ entries[id].owner = offer[id].owner
    /\ entries[id].payload = offer[id].payload
    /\ entries[id].kind = offer[id].payload.kind
    /\ entries[id].expiresAt = offer[id].at + PlanTTL

SucceededIsGone ==
  \A id \in succeeded :
    id \in DOMAIN offer /\ id \notin DOMAIN entries /\ Executions(id) = {}

Safe ==
  /\ EntriesAreOffers
  /\ ExecutesTheOffer
  /\ LeaseHasOneHolder
  /\ SucceededIsGone

(* What each store method does to every entry. *)
LEMMA PutEffect ==
  ASSUME StoreTypeOK, NEW id, NEW e, entries' = Store(purgeExpired, id, e)
  PROVE  /\ id \in DOMAIN entries' /\ entries'[id] = e
         /\ \A x \in DOMAIN entries' \ {id} : x \in DOMAIN entries /\ entries'[x] = entries[x]
         /\ \A x \in DOMAIN entries \ {id} : x \notin DOMAIN entries' => Expired(x)
  BY PurgeFacts DEF Store

LEMMA PurgeEffect ==
  ASSUME StoreTypeOK, entries' = purgeExpired
  PROVE  /\ \A x \in DOMAIN entries' : x \in DOMAIN entries /\ entries'[x] = entries[x]
         /\ \A x \in DOMAIN entries : x \notin DOMAIN entries' => Expired(x)
  BY PurgeFacts

LEMMA ClaimEffect ==
  ASSUME StoreTypeOK, NEW id, NEW owner, NEW kind, claim(id, owner, kind)
  PROVE  /\ id \in DOMAIN entries /\ id \in DOMAIN entries'
         /\ ~Expired(id) /\ ~entries[id].inFlight
         /\ entries[id].owner = owner /\ entries[id].kind = kind
         /\ entries'[id].payload = entries[id].payload
         /\ entries'[id].kind = kind /\ entries'[id].owner = owner
         /\ entries'[id].expiresAt = entries[id].expiresAt
         /\ entries'[id].inFlight = TRUE
         /\ \A x \in DOMAIN entries' \ {id} : x \in DOMAIN entries /\ entries'[x] = entries[x]
         /\ \A x \in DOMAIN entries \ {id} : x \notin DOMAIN entries' => Expired(x)
  <1> DEFINE e == [purgeExpired[id] EXCEPT !.inFlight = TRUE]
  <1>1. /\ id \in DOMAIN purgeExpired /\ ~entries[id].inFlight
        /\ entries[id].owner = owner /\ entries[id].kind = kind
        /\ entries' = [purgeExpired EXCEPT ![id] = e]
    BY DEF claim, Claimable
  <1>2. purgeExpired[id] = entries[id] /\ entries[id] \in planEntry
    BY <1>1, PurgeFacts
  <1>3. /\ e.payload = entries[id].payload /\ e.kind = kind /\ e.owner = owner
        /\ e.inFlight = TRUE /\ e.expiresAt = entries[id].expiresAt
    BY <1>1, <1>2 DEF planEntry
  <1> HIDE DEF e
  <1>4. /\ DOMAIN entries' = DOMAIN purgeExpired
        /\ entries'[id] = e
        /\ \A x \in DOMAIN purgeExpired \ {id} : entries'[x] = purgeExpired[x]
    BY <1>1, PurgeFacts
  <1> QED
    BY <1>1, <1>3, <1>4, PurgeFacts

LEMMA FinishEffect ==
  ASSUME StoreTypeOK, NEW id, NEW success, finish(id, success)
  PROVE  /\ \A x \in DOMAIN entries' \ {id} : x \in DOMAIN entries /\ entries'[x] = entries[x]
         /\ \A x \in DOMAIN entries \ {id} : x \in DOMAIN entries'
         /\ id \in DOMAIN entries' =>
              /\ ~success /\ ~Expired(id) /\ id \in DOMAIN entries
              /\ entries'[id].payload = entries[id].payload
              /\ entries'[id].kind = entries[id].kind
              /\ entries'[id].owner = entries[id].owner
              /\ entries'[id].expiresAt = entries[id].expiresAt
              /\ entries'[id].inFlight = FALSE
         /\ id \in DOMAIN entries /\ id \notin DOMAIN entries' => success \/ Expired(id)
  <1>1. CASE id \notin DOMAIN entries /\ UNCHANGED entries
    BY <1>1
  <1>2. CASE /\ id \in DOMAIN entries /\ (success \/ Expired(id))
             /\ entries' = Restrict(entries, DOMAIN entries \ {id})
    BY <1>2 DEF Restrict
  <1>3. CASE /\ id \in DOMAIN entries /\ ~success /\ ~Expired(id)
             /\ entries' = [entries EXCEPT ![id].inFlight = FALSE]
    BY <1>3 DEF StoreTypeOK, planEntry
  <1> QED
    BY <1>1, <1>2, <1>3 DEF finish, Without

(* A step that starts no execution, ends none, and at most purges. *)
LEMMA QuietStep ==
  ASSUME Safe, UNCHANGED <<offer, succeeded>>,
         \A x \in DOMAIN entries' : x \in DOMAIN entries /\ entries'[x] = entries[x],
         \A d \in DOMAIN job : Executing(d) =>
           /\ d \in DOMAIN job' /\ Executing(d)'
           /\ job'[d].plan = job[d].plan /\ job'[d].owner = job[d].owner
           /\ job'[d].payload = job[d].payload,
         \A d \in DOMAIN job' : Executing(d)' => d \in DOMAIN job /\ Executing(d)
  PROVE  Safe'
  <1>1. \A id : Executions(id)' = Executions(id)
    BY DEF Executions
  <1>2. EntriesAreOffers'
    BY DEF Safe, EntriesAreOffers
  <1>3. ExecutesTheOffer'
    BY DEF Safe, ExecutesTheOffer
  <1>4. LeaseHasOneHolder'
    BY <1>1 DEF Safe, LeaseHasOneHolder
  <1>5. SucceededIsGone'
    BY <1>1 DEF Safe, SucceededIsGone
  <1> QED
    BY <1>2, <1>3, <1>4, <1>5 DEF Safe

(* An identifier never offered has no entry and no execution to confuse    *)
(* the new plan with.                                                      *)
LEMMA StorePlanSafe ==
  ASSUME TypeOK, Safe, NEW c \in Call, NEW id \in PlanID, StorePlan(c, id)
  PROVE  Safe'
  <1>1. /\ c \in DOMAIN job /\ ~Executing(c) /\ id \notin DOMAIN offer
        /\ putScoped(id, job[c].owner, job[c].payload.kind, job[c].payload)
    BY DEF StorePlan, Executing
  <1>2. /\ DOMAIN job' = DOMAIN job \ {c}
        /\ \A d \in DOMAIN job' : job'[d] = job[d]
    BY DoneFacts DEF StorePlan, TypeOK
  <1> DEFINE o == [owner |-> job[c].owner, payload |-> job[c].payload, at |-> now]
  <1>3. /\ DOMAIN offer' = DOMAIN offer \cup {id} /\ offer'[id] = o
        /\ \A x \in DOMAIN offer : offer'[x] = offer[x]
    BY <1>1 DEF StorePlan, Store
  <1>o. o.owner = job[c].owner /\ o.payload = job[c].payload /\ o.at = now
    OBVIOUS
  <1> HIDE DEF o
  <1>4. /\ id \in DOMAIN entries'
        /\ entries'[id].payload = o.payload /\ entries'[id].kind = o.payload.kind
        /\ entries'[id].owner = o.owner /\ entries'[id].inFlight = FALSE
        /\ entries'[id].expiresAt = o.at + PlanTTL
        /\ \A x \in DOMAIN entries' \ {id} : x \in DOMAIN entries /\ entries'[x] = entries[x]
    <2> DEFINE e == [payload |-> job[c].payload, kind |-> job[c].payload.kind,
                     owner |-> job[c].owner, expiresAt |-> now + PlanTTL, inFlight |-> FALSE]
    <2>1. entries' = Store(purgeExpired, id, e)
      BY <1>1 DEF putScoped
    <2>2. /\ e.payload = o.payload /\ e.kind = o.payload.kind /\ e.owner = o.owner
          /\ e.inFlight = FALSE /\ e.expiresAt = o.at + PlanTTL
      BY <1>o
    <2> HIDE DEF e
    <2>3. /\ id \in DOMAIN entries' /\ entries'[id] = e
          /\ \A x \in DOMAIN entries' \ {id} : x \in DOMAIN entries /\ entries'[x] = entries[x]
      BY <2>1, PutEffect DEF TypeOK
    <2> QED
      BY <2>2, <2>3
  <1>5. \A x : Executions(x)' = Executions(x)
    BY <1>1, <1>2 DEF Executions, Executing
  <1>6. id \notin DOMAIN entries /\ Executions(id) = {} /\ id \notin succeeded
    BY <1>1 DEF Safe, EntriesAreOffers, ExecutesTheOffer, SucceededIsGone, Executions
  <1>7. EntriesAreOffers'
    BY <1>3, <1>4 DEF Safe, EntriesAreOffers
  <1>8. ExecutesTheOffer'
    BY <1>1, <1>2, <1>3 DEF Safe, ExecutesTheOffer, Executing
  <1>9. LeaseHasOneHolder'
    BY <1>4, <1>5, <1>6 DEF Safe, LeaseHasOneHolder
  <1>10. SucceededIsGone'
    BY <1>3, <1>4, <1>5, <1>6 DEF Safe, SucceededIsGone, StorePlan
  <1> QED
    BY <1>7, <1>8, <1>9, <1>10 DEF Safe

(* A claim finds the plan unleased, hence no older execution of it. *)
LEMMA ConfirmSafe ==
  ASSUME TypeOK, Safe, NEW c \in Call, NEW owner \in Owner, NEW kind \in Kind,
         NEW id \in DOMAIN offer, Confirm(c, owner, kind, id)
  PROVE  Safe'
  <1> DEFINE j == [stage |-> "read", owner |-> owner, plan |-> id, read |-> 0,
                   rows |-> {}, payload |-> entries[id].payload]
  <1>1. c \notin DOMAIN job /\ job' = Store(job, c, j) /\ claim(id, owner, kind)
    BY DEF Confirm
  <1>2. /\ j.stage = "read" /\ j.owner = owner /\ j.plan = id
        /\ j.payload = entries[id].payload
    OBVIOUS
  <1> HIDE DEF j
  <1>3. /\ DOMAIN job' = DOMAIN job \cup {c} /\ job'[c] = j
        /\ \A d \in DOMAIN job : job'[d] = job[d]
    BY <1>1 DEF Store
  <1>4. /\ id \in DOMAIN entries /\ id \in DOMAIN entries'
        /\ ~entries[id].inFlight
        /\ entries[id].owner = owner
        /\ entries'[id].inFlight = TRUE
        /\ entries'[id].owner = entries[id].owner /\ entries'[id].kind = entries[id].kind
        /\ entries'[id].payload = entries[id].payload
        /\ entries'[id].expiresAt = entries[id].expiresAt
        /\ \A x \in DOMAIN entries' \ {id} : x \in DOMAIN entries /\ entries'[x] = entries[x]
    BY <1>1, ClaimEffect DEF TypeOK
  <1>5. id \in PlanID
    BY <1>4 DEF TypeOK, StoreTypeOK
  <1>7. UNCHANGED <<offer, succeeded>>
    BY DEF Confirm, historyVars
  <1>8. Executions(id) = {}
    BY <1>4, <1>5 DEF Safe, LeaseHasOneHolder
  <1>9. /\ Executions(id)' = {c}
        /\ \A x : x # id => Executions(x)' = Executions(x)
    BY <1>1, <1>2, <1>3, <1>8 DEF Executions, Executing
  <1>10. EntriesAreOffers'
    BY <1>4, <1>7 DEF Safe, EntriesAreOffers
  <1>11. ExecutesTheOffer'
    BY <1>2, <1>3, <1>4, <1>7 DEF Safe, ExecutesTheOffer, EntriesAreOffers, Executing
  <1>12. LeaseHasOneHolder'
    <2> SUFFICES ASSUME NEW x \in PlanID
        PROVE  /\ \A d, e \in Executions(x)' : d = e
               /\ x \in DOMAIN entries' => (entries'[x].inFlight <=> Executions(x)' # {})
      BY DEF LeaseHasOneHolder
    <2>1. CASE x = id
      BY <1>4, <1>9, <2>1
    <2>2. CASE x # id
      BY <1>4, <1>9, <2>2 DEF Safe, LeaseHasOneHolder
    <2> QED
      BY <2>1, <2>2
  <1>13. SucceededIsGone'
    BY <1>4, <1>7, <1>9 DEF Safe, SucceededIsGone
  <1> QED
    BY <1>10, <1>11, <1>12, <1>13 DEF Safe

(* The only execution of the plan returns: its lease goes with it. *)
LEMMA FinishSafe ==
  ASSUME TypeOK, Safe, NEW c \in Call, Finish(c)
  PROVE  Safe'
  <1>0. c \in DOMAIN job /\ Executing(c) /\ job[c].plan \in PlanID
    BY DEF Finish, TypeOK, JobTypeOK, Executing
  <1> PICK id \in PlanID : id = job[c].plan
    BY <1>0
  <1> PICK won \in BOOLEAN : won = (job[c].stage = "ok")
    OBVIOUS
  <1>1. c \in DOMAIN job /\ Executing(c) /\ id = job[c].plan
    BY <1>0
  <1>2. /\ DOMAIN job' = DOMAIN job \ {c}
        /\ \A d \in DOMAIN job' : job'[d] = job[d]
    BY <1>1, DoneFacts DEF Finish, TypeOK
  <1>3. /\ finish(id, won) /\ offer' = offer
        /\ succeeded' = IF won THEN succeeded \cup {id} ELSE succeeded
    BY DEF Finish, FinishPlan
  <1>4. /\ \A x \in DOMAIN entries' \ {id} : x \in DOMAIN entries /\ entries'[x] = entries[x]
        /\ id \in DOMAIN entries' =>
             /\ ~won /\ id \in DOMAIN entries
             /\ entries'[id].inFlight = FALSE
             /\ entries'[id].owner = entries[id].owner /\ entries'[id].kind = entries[id].kind
             /\ entries'[id].payload = entries[id].payload
             /\ entries'[id].expiresAt = entries[id].expiresAt
    BY <1>3, FinishEffect DEF TypeOK
  <1>6. Executions(id) = {c} /\ id \in DOMAIN offer
    BY <1>1 DEF Safe, LeaseHasOneHolder, ExecutesTheOffer, Executions
  <1>7. /\ Executions(id)' = {}
        /\ \A x : x # id => Executions(x)' = Executions(x)
    <2>1. \A x : Executions(x)' = Executions(x) \ {c}
      BY <1>2 DEF Executions, Executing
    <2>2. \A x : x # id => c \notin Executions(x)
      BY DEF Executions
    <2> QED
      BY <1>6, <2>1, <2>2
  <1>8. EntriesAreOffers'
    BY <1>3, <1>4 DEF Safe, EntriesAreOffers
  <1>9. ExecutesTheOffer'
    BY <1>2, <1>3 DEF Safe, ExecutesTheOffer, Executing
  <1>10. LeaseHasOneHolder'
    <2> SUFFICES ASSUME NEW x \in PlanID
        PROVE  /\ \A d, e \in Executions(x)' : d = e
               /\ x \in DOMAIN entries' => (entries'[x].inFlight <=> Executions(x)' # {})
      BY DEF LeaseHasOneHolder
    <2>1. CASE x = id
      BY <1>4, <1>7, <2>1
    <2>2. CASE x # id
      BY <1>4, <1>7, <2>2 DEF Safe, LeaseHasOneHolder
    <2> QED
      BY <2>1, <2>2
  <1>11. SucceededIsGone'
    BY <1>3, <1>4, <1>6, <1>7 DEF Safe, SucceededIsGone
  <1> QED
    BY <1>8, <1>9, <1>10, <1>11 DEF Safe

LEMMA InitSafe == Init => Safe
  BY DEF Init, StoreInit, Safe, EntriesAreOffers, ExecutesTheOffer, LeaseHasOneHolder,
         SucceededIsGone, Executions

LEMMA NextSafe == TypeOK /\ Safe /\ [Next]_vars => Safe'
  <1> SUFFICES ASSUME TypeOK, Safe, [Next]_vars PROVE Safe'
    OBVIOUS
  <1>t. StoreTypeOK /\ JobTypeOK
    BY DEF TypeOK
  <1>1. ASSUME NEW c \in Call, NEW owner \in Owner, NEW kind \in Kind,
               NEW want \in Wants(kind), DryRun(c, owner, kind, want)
        PROVE  Safe'
    <2> DEFINE j == [stage |-> "store", owner |-> owner, plan |-> NoPlan, read |-> 0, rows |-> {},
                     payload |-> [kind |-> kind, want |-> want, seen |-> Observed(kind)]]
    <2>1. c \notin DOMAIN job /\ job' = Store(job, c, j) /\ j.stage = "store"
      BY <1>1 DEF DryRun
    <2> HIDE DEF j
    <2>2. /\ DOMAIN job' = DOMAIN job \cup {c} /\ job'[c].stage = "store"
          /\ \A d \in DOMAIN job : job'[d] = job[d]
      BY <2>1 DEF Store
    <2>3. UNCHANGED <<entries, offer, succeeded>>
      BY <1>1 DEF DryRun, storeVars, historyVars
    <2> QED
      BY <2>1, <2>2, <2>3, QuietStep DEF Executing
  <1>2. ASSUME NEW c \in Call, RefusePlan(c)
        PROVE  Safe'
    <2>1. /\ DOMAIN job' = DOMAIN job \ {c} /\ ~Executing(c)
          /\ \A d \in DOMAIN job' : job'[d] = job[d]
      BY <1>2, <1>t, DoneFacts DEF RefusePlan, Executing
    <2>2. \A x \in DOMAIN entries' : x \in DOMAIN entries /\ entries'[x] = entries[x]
      BY <1>2, <1>t, PurgeEffect DEF RefusePlan, putRefused
    <2>3. UNCHANGED <<offer, succeeded>>
      BY <1>2 DEF RefusePlan, historyVars
    <2> QED
      BY <2>1, <2>2, <2>3, QuietStep DEF Executing
  <1>3. ASSUME NEW c, NEW owner, NEW kind, NEW id, RejectConfirm(c, owner, kind, id)
        PROVE  Safe'
    <2>1. \A x \in DOMAIN entries' : x \in DOMAIN entries /\ entries'[x] = entries[x]
      BY <1>3, <1>t, PurgeEffect DEF RejectConfirm, claimRefused
    <2>2. UNCHANGED <<job, offer, succeeded>>
      BY <1>3 DEF RejectConfirm, historyVars
    <2> QED
      BY <2>1, <2>2, QuietStep DEF Executing
  <1>4. ASSUME NEW c \in Call,
               \/ ReadTarget(c) \/ ExecutionFails(c)
               \/ SetNodePoolSize(c) \/ UpdateService(c) \/ InsertRows(c)
        PROVE  Safe'
    <2>1. UNCHANGED <<entries, offer, succeeded>>
      BY <1>4 DEF ReadTarget, ExecutionFails, SetNodePoolSize, UpdateService, InsertRows,
                  storeVars, historyVars
    <2>2. c \in DOMAIN job /\ Executing(c) /\ job[c] \in Job
      BY <1>4, <1>t DEF ReadTarget, ExecutionFails, SetNodePoolSize, UpdateService, InsertRows,
                  Executing, JobTypeOK
    <2>3. \/ job' = [job EXCEPT ![c].stage = "write",
                                 ![c].read = Observed(job[c].payload.kind),
                                 ![c].rows = IF job[c].payload.kind = "export" THEN recs ELSE {}]
          \/ \E reply \in {"ok", "fail"} : job' = [job EXCEPT ![c].stage = reply]
      BY <1>4 DEF ReadTarget, ExecutionFails, SetNodePoolSize, UpdateService, InsertRows, Goto
    <2>4. /\ DOMAIN job' = DOMAIN job
          /\ \A d \in DOMAIN job \ {c} : job'[d] = job[d]
          /\ job'[c].stage \in {"write", "ok", "fail"} /\ job'[c].plan = job[c].plan
          /\ job'[c].owner = job[c].owner /\ job'[c].payload = job[c].payload
      BY <1>t, <2>2, <2>3 DEF Job, JobTypeOK
    <2> QED
      BY <2>1, <2>2, <2>4, QuietStep DEF Executing
  <1>5. CASE OutsideChange \/ Tick \/ UNCHANGED vars
    <2>1. UNCHANGED <<entries, job, offer, succeeded>>
      BY <1>5 DEF OutsideChange, Tick, vars, storeVars, historyVars
    <2> QED
      BY <2>1, QuietStep DEF Executing
  <1>6. CASE Restart
    <2>1. /\ entries' = <<>> /\ job' = <<>> /\ UNCHANGED <<offer, succeeded>>
      BY <1>6 DEF Restart, historyVars
    <2>2. \A id : Executions(id)' = {}
      BY <2>1 DEF Executions
    <2>3. SucceededIsGone'
      BY <2>1, <2>2 DEF Safe, SucceededIsGone
    <2> QED
      BY <2>1, <2>2, <2>3 DEF Safe, EntriesAreOffers, ExecutesTheOffer, LeaseHasOneHolder
  <1> QED
    BY <1>1, <1>2, <1>3, <1>4, <1>5, <1>6, StorePlanSafe, ConfirmSafe, FinishSafe
    DEF Next, Serve

LEMMA SafeAlways == Spec => []Safe
  BY TypeCorrect, InitSafe, NextSafe, PTL DEF Spec

(* Two confirmations of one plan never overlap and every lease has a       *)
(* running confirmation behind it: claim and finish pair up (store.go).    *)
THEOREM LeaseCorrect == Spec => []LeaseHasOneHolder
  BY SafeAlways, PTL DEF Safe

(* A confirmation executes the previewed request, and only for the caller  *)
(* that previewed it (decorator.go, Path 2).                               *)
THEOREM OfferCorrect == Spec => []ExecutesTheOffer
  BY SafeAlways, PTL DEF Safe

-----------------------------------------------------------------------------
LEMMA StoreShrinks ==
  ASSUME StoreTypeOK, CapacityHeld, DOMAIN entries' \subseteq DOMAIN entries
  PROVE  CapacityHeld'
  BY FS_Subset, FS_CardinalityType, PlanStoreAssumption DEF StoreTypeOK, CapacityHeld

(* The store never grows past its capacity: the purge and the count share  *)
(* the critical section with the insertion (store.go:47).                  *)
THEOREM CapacityCorrect == Spec => []CapacityHeld
  <1>1. Init => CapacityHeld
    BY FS_EmptySet, PlanStoreAssumption DEF Init, StoreInit, CapacityHeld
  <1>2. TypeOK /\ CapacityHeld /\ [Next]_vars => CapacityHeld'
    <2> SUFFICES ASSUME TypeOK, CapacityHeld, [Next]_vars PROVE CapacityHeld'
      OBVIOUS
    <2>t. StoreTypeOK
      BY DEF TypeOK
    <2>1. ASSUME NEW c \in Call, NEW id \in PlanID, StorePlan(c, id)
          PROVE  CapacityHeld'
      <3>1. /\ Cardinality(DOMAIN purgeExpired) < MaxPendingPlans
            /\ DOMAIN entries' = DOMAIN purgeExpired \cup {id}
        BY <2>1 DEF StorePlan, putScoped, HasRoom, Store
      <3>2. IsFiniteSet(DOMAIN purgeExpired)
        BY <2>t, PurgeFacts
      <3> PICK kept : kept = DOMAIN purgeExpired
        OBVIOUS
      <3>3. /\ Cardinality(kept) \in Nat
            /\ Cardinality(kept \cup {id}) = IF id \in kept THEN Cardinality(kept)
                                                             ELSE Cardinality(kept) + 1
        BY <3>2, FS_AddElement, FS_CardinalityType
      <3>4. Cardinality(kept \cup {id}) <= MaxPendingPlans
        BY <3>1, <3>3, PlanStoreAssumption
      <3> QED
        BY <3>1, <3>4 DEF CapacityHeld
    <2>2. ASSUME NEW c, NEW owner, NEW kind, NEW id,
                 Confirm(c, owner, kind, id) \/ RejectConfirm(c, owner, kind, id) \/ RefusePlan(c)
          PROVE  DOMAIN entries' \subseteq DOMAIN entries
      BY <2>2, <2>t, PurgeFacts DEF Confirm, RejectConfirm, RefusePlan, claim, claimRefused, putRefused
    <2>3. ASSUME NEW c, Finish(c)
          PROVE  DOMAIN entries' \subseteq DOMAIN entries
      BY <2>3, <2>t DEF Finish, FinishPlan, finish, Without, Restrict, StoreTypeOK
    <2>4. ASSUME NEW c, NEW owner, NEW kind, NEW want,
                 \/ DryRun(c, owner, kind, want) \/ ReadTarget(c) \/ ExecutionFails(c)
                 \/ SetNodePoolSize(c) \/ UpdateService(c) \/ InsertRows(c)
                 \/ OutsideChange \/ Tick \/ Restart \/ UNCHANGED vars
          PROVE  DOMAIN entries' \subseteq DOMAIN entries
      BY <2>4 DEF DryRun, ReadTarget, ExecutionFails, SetNodePoolSize, UpdateService, InsertRows,
                  OutsideChange, Tick, Restart, vars, storeVars
    <2> QED
      BY <2>t, <2>1, <2>2, <2>3, <2>4, StoreShrinks DEF Next, Serve
  <1> QED
    BY <1>1, <1>2, TypeCorrect, PTL DEF Spec

-----------------------------------------------------------------------------
(***************************************************************************)
(* What an execution does to the service.  The etag links the preview, the *)
(* read and the write: an execution that has read is at the etag of its    *)
(* preview, and a traffic plan that took effect has left that etag behind. *)
(***************************************************************************)
ReadIsPreview ==
  \A c \in DOMAIN job :
    job[c].stage = "write" /\ job[c].payload.kind = "traffic" => job[c].read = job[c].payload.seen

AppliedMovedOn ==
  \A id \in PlanID :
    applied[id] # 0 =>
      /\ id \in DOMAIN offer
      /\ offer[id].payload.kind = "traffic" =>
           applied[id] = 1 /\ offer[id].payload.seen < service.etag

Effects == ReadIsPreview /\ AppliedMovedOn

(* Steps that write to no target. *)
LEMMA EffectsKept ==
  ASSUME Effects, TypeOK, TypeOK', applied' = applied, service'.etag >= service.etag,
         \A id \in DOMAIN offer : id \in DOMAIN offer' /\ offer'[id] = offer[id],
         \A c \in DOMAIN job' :
           job'[c].stage = "write" => c \in DOMAIN job /\ job'[c] = job[c]
  PROVE  Effects'
  <1>1. ReadIsPreview'
    BY DEF Effects, ReadIsPreview
  <1>2. AppliedMovedOn'
    <2> SUFFICES ASSUME NEW id \in PlanID, applied'[id] # 0
        PROVE  /\ id \in DOMAIN offer'
               /\ offer'[id].payload.kind = "traffic" =>
                    applied'[id] = 1 /\ offer'[id].payload.seen < service'.etag
      BY DEF AppliedMovedOn
    <2>1. /\ id \in DOMAIN offer /\ offer'[id] = offer[id] /\ id \in DOMAIN offer'
          /\ offer[id].payload.kind = "traffic" =>
               applied[id] = 1 /\ offer[id].payload.seen < service.etag
      BY DEF Effects, AppliedMovedOn
    <2>2. offer[id].payload.seen \in Nat /\ service.etag \in Nat /\ service'.etag \in Nat
      BY <2>1 DEF TypeOK, OfferRecord, Payload
    <2> QED
      BY <2>1, <2>2
  <1> QED
    BY <1>1, <1>2 DEF Effects

(* The target is read: it is as the preview saw it. *)
LEMMA ReadEffect ==
  ASSUME TypeOK, TypeOK', Effects, NEW c \in Call, ReadTarget(c)
  PROVE  Effects'
  <1>1. c \in DOMAIN job /\ job[c] \in Job
    BY DEF ReadTarget, TypeOK, JobTypeOK
  <1>2. /\ DOMAIN job' = DOMAIN job
        /\ \A d \in DOMAIN job \ {c} : job'[d] = job[d]
        /\ job'[c].payload = job[c].payload /\ job'[c].read = Observed(job[c].payload.kind)
    BY <1>1 DEF ReadTarget, Job, TypeOK, JobTypeOK
  <1>3. job'[c].read = job'[c].payload.seen
    BY <1>2 DEF ReadTarget, MatchesPreview
  <1>4. ReadIsPreview'
    BY <1>2, <1>3 DEF Effects, ReadIsPreview
  <1>5. UNCHANGED <<applied, offer, service>>
    BY DEF ReadTarget, cloudVars, historyVars
  <1> QED
    BY <1>4, <1>5 DEF Effects, AppliedMovedOn

(* A target is changed: a traffic plan has not been applied before, since  *)
(* the service still has the etag of its preview.                          *)
LEMMA WriteEffect ==
  ASSUME TypeOK, TypeOK', ExecutesTheOffer, Effects, NEW c \in Call,
         SetNodePoolSize(c) \/ UpdateService(c)
  PROVE  Effects'
  <1>1. /\ c \in DOMAIN job /\ job[c] \in Job /\ Executing(c) /\ job[c].stage = "write"
        /\ job[c].plan \in PlanID
    BY DEF SetNodePoolSize, UpdateService, TypeOK, JobTypeOK, Executing
  <1> PICK id \in PlanID : id = job[c].plan
    BY <1>1
  <1>2. /\ id \in DOMAIN offer /\ offer[id].payload = job[c].payload /\ offer' = offer
    BY <1>1 DEF ExecutesTheOffer, SetNodePoolSize, UpdateService
  <1>3. /\ DOMAIN job' = DOMAIN job /\ job'[c].stage # "write"
        /\ \A d \in DOMAIN job \ {c} : job'[d] = job[d]
    <2>1. PICK reply \in {"ok", "fail"} : Goto(c, reply)
      BY DEF SetNodePoolSize, UpdateService
    <2>2. job'[c] = [job[c] EXCEPT !.stage = reply]
      BY <1>1, <2>1, GotoFacts DEF TypeOK, Stage
    <2>3. job'[c].stage = reply
      BY <1>1, <2>2 DEF Job
    <2> QED
      BY <1>1, <2>1, <2>3, GotoFacts DEF TypeOK, Stage
  <1>4. ReadIsPreview'
    BY <1>3 DEF Effects, ReadIsPreview
  <1>5. /\ applied[id] \in 0..2
        /\ applied'[id] = IF applied[id] < 2 THEN applied[id] + 1 ELSE 2
        /\ \A x \in PlanID \ {id} : applied'[x] = applied[x]
    BY DEF SetNodePoolSize, UpdateService, CountApplied, TypeOK
  <1>6. service.etag \in Nat /\ offer[id].payload.seen \in Nat
    BY <1>2 DEF TypeOK, OfferRecord, Payload
  <1>7. CASE SetNodePoolSize(c)
    <2>1. offer[id].payload.kind = "scale" /\ service' = service
      BY <1>2, <1>7 DEF SetNodePoolSize
    <2>2. AppliedMovedOn'
      BY <1>2, <1>5, <2>1 DEF Effects, AppliedMovedOn
    <2> QED
      BY <1>4, <2>2 DEF Effects
  <1>8. CASE UpdateService(c)
    <2>1. /\ offer[id].payload.kind = "traffic" /\ service'.etag = service.etag + 1
          /\ offer[id].payload.seen = service.etag
      BY <1>1, <1>2, <1>8 DEF UpdateService, Effects, ReadIsPreview
    <2>2. applied[id] = 0
      BY <1>6, <2>1 DEF Effects, AppliedMovedOn
    <2>3. applied'[id] = 1 /\ offer[id].payload.seen < service'.etag
      BY <1>5, <1>6, <2>1, <2>2
    <2>4. AppliedMovedOn'
      <3> SUFFICES ASSUME NEW x \in PlanID, applied'[x] # 0
          PROVE  /\ x \in DOMAIN offer'
                 /\ offer'[x].payload.kind = "traffic" =>
                      applied'[x] = 1 /\ offer'[x].payload.seen < service'.etag
        BY DEF AppliedMovedOn
      <3>1. CASE x = id
        BY <1>2, <2>3, <3>1
      <3>2. CASE x # id
        <4>1. applied[x] # 0
          BY <1>5, <3>2
        <4>2. /\ x \in DOMAIN offer
              /\ offer[x].payload.kind = "traffic" =>
                   applied[x] = 1 /\ offer[x].payload.seen < service.etag
          BY <4>1 DEF Effects, AppliedMovedOn
        <4>3. offer[x].payload.seen \in Nat
          BY <4>2 DEF TypeOK, OfferRecord, Payload
        <4> QED
          BY <1>2, <1>5, <1>6, <2>1, <3>2, <4>2, <4>3
      <3> QED
        BY <3>1, <3>2
    <2> QED
      BY <1>4, <2>4 DEF Effects
  <1> QED
    BY <1>7, <1>8

LEMMA InitEffects == Init => Effects
  BY DEF Init, Effects, ReadIsPreview, AppliedMovedOn

LEMMA NextEffects == TypeOK /\ TypeOK' /\ ExecutesTheOffer /\ Effects /\ [Next]_vars => Effects'
  <1> SUFFICES ASSUME TypeOK, TypeOK', ExecutesTheOffer, Effects, [Next]_vars PROVE Effects'
    OBVIOUS
  <1>t. /\ JobTypeOK /\ service.etag \in Nat
        /\ service.etag >= service.etag
    BY DEF TypeOK
  <1>1. ASSUME NEW c \in Call, NEW owner, NEW kind, NEW want, DryRun(c, owner, kind, want)
        PROVE  Effects'
    BY <1>1, <1>t, EffectsKept DEF DryRun, Store, cloudVars, historyVars
  <1>2. ASSUME NEW c \in Call, NEW owner, NEW kind, NEW id, Confirm(c, owner, kind, id)
        PROVE  Effects'
    BY <1>2, <1>t, EffectsKept DEF Confirm, Store, cloudVars, historyVars
  <1>3. ASSUME NEW c, NEW owner, NEW kind, NEW id, RejectConfirm(c, owner, kind, id)
        PROVE  Effects'
    BY <1>3, <1>t, EffectsKept DEF RejectConfirm, cloudVars, historyVars
  <1>4. ASSUME NEW c \in Call, NEW id \in PlanID, StorePlan(c, id)
        PROVE  Effects'
    <2>1. \A d \in DOMAIN job' : d \in DOMAIN job /\ job'[d] = job[d]
      BY <1>4, <1>t, DoneFacts DEF StorePlan
    <2>2. \A x \in DOMAIN offer : x \in DOMAIN offer' /\ offer'[x] = offer[x]
      BY <1>4 DEF StorePlan, Store
    <2> QED
      BY <1>4, <1>t, <2>1, <2>2, EffectsKept DEF StorePlan, cloudVars
  <1>5. ASSUME NEW c \in Call, RefusePlan(c) \/ Finish(c)
        PROVE  Effects'
    <2>1. \A d \in DOMAIN job' : d \in DOMAIN job /\ job'[d] = job[d]
      BY <1>5, <1>t, DoneFacts DEF RefusePlan, Finish
    <2> QED
      BY <1>5, <1>t, <2>1, EffectsKept DEF RefusePlan, Finish, cloudVars, historyVars
  <1>6. ASSUME NEW c \in Call, ExecutionFails(c) \/ InsertRows(c)
        PROVE  Effects'
    <2>1. c \in DOMAIN job /\ Executing(c) /\ job[c] \in Job
      BY <1>6, <1>t DEF ExecutionFails, InsertRows, Executing, JobTypeOK
    <2>2. PICK stage \in {"ok", "fail"} : Goto(c, stage)
      BY <1>6 DEF ExecutionFails, InsertRows
    <2>3. /\ DOMAIN job' = DOMAIN job /\ job'[c] = [job[c] EXCEPT !.stage = stage]
          /\ \A d \in DOMAIN job \ {c} : job'[d] = job[d]
      BY <1>t, <2>1, <2>2, GotoFacts DEF Stage
    <2>4. job'[c].stage # "write"
      BY <2>1, <2>3 DEF Job
    <2>5. UNCHANGED <<applied, service, offer>>
      BY <1>6 DEF ExecutionFails, InsertRows, cloudVars, historyVars
    <2> QED
      BY <1>t, <2>3, <2>4, <2>5, EffectsKept
  <1>7. CASE OutsideChange
    <2>1. service'.etag >= service.etag
      BY <1>7, <1>t DEF OutsideChange
    <2> QED
      BY <1>7, <2>1, EffectsKept DEF OutsideChange, historyVars
  <1>8. CASE Tick \/ Restart \/ UNCHANGED vars
    BY <1>8, <1>t, EffectsKept DEF Tick, Restart, vars, cloudVars, historyVars
  <1> QED
    BY <1>1, <1>2, <1>3, <1>4, <1>5, <1>6, <1>7, <1>8, ReadEffect, WriteEffect DEF Next, Serve

LEMMA EffectsAlways == Spec => []Effects
  BY TypeCorrect, OfferCorrect, InitEffects, NextEffects, PTL DEF Spec

(* A traffic plan takes effect at most once, however often it is retried   *)
(* after a lost reply (cloudrun.go: UpdateTraffic with ExpectedEtag).      *)
THEOREM TrafficOnceCorrect == Spec => []TrafficAppliedOnce
  <1>1. TypeOK /\ Effects => TrafficAppliedOnce
    BY DEF TypeOK, Effects, AppliedMovedOn, TrafficAppliedOnce
  <1> QED
    BY <1>1, TypeCorrect, EffectsAlways, PTL

(* An accepted traffic update starts from the version its preview showed   *)
(* and sets the split it was previewed with.                               *)
THEOREM TrafficFromPreviewCorrect == Spec => TrafficFromPreview
  <1> DEFINE A == service # service' /\ outside' = outside =>
                    \E c \in DOMAIN job :
                      /\ job[c].stage = "write"
                      /\ offer[job[c].plan].payload.seen = service.etag
                      /\ offer[job[c].plan].payload.want = service'.split
  <1>1. TypeOK /\ ExecutesTheOffer /\ Effects /\ [Next]_vars => [A]_vars
    <2> SUFFICES ASSUME TypeOK, ExecutesTheOffer, Effects, Next,
                        service # service', outside' = outside
        PROVE  \E c \in DOMAIN job :
                 /\ job[c].stage = "write"
                 /\ offer[job[c].plan].payload.seen = service.etag
                 /\ offer[job[c].plan].payload.want = service'.split
      OBVIOUS
    <2>a. ~OutsideChange /\ ~Tick /\ ~Restart
      BY DEF OutsideChange, Tick, Restart, cloudVars, TypeOK
    <2>b. ASSUME NEW c, NEW owner, NEW kind, NEW x
          PROVE  ~DryRun(c, owner, kind, x) /\ ~Confirm(c, owner, kind, x)
                 /\ ~RejectConfirm(c, owner, kind, x)
      BY DEF DryRun, Confirm, RejectConfirm, cloudVars
    <2>c. PICK c \in Call : Serve(c)
      BY <2>a, <2>b DEF Next
    <2>1. UpdateService(c)
      BY <2>c DEF Serve, StorePlan, RefusePlan, ReadTarget, ExecutionFails, SetNodePoolSize,
                  InsertRows, Finish, cloudVars
    <2>2. /\ c \in DOMAIN job /\ Executing(c) /\ job[c].stage = "write"
          /\ job[c].payload.kind = "traffic" /\ job[c].read = service.etag
          /\ service'.split = job[c].payload.want
      BY <2>1 DEF UpdateService, Executing
    <2>3. job[c].payload.seen = service.etag /\ offer[job[c].plan].payload = job[c].payload
      BY <2>2 DEF Effects, ReadIsPreview, ExecutesTheOffer
    <2> QED
      BY <2>2, <2>3
  <1>2. TrafficFromPreview <=> [][A]_vars
    BY DEF TrafficFromPreview
  <1> QED
    BY <1>1, TypeCorrect, OfferCorrect, EffectsAlways, PTL DEF Spec, TrafficFromPreview

-----------------------------------------------------------------------------
(***************************************************************************)
(* The rows of exports.  An insert id is kept by one row, named after its  *)
(* plan and what it digests of the recommendation; so a row that BigQuery  *)
(* does not take because its id is there already is not lost.              *)
(***************************************************************************)
RowsNamed ==
  /\ \A r \in table : r.id = insertID(r.plan, r.rec)
  /\ \A r, s \in table : r.id = s.id => r = s

ExportsDone ==
  \A c \in DOMAIN job :
    /\ job[c].rows # {} => job[c].payload.kind = "export"
    /\ job[c].stage = "ok" => \A rec \in job[c].rows : \E r \in table : r.id = insertID(job[c].plan, rec)

Exports == RowsNamed /\ ExportsDone

(* Calls that do not come to an end, and a table that only grows.          *)
LEMMA ExportsKept ==
  ASSUME Exports, RowsNamed', table \subseteq table',
         \A d \in DOMAIN job' :
           \/ d \in DOMAIN job /\ job'[d] = job[d]
           \/ /\ job'[d].stage # "ok"
              /\ job'[d].rows # {} => job'[d].payload.kind = "export"
  PROVE  Exports'
  BY DEF Exports, ExportsDone, insertID

LEMMA PutNames ==
  ASSUME RowsNamed, NEW plan, NEW rows, NEW reply, Put(plan, rows, reply)
  PROVE  /\ RowsNamed'
         /\ table \subseteq table'
         /\ reply = "ok" => \A rec \in rows : \E r \in table' : r.id = insertID(plan, rec)
  <1> DEFINE Made == {[id |-> insertID(plan, rec), plan |-> plan, rec |-> rec] : rec \in rows}
  <1>1. PICK new \in SUBSET Made :
           /\ \A r \in new : \A s \in table \cup new : r.id = s.id => r = s
           /\ reply = "ok" => \A rec \in rows : \E s \in table \cup new : s.id = insertID(plan, rec)
           /\ table' = table \cup new
    BY DEF Put
  <1>2. \A r \in new : r.id = insertID(r.plan, r.rec)
    BY <1>1
  <1>3. \A r \in table' : r.id = insertID(r.plan, r.rec)
    BY <1>1, <1>2 DEF RowsNamed
  <1>4. \A r, s \in table' : r.id = s.id => r = s
    BY <1>1 DEF RowsNamed
  <1>5. RowsNamed'
    BY <1>3, <1>4 DEF RowsNamed, insertID
  <1> QED
    BY <1>1, <1>5

LEMMA NextExports == TypeOK /\ Exports /\ [Next]_vars => Exports'
  <1> SUFFICES ASSUME TypeOK, Exports, [Next]_vars PROVE Exports'
    OBVIOUS
  <1>t. JobTypeOK /\ RowsNamed
    BY DEF TypeOK, Exports
  <1>r. ASSUME UNCHANGED table PROVE RowsNamed' /\ table \subseteq table'
    BY <1>t, <1>r DEF RowsNamed, insertID
  <1>1. ASSUME NEW c \in Call, NEW owner, NEW kind, NEW want, DryRun(c, owner, kind, want)
        PROVE  Exports'
    BY <1>1, <1>r, ExportsKept DEF DryRun, Store, cloudVars
  <1>2. ASSUME NEW c \in Call, NEW owner, NEW kind, NEW id, Confirm(c, owner, kind, id)
        PROVE  Exports'
    BY <1>2, <1>r, ExportsKept DEF Confirm, Store, cloudVars
  <1>3. ASSUME NEW c, NEW owner, NEW kind, NEW id, RejectConfirm(c, owner, kind, id)
        PROVE  Exports'
    BY <1>3, <1>r, ExportsKept DEF RejectConfirm, cloudVars
  <1>4. ASSUME NEW c \in Call, (\E id \in PlanID : StorePlan(c, id)) \/ RefusePlan(c) \/ Finish(c)
        PROVE  Exports'
    <2>1. c \in DOMAIN job /\ Done(c) /\ UNCHANGED table
      BY <1>4 DEF StorePlan, RefusePlan, Finish, cloudVars
    <2> QED
      BY <1>t, <1>r, <2>1, DoneFacts, ExportsKept
  <1>5. ASSUME NEW c \in Call, ReadTarget(c)
        PROVE  Exports'
    <2> DEFINE j == [job[c] EXCEPT !.stage = "write", !.read = Observed(job[c].payload.kind),
                       !.rows = IF job[c].payload.kind = "export" THEN recs ELSE {}]
    <2>1. c \in DOMAIN job /\ job[c] \in Job /\ job' = [job EXCEPT ![c] = j] /\ UNCHANGED table
      BY <1>5, <1>t DEF ReadTarget, JobTypeOK, cloudVars
    <2>2. j.stage = "write" /\ (j.rows # {} => j.payload.kind = "export")
      BY <2>1 DEF Job
    <2> HIDE DEF j
    <2>3. /\ DOMAIN job' = DOMAIN job /\ job'[c] = j
          /\ \A d \in DOMAIN job \ {c} : job'[d] = job[d]
      BY <1>t, <2>1 DEF JobTypeOK
    <2> QED
      BY <1>r, <2>1, <2>2, <2>3, ExportsKept
  <1>6. ASSUME NEW c \in Call, ExecutionFails(c)
        PROVE  Exports'
    <2>1. c \in DOMAIN job /\ Executing(c) /\ job[c] \in Job /\ Goto(c, "fail") /\ UNCHANGED table
      BY <1>6, <1>t DEF ExecutionFails, Executing, JobTypeOK, cloudVars
    <2>2. /\ DOMAIN job' = DOMAIN job /\ job'[c] = [job[c] EXCEPT !.stage = "fail"]
          /\ \A d \in DOMAIN job \ {c} : job'[d] = job[d]
      BY <1>t, <2>1, GotoFacts DEF Stage
    <2>3. /\ job'[c].stage # "ok"
          /\ job'[c].rows # {} => job'[c].payload.kind = "export"
      BY <2>1, <2>2 DEF Job, Exports, ExportsDone
    <2> QED
      BY <1>r, <2>1, <2>2, <2>3, ExportsKept
  <1>7. ASSUME NEW c \in Call, SetNodePoolSize(c) \/ UpdateService(c) \/ InsertRows(c)
        PROVE  Exports'
    <2>1. c \in DOMAIN job /\ Executing(c) /\ job[c] \in Job
      BY <1>7, <1>t DEF SetNodePoolSize, UpdateService, InsertRows, Executing, JobTypeOK
    <2>2. PICK reply \in {"ok", "fail"} :
             /\ Goto(c, reply)
             /\ RowsNamed' /\ table \subseteq table'
             /\ reply = "ok" => \A rec \in job[c].rows : \E r \in table' : r.id = insertID(job[c].plan, rec)
      <3>1. CASE InsertRows(c)
        BY <1>t, <3>1, PutNames DEF InsertRows
      <3>2. CASE SetNodePoolSize(c) \/ UpdateService(c)
        <4>1. UNCHANGED table /\ job[c].rows = {}
          BY <2>1, <3>2 DEF SetNodePoolSize, UpdateService, Exports, ExportsDone
        <4> QED
          BY <1>r, <3>2, <4>1 DEF SetNodePoolSize, UpdateService
      <3> QED
        BY <1>7, <3>1, <3>2
    <2>3. /\ DOMAIN job' = DOMAIN job /\ job'[c] = [job[c] EXCEPT !.stage = reply]
          /\ \A d \in DOMAIN job \ {c} : job'[d] = job[d]
      BY <1>t, <2>1, <2>2, GotoFacts DEF Stage
    <2>4. /\ job'[c].stage = reply /\ job'[c].rows = job[c].rows
          /\ job'[c].plan = job[c].plan /\ job'[c].payload = job[c].payload
      BY <2>1, <2>3 DEF Job
    <2>5. ASSUME NEW d \in DOMAIN job'
          PROVE  /\ job'[d].rows # {} => job'[d].payload.kind = "export"
                 /\ job'[d].stage = "ok" =>
                      \A rec \in job'[d].rows : \E r \in table' : r.id = insertID(job'[d].plan, rec)
      <3>1. CASE d = c
        BY <2>1, <2>2, <2>4, <3>1 DEF Exports, ExportsDone
      <3>2. CASE d # c
        <4>1. d \in DOMAIN job /\ job'[d] = job[d]
          BY <2>3, <2>5, <3>2
        <4> QED
          BY <2>2, <4>1 DEF Exports, ExportsDone
      <3> QED
        BY <3>1, <3>2
    <2>6. ExportsDone'
      BY <2>5 DEF ExportsDone, insertID
    <2> QED
      BY <2>2, <2>6 DEF Exports
  <1>8. CASE OutsideChange \/ Tick \/ Restart \/ UNCHANGED vars
    BY <1>8, <1>r, ExportsKept DEF OutsideChange, Tick, Restart, vars, cloudVars
  <1> QED
    BY <1>1, <1>2, <1>3, <1>4, <1>5, <1>6, <1>7, <1>8 DEF Next, Serve

(* However often an export plan is carried out, by whom and after whatever *)
(* changes of the recommendations: an attempt that reports success has its *)
(* rows in the table, and none of them is there twice but for              *)
(* recommendations that were given another target between two attempts     *)
(* (recommender_export.go: row.insertID).                                  *)
THEOREM ExportRowsCorrect == Spec => []ExportRowOnce
  <1>1. Init => Exports
    BY DEF Init, Exports, RowsNamed, ExportsDone
  <1>2. Exports => ExportRowOnce
    <2> SUFFICES ASSUME Exports PROVE ExportRowOnce
      OBVIOUS
    <2>1. ASSUME NEW c \in DOMAIN job, job[c].stage = "ok", NEW rec \in job[c].rows
          PROVE  \E r \in table : r.plan = job[c].plan /\ r.rec.name = rec.name /\ r.rec.target = rec.target
      BY <2>1 DEF Exports, ExportsDone, RowsNamed, insertID
    <2>2. ASSUME NEW r \in table, NEW s \in table, r.plan = s.plan, r.rec.name = s.rec.name, r # s
          PROVE  r.rec.target # s.rec.target
      BY <2>2 DEF Exports, RowsNamed, insertID
    <2> QED
      BY <2>1, <2>2 DEF ExportRowOnce
  <1> QED
    BY <1>1, <1>2, TypeCorrect, NextExports, PTL DEF Spec

-----------------------------------------------------------------------------
(***************************************************************************)
(* The refinement of SingleUsePlan.  What Safe does not say is why a plan  *)
(* may be gone while it is still being executed: only because it expired.  *)
(* An execution that fails then withdraws its plan after the deadline, as  *)
(* SingleUsePlan has it.                                                   *)
(***************************************************************************)
GoneIsExpired ==
  \A c \in DOMAIN job :
    Executing(c) /\ job[c].plan \notin DOMAIN entries => now > offer[job[c].plan].at + PlanTTL

Tracked == Safe /\ GoneIsExpired

(* Steps that begin no execution of a plan that is gone.                   *)
LEMMA GoneIsExpiredKept ==
  ASSUME TypeOK, Tracked, now' \in Nat, now' >= now,
         \A x \in DOMAIN offer : x \in DOMAIN offer' /\ offer'[x] = offer[x],
         \A d \in DOMAIN job' : Executing(d)' =>
           \/ job'[d].plan \in DOMAIN entries'
           \/ d \in DOMAIN job /\ Executing(d) /\ job'[d].plan = job[d].plan,
         \A x \in DOMAIN entries : x \notin DOMAIN entries' => Expired(x) \/ Executions(x)' = {}
  PROVE  GoneIsExpired'
  <1> SUFFICES ASSUME NEW d \in DOMAIN job', Executing(d)', job'[d].plan \notin DOMAIN entries'
      PROVE  now' > offer'[job'[d].plan].at + PlanTTL
    BY DEF GoneIsExpired
  <1>1. d \in DOMAIN job /\ Executing(d) /\ job'[d].plan = job[d].plan
    OBVIOUS
  <1> PICK id : id = job[d].plan
    OBVIOUS
  <1>2. id \in DOMAIN offer /\ offer'[id] = offer[id]
    BY <1>1 DEF Tracked, Safe, ExecutesTheOffer
  <1>3. now \in Nat /\ offer[id].at + PlanTTL \in Nat
    BY <1>2, PlanStoreAssumption DEF TypeOK, StoreTypeOK, OfferRecord
  <1>4. CASE id \in DOMAIN entries
    <2>1. d \in Executions(id)'
      BY <1>1 DEF Executions
    <2>2. Expired(id) /\ entries[id].expiresAt = offer[id].at + PlanTTL
      BY <1>1, <1>4, <2>1 DEF Tracked, Safe, EntriesAreOffers
    <2> QED
      BY <1>1, <1>2, <1>3, <2>2 DEF Expired
  <1>5. CASE id \notin DOMAIN entries
    BY <1>1, <1>2, <1>3, <1>5 DEF Tracked, GoneIsExpired
  <1> QED
    BY <1>4, <1>5

(* The abstract state of one plan follows from what is known of it here.   *)
LEMMA PlanPhase ==
  ASSUME Safe, NEW id \in PlanID
  PROVE  /\ phase[id] = IF Executions(id) # {} THEN "executing"
                        ELSE IF id \in succeeded THEN "consumed"
                        ELSE IF id \in DOMAIN entries THEN "offered"
                        ELSE IF id \in DOMAIN offer THEN "withdrawn" ELSE "none"
         /\ deadline[id] = IF id \in DOMAIN offer THEN offer[id].at + PlanTTL ELSE 0
         /\ id \in succeeded => id \in DOMAIN offer /\ id \notin DOMAIN entries /\ Executions(id) = {}
         /\ id \in DOMAIN entries => id \in DOMAIN offer /\ entries[id].expiresAt = offer[id].at + PlanTTL
         /\ Executions(id) # {} => id \in DOMAIN offer
  BY DEF Safe, phase, deadline, SucceededIsGone, EntriesAreOffers, ExecutesTheOffer, Executions

(* A plan that a step does not concern stays where it is, or expires.      *)
LEMMA OtherPlanMoves ==
  ASSUME Safe, Safe', NEW id \in PlanID, Executions(id)' = Executions(id),
         id \in DOMAIN offer' <=> id \in DOMAIN offer,
         id \in DOMAIN offer => offer'[id] = offer[id],
         id \in succeeded' <=> id \in succeeded,
         id \in DOMAIN entries' => id \in DOMAIN entries,
         id \in DOMAIN entries => id \in DOMAIN entries' \/ Expired(id)
  PROVE  Promise!Move(id)
  <1>1. deadline'[id] = deadline[id]
    BY PlanPhase DEF deadline
  <1>2. CASE id \in DOMAIN entries /\ id \notin DOMAIN entries' /\ Executions(id) = {}
    <2>1. phase[id] = "offered" /\ phase'[id] = "withdrawn"
      BY <1>2, PlanPhase DEF phase
    <2>2. now > deadline[id]
      BY <1>2, PlanPhase DEF Expired
    <2> QED
      BY <1>1, <2>1, <2>2 DEF Promise!Move, Promise!Withdraw, Promise!Become
  <1>3. CASE ~(id \in DOMAIN entries /\ id \notin DOMAIN entries' /\ Executions(id) = {})
    <2>1. phase'[id] = phase[id]
      BY <1>3, PlanPhase DEF phase
    <2> QED
      BY <1>1, <2>1 DEF Promise!Move
  <1> QED
    BY <1>2, <1>3

(* A step that starts no execution, ends none, and at most purges what has *)
(* expired.                                                                *)
LEMMA QuietPromise ==
  ASSUME TypeOK, TypeOK', Tracked, Safe', now' >= now, UNCHANGED <<offer, succeeded>>,
         \A x \in DOMAIN entries' : x \in DOMAIN entries,
         \A x \in DOMAIN entries : x \notin DOMAIN entries' => Expired(x),
         \A d \in DOMAIN job : Executing(d) =>
           d \in DOMAIN job' /\ Executing(d)' /\ job'[d].plan = job[d].plan,
         \A d \in DOMAIN job' : Executing(d)' => d \in DOMAIN job /\ Executing(d)
  PROVE  GoneIsExpired' /\ Promise!Next
  <1>1. \A id : Executions(id)' = Executions(id)
    BY DEF Executions
  <1>2. now' \in Nat
    BY DEF TypeOK, StoreTypeOK
  <1>3. GoneIsExpired'
    BY <1>2, GoneIsExpiredKept
  <1>4. ASSUME NEW id \in PlanID PROVE Promise!Move(id)
    BY <1>1, OtherPlanMoves DEF Tracked
  <1> QED
    BY <1>3, <1>4 DEF Promise!Next, Promise!Serve

(* A new plan: none before, offered now.                                   *)
LEMMA StorePlanPromise ==
  ASSUME TypeOK, TypeOK', Tracked, Safe', NEW c \in Call, NEW id \in PlanID, StorePlan(c, id)
  PROVE  GoneIsExpired' /\ Promise!Next
  <1>1. c \in DOMAIN job /\ ~Executing(c) /\ id \notin DOMAIN offer /\ UNCHANGED <<now, succeeded>>
    BY DEF StorePlan, Executing
  <1>2. /\ DOMAIN job' = DOMAIN job \ {c}
        /\ \A d \in DOMAIN job' : job'[d] = job[d]
    BY <1>1, DoneFacts DEF StorePlan, TypeOK
  <1>3. /\ DOMAIN offer' = DOMAIN offer \cup {id} /\ offer'[id].at = now
        /\ \A x \in DOMAIN offer : offer'[x] = offer[x]
    BY <1>1 DEF StorePlan, Store
  <1>4. /\ id \in DOMAIN entries'
        /\ \A x \in DOMAIN entries' \ {id} : x \in DOMAIN entries
        /\ \A x \in DOMAIN entries \ {id} : x \notin DOMAIN entries' => Expired(x)
    BY PutEffect DEF StorePlan, putScoped, TypeOK
  <1>5. \A x : Executions(x)' = Executions(x)
    BY <1>1, <1>2 DEF Executions, Executing
  <1>6. now \in Nat /\ now' >= now /\ now' \in Nat
    BY <1>1 DEF TypeOK, StoreTypeOK
  <1>7. id \notin DOMAIN entries
    BY <1>1 DEF Tracked, Safe, EntriesAreOffers
  <1>8. GoneIsExpired'
    BY <1>2, <1>3, <1>4, <1>6, GoneIsExpiredKept DEF Executing
  <1>9. Promise!Move(id)
    <2>1. phase[id] = "none" /\ Executions(id) = {}
      BY <1>1, <1>7, PlanPhase DEF Tracked
    <2>2. phase'[id] = "offered"
      <3>1. id \notin succeeded'
        BY <1>1, PlanPhase DEF Tracked
      <3> QED
        BY <1>4, <1>5, <2>1, <3>1, PlanPhase DEF phase
    <2>3. deadline'[id] = now + PlanTTL
      BY <1>3 DEF deadline
    <2> QED
      BY <2>1, <2>2, <2>3 DEF Promise!Move, Promise!Offer, Promise!Become
  <1>10. ASSUME NEW x \in PlanID \ {id} PROVE Promise!Move(x)
    BY <1>1, <1>3, <1>4, <1>5, OtherPlanMoves DEF Tracked
  <1> QED
    BY <1>6, <1>8, <1>9, <1>10 DEF Promise!Next, Promise!Serve

(* A claim: an offered plan, not past its deadline, is executed.           *)
LEMMA ConfirmPromise ==
  ASSUME TypeOK, TypeOK', Tracked, Safe', NEW c \in Call, NEW owner \in Owner, NEW kind \in Kind,
         NEW id \in DOMAIN offer, Confirm(c, owner, kind, id)
  PROVE  GoneIsExpired' /\ Promise!Next
  <1> DEFINE j == [stage |-> "read", owner |-> owner, plan |-> id, read |-> 0,
                   rows |-> {}, payload |-> entries[id].payload]
  <1>1. c \notin DOMAIN job /\ job' = Store(job, c, j) /\ UNCHANGED <<now, offer, succeeded>>
    BY DEF Confirm, historyVars
  <1>2. j.stage = "read" /\ j.plan = id
    OBVIOUS
  <1> HIDE DEF j
  <1>3. /\ DOMAIN job' = DOMAIN job \cup {c} /\ job'[c] = j
        /\ \A d \in DOMAIN job : job'[d] = job[d]
    BY <1>1 DEF Store
  <1>4. /\ id \in DOMAIN entries /\ id \in DOMAIN entries' /\ ~Expired(id) /\ ~entries[id].inFlight
        /\ \A x \in DOMAIN entries' \ {id} : x \in DOMAIN entries
        /\ \A x \in DOMAIN entries \ {id} : x \notin DOMAIN entries' => Expired(x)
    BY ClaimEffect DEF Confirm, TypeOK
  <1>5. id \in PlanID
    BY DEF TypeOK
  <1>6. Executions(id) = {}
    BY <1>4, <1>5 DEF Tracked, Safe, LeaseHasOneHolder
  <1>7. /\ c \in Executions(id)'
        /\ \A x : x # id => Executions(x)' = Executions(x)
    BY <1>1, <1>2, <1>3 DEF Executions, Executing
  <1>8. now \in Nat /\ now' >= now /\ now' \in Nat
    BY <1>1 DEF TypeOK, StoreTypeOK
  <1>9. GoneIsExpired'
    BY <1>1, <1>2, <1>3, <1>4, <1>8, GoneIsExpiredKept DEF Executing
  <1>10. Promise!Move(id)
    <2>1. phase[id] = "offered" /\ deadline[id] = entries[id].expiresAt
      BY <1>4, <1>5, <1>6, PlanPhase DEF Tracked
    <2>2. phase'[id] = "executing"
      BY <1>5, <1>7, PlanPhase DEF phase
    <2>3. deadline'[id] = deadline[id]
      BY <1>1 DEF deadline
    <2>4. now <= deadline[id]
      <3>1. entries[id].expiresAt \in Nat
        BY <1>4 DEF TypeOK, StoreTypeOK, planEntry
      <3> QED
        BY <1>4, <1>8, <2>1, <3>1 DEF Expired
    <2> QED
      BY <2>1, <2>2, <2>3, <2>4 DEF Promise!Move, Promise!Start, Promise!Become
  <1>11. ASSUME NEW x \in PlanID \ {id} PROVE Promise!Move(x)
    BY <1>1, <1>4, <1>7, OtherPlanMoves DEF Tracked
  <1> QED
    BY <1>8, <1>9, <1>10, <1>11 DEF Promise!Next, Promise!Serve

(* An execution returns: its plan is consumed, offered again, or, past its *)
(* deadline, withdrawn.                                                    *)
LEMMA FinishPromise ==
  ASSUME TypeOK, TypeOK', Tracked, Safe', NEW c \in Call, Finish(c)
  PROVE  GoneIsExpired' /\ Promise!Next
  <1>0. c \in DOMAIN job /\ Executing(c) /\ job[c].plan \in PlanID
    BY DEF Finish, TypeOK, JobTypeOK, Executing
  <1> PICK id \in PlanID : id = job[c].plan
    BY <1>0
  <1> PICK won \in BOOLEAN : won = (job[c].stage = "ok")
    OBVIOUS
  <1>1. c \in Executions(id) /\ id \in DOMAIN offer /\ \A d \in Executions(id) : d = c
    BY <1>0 DEF Executions, Tracked, Safe, ExecutesTheOffer, LeaseHasOneHolder
  <1>2. /\ DOMAIN job' = DOMAIN job \ {c}
        /\ \A d \in DOMAIN job' : job'[d] = job[d]
    BY <1>0, DoneFacts DEF Finish, TypeOK
  <1>3. /\ finish(id, won) /\ UNCHANGED <<now, offer>>
        /\ succeeded' = IF won THEN succeeded \cup {id} ELSE succeeded
    BY DEF Finish, FinishPlan
  <1>4. /\ \A x \in DOMAIN entries' \ {id} : x \in DOMAIN entries
        /\ \A x \in DOMAIN entries \ {id} : x \in DOMAIN entries'
        /\ id \in DOMAIN entries' => ~won /\ ~Expired(id) /\ id \in DOMAIN entries
        /\ id \in DOMAIN entries /\ id \notin DOMAIN entries' => won \/ Expired(id)
    BY <1>3, FinishEffect DEF TypeOK
  <1>5. /\ Executions(id)' = {}
        /\ \A x : x # id => Executions(x)' = Executions(x)
    BY <1>0, <1>1, <1>2 DEF Executions, Executing
  <1>6. now \in Nat /\ now' >= now /\ now' \in Nat
    BY <1>3 DEF TypeOK, StoreTypeOK
  <1>7. GoneIsExpired'
    BY <1>2, <1>3, <1>4, <1>5, <1>6, GoneIsExpiredKept DEF Executing
  <1>8. Promise!Move(id)
    <2>1. phase[id] = "executing" /\ deadline[id] = offer[id].at + PlanTTL /\ id \notin succeeded
      BY <1>1, PlanPhase DEF Tracked
    <2>2. deadline'[id] = deadline[id]
      BY <1>3 DEF deadline
    <2>3. CASE won
      <3>1. phase'[id] = "consumed"
        BY <1>3, <1>5, <2>3, PlanPhase DEF phase
      <3> QED
        BY <2>1, <2>2, <3>1 DEF Promise!Move, Promise!Consume, Promise!Become
    <2>4. CASE ~won /\ id \in DOMAIN entries'
      <3>1. phase'[id] = "offered"
        BY <1>3, <1>5, <2>1, <2>4, PlanPhase DEF phase
      <3>2. now <= deadline[id]
        <4>1. id \in DOMAIN entries /\ ~Expired(id)
          BY <1>4, <2>4
        <4>2. entries[id].expiresAt = deadline[id] /\ entries[id].expiresAt \in Nat
          BY <2>1, <4>1, PlanPhase DEF Tracked, TypeOK, StoreTypeOK, planEntry
        <4> QED
          BY <1>6, <4>1, <4>2 DEF Expired
      <3> QED
        BY <2>1, <2>2, <3>1, <3>2 DEF Promise!Move, Promise!Release, Promise!Become
    <2>5. CASE ~won /\ id \notin DOMAIN entries'
      <3>1. phase'[id] = "withdrawn"
        BY <1>1, <1>3, <1>5, <2>1, <2>5, PlanPhase DEF phase
      <3>2. now > deadline[id]
        <4>1. CASE id \in DOMAIN entries
          BY <1>4, <2>1, <2>5, <4>1, PlanPhase DEF Tracked, Expired
        <4>2. CASE id \notin DOMAIN entries
          BY <1>0, <2>1, <4>2 DEF Tracked, GoneIsExpired
        <4> QED
          BY <4>1, <4>2
      <3> QED
        BY <2>1, <2>2, <3>1, <3>2 DEF Promise!Move, Promise!Withdraw, Promise!Become
    <2> QED
      BY <2>3, <2>4, <2>5
  <1>9. ASSUME NEW x \in PlanID \ {id} PROVE Promise!Move(x)
    BY <1>3, <1>4, <1>5, OtherPlanMoves DEF Tracked
  <1> QED
    BY <1>6, <1>7, <1>8, <1>9 DEF Promise!Next, Promise!Serve

(* A restart withdraws what is open and touches nothing else.              *)
LEMMA RestartPromise ==
  ASSUME TypeOK, TypeOK', Tracked, Safe', Restart
  PROVE  GoneIsExpired' /\ Promise!Next
  <1>1. /\ DOMAIN entries' = {} /\ DOMAIN job' = {} /\ UNCHANGED <<now, offer, succeeded>>
    BY DEF Restart, historyVars
  <1>2. \A id : Executions(id)' = {}
    BY <1>1 DEF Executions
  <1>3. deadline' = deadline
    BY <1>1 DEF deadline
  <1>4. ASSUME NEW id \in PlanID
        PROVE  IF phase[id] \in {"offered", "executing"} THEN phase'[id] = "withdrawn"
                                                         ELSE phase'[id] = phase[id]
    BY <1>1, <1>2, PlanPhase DEF phase, Tracked
  <1>5. now' >= now
    BY <1>1 DEF TypeOK, StoreTypeOK
  <1> QED
    BY <1>1, <1>3, <1>4, <1>5 DEF GoneIsExpired, Promise!Next, Promise!Restart

LEMMA NextPromise ==
  ASSUME TypeOK, TypeOK', Tracked, Safe', [Next]_vars
  PROVE  GoneIsExpired' /\ Promise!Next
  <1>t. StoreTypeOK /\ JobTypeOK /\ now >= now
    BY DEF TypeOK, StoreTypeOK
  <1>1. ASSUME NEW c \in Call, NEW owner, NEW kind, NEW want, DryRun(c, owner, kind, want)
        PROVE  GoneIsExpired' /\ Promise!Next
    <2> DEFINE j == [stage |-> "store", owner |-> owner, plan |-> NoPlan, read |-> 0, rows |-> {},
                     payload |-> [kind |-> kind, want |-> want, seen |-> Observed(kind)]]
    <2>1. c \notin DOMAIN job /\ job' = Store(job, c, j) /\ j.stage = "store"
      BY <1>1 DEF DryRun
    <2> HIDE DEF j
    <2>2. /\ DOMAIN job' = DOMAIN job \cup {c} /\ job'[c].stage = "store"
          /\ \A d \in DOMAIN job : job'[d] = job[d]
      BY <2>1 DEF Store
    <2>3. UNCHANGED <<entries, now, offer, succeeded>>
      BY <1>1 DEF DryRun, storeVars, historyVars
    <2> QED
      BY <1>t, <2>1, <2>2, <2>3, QuietPromise DEF Executing
  <1>2. ASSUME NEW c \in Call, RefusePlan(c)
        PROVE  GoneIsExpired' /\ Promise!Next
    <2>1. /\ DOMAIN job' = DOMAIN job \ {c} /\ ~Executing(c)
          /\ \A d \in DOMAIN job' : job'[d] = job[d]
      BY <1>2, <1>t, DoneFacts DEF RefusePlan, Executing
    <2>2. /\ \A x \in DOMAIN entries' : x \in DOMAIN entries
          /\ \A x \in DOMAIN entries : x \notin DOMAIN entries' => Expired(x)
      BY <1>2, <1>t, PurgeEffect DEF RefusePlan, putRefused
    <2>3. UNCHANGED <<now, offer, succeeded>>
      BY <1>2 DEF RefusePlan, historyVars
    <2> QED
      BY <1>t, <2>1, <2>2, <2>3, QuietPromise DEF Executing
  <1>3. ASSUME NEW c, NEW owner, NEW kind, NEW id, RejectConfirm(c, owner, kind, id)
        PROVE  GoneIsExpired' /\ Promise!Next
    <2>1. /\ \A x \in DOMAIN entries' : x \in DOMAIN entries
          /\ \A x \in DOMAIN entries : x \notin DOMAIN entries' => Expired(x)
      BY <1>3, <1>t, PurgeEffect DEF RejectConfirm, claimRefused
    <2>2. UNCHANGED <<now, job, offer, succeeded>>
      BY <1>3 DEF RejectConfirm, historyVars
    <2> QED
      BY <1>t, <2>1, <2>2, QuietPromise DEF Executing
  <1>4. ASSUME NEW c \in Call,
               \/ ReadTarget(c) \/ ExecutionFails(c)
               \/ SetNodePoolSize(c) \/ UpdateService(c) \/ InsertRows(c)
        PROVE  GoneIsExpired' /\ Promise!Next
    <2>1. UNCHANGED <<entries, now, offer, succeeded>>
      BY <1>4 DEF ReadTarget, ExecutionFails, SetNodePoolSize, UpdateService, InsertRows,
                  storeVars, historyVars
    <2>2. c \in DOMAIN job /\ Executing(c) /\ job[c] \in Job
      BY <1>4, <1>t DEF ReadTarget, ExecutionFails, SetNodePoolSize, UpdateService, InsertRows,
                  Executing, JobTypeOK
    <2>3. \/ job' = [job EXCEPT ![c].stage = "write",
                                 ![c].read = Observed(job[c].payload.kind),
                                 ![c].rows = IF job[c].payload.kind = "export" THEN recs ELSE {}]
          \/ \E reply \in {"ok", "fail"} : job' = [job EXCEPT ![c].stage = reply]
      BY <1>4 DEF ReadTarget, ExecutionFails, SetNodePoolSize, UpdateService, InsertRows, Goto
    <2>4. /\ DOMAIN job' = DOMAIN job
          /\ \A d \in DOMAIN job \ {c} : job'[d] = job[d]
          /\ job'[c].stage \in {"write", "ok", "fail"} /\ job'[c].plan = job[c].plan
      BY <1>t, <2>2, <2>3 DEF Job, JobTypeOK
    <2> QED
      BY <1>t, <2>1, <2>2, <2>4, QuietPromise DEF Executing
  <1>5. CASE OutsideChange \/ Tick \/ UNCHANGED vars
    <2>1. UNCHANGED <<entries, job, offer, succeeded>> /\ now' >= now
      BY <1>5, <1>t DEF OutsideChange, Tick, vars, storeVars, historyVars, StoreTypeOK
    <2> QED
      BY <2>1, QuietPromise DEF Executing
  <1> QED
    BY <1>1, <1>2, <1>3, <1>4, <1>5, StorePlanPromise, ConfirmPromise, FinishPromise, RestartPromise
    DEF Next, Serve, TypeOK

LEMMA InitPromise == Init => GoneIsExpired /\ Promise!Init
  BY DEF Init, StoreInit, GoneIsExpired, Executions, phase, deadline, Promise!Init

(* The store and its handlers keep the promise of SingleUsePlan: every     *)
(* plan is executed within its lifetime, by one execution at a time, again *)
(* only after a failure, and is withdrawn only by its expiry or a restart, *)
(* for any number of plans, callers and calls and any capacity.            *)
THEOREM KeepsPromiseCorrect == Spec => KeepsPromise
  <1>1. Init => GoneIsExpired /\ Promise!Init
    BY InitPromise
  <1>2. TypeOK /\ TypeOK' /\ Safe /\ Safe' /\ GoneIsExpired /\ [Next]_vars
          => GoneIsExpired' /\ [Promise!Next]_(Promise!vars)
    BY NextPromise DEF Tracked
  <1> QED
    BY <1>1, <1>2, TypeCorrect, SafeAlways, PTL DEF Spec, KeepsPromise, Promise!Spec
=============================================================================
