------------------------------ MODULE PlanStore ------------------------------
(***************************************************************************)
(* The in-memory store of pending mutation plans                           *)
(* (internal/safety/store.go).  Every method takes the store's mutex for    *)
(* its whole body and reads the clock inside it, so each one is a single   *)
(* step here: an operator that a caller's action conjoins with its own     *)
(* state.                                                                  *)
(***************************************************************************)
EXTENDS Integers, FiniteSets, GoMap

CONSTANTS
  PlanID,           \* the identifiers uuid.New can return
  Owner,            \* the values mutationOwner can return
  Kind,             \* the operation kinds, planKindUnknown excluded
  PlanTTL,          \* lifetime of a pending plan
  MaxPendingPlans   \* capacity of the store

ASSUME PlanStoreAssumption ==
  /\ PlanTTL \in Nat
  /\ MaxPendingPlans \in Nat \ {0}

VARIABLES
  entries,   \* plan id -> planEntry
  now        \* the clock time.Now reads

storeVars == <<entries, now>>

(* scaleDeploymentPlan, updateTrafficPlan and exportRecommendationsPlan:   *)
(* what the original request asked for and what its dry run saw.           *)
Payload == [kind: Kind, want: Nat, seen: Nat]

planEntry ==
  [payload: Payload, kind: Kind, owner: Owner, expiresAt: Nat, inFlight: BOOLEAN]

(* now.After(entry.expiresAt): a plan is still good at its expiry instant. *)
Expired(id) == now > entries[id].expiresAt

(* What purgeExpiredLocked leaves: an expired plan goes even when leased. *)
purgeExpired == Restrict(entries, {id \in DOMAIN entries : ~Expired(id)})

StoreInit == entries = <<>> /\ now = 0

-----------------------------------------------------------------------------
HasRoom == Cardinality(DOMAIN purgeExpired) < MaxPendingPlans

putScoped(id, owner, kind, payload) ==
  /\ HasRoom
  /\ entries' = Store(purgeExpired, id,
                      [payload |-> payload, kind |-> kind, owner |-> owner,
                       expiresAt |-> now + PlanTTL, inFlight |-> FALSE])

(* putScoped on a full store: the purge stays done, the plan is refused. *)
putRefused == ~HasRoom /\ entries' = purgeExpired

(* Mutant of Claimable: the owner is not compared. *)
ClaimableByAnyone(id, owner, kind) ==
  /\ id \in DOMAIN purgeExpired
  /\ ~entries[id].inFlight
  /\ entries[id].kind = kind

(* The plan that claim leases: present after the purge, not leased already, *)
(* and asked for by its owner for the operation it was made for.           *)
Claimable(id, owner, kind) ==
  /\ id \in DOMAIN purgeExpired
  /\ ~entries[id].inFlight
  /\ entries[id].owner = owner
  /\ entries[id].kind = kind

claim(id, owner, kind) ==
  /\ Claimable(id, owner, kind)
  /\ entries' = [purgeExpired EXCEPT ![id].inFlight = TRUE]

(* A claim that is turned down still purges. *)
claimRefused(id, owner, kind) ==
  /\ ~Claimable(id, owner, kind)
  /\ entries' = purgeExpired

finish(id, success) ==
  \/ /\ id \notin DOMAIN entries
     /\ UNCHANGED entries
  \/ /\ id \in DOMAIN entries
     /\ success \/ Expired(id)
     /\ entries' = Without(entries, id)
  \/ /\ id \in DOMAIN entries
     /\ ~success /\ ~Expired(id)
     /\ entries' = [entries EXCEPT ![id].inFlight = FALSE]

-----------------------------------------------------------------------------
StoreTypeOK ==
  /\ DOMAIN entries \subseteq PlanID
  /\ entries \in [DOMAIN entries -> planEntry]
  /\ IsFiniteSet(DOMAIN entries)
  /\ now \in Nat

=============================================================================
