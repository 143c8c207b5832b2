---------------------------- MODULE SingleUsePlan ----------------------------
(***************************************************************************)
(* What a pending mutation plan promises its caller, with no store, lock   *)
(* or handler in sight: a plan is offered once, may be executed only while *)
(* it has not expired, by one execution at a time, may be executed again   *)
(* only after an execution that failed, and never after one that           *)
(* succeeded.  A plan is withdrawn by expiry or by a restart, not silently.*)
(***************************************************************************)
EXTENDS Integers

CONSTANTS PlanID, PlanTTL

VARIABLES
  phase,      \* plan id -> where the plan stands
  deadline,   \* plan id -> last instant at which an execution may start
  now

vars == <<phase, deadline, now>>

Phase == {"none", "offered", "executing", "consumed", "withdrawn"}

Init ==
  /\ phase = [id \in PlanID |-> "none"]
  /\ deadline = [id \in PlanID |-> 0]
  /\ now = 0

Become(id, from, to) == phase[id] \in from /\ phase'[id] = to

Offer(id) ==
  /\ Become(id, {"none"}, "offered")
  /\ deadline'[id] = now + PlanTTL

Start(id)    == Become(id, {"offered"}, "executing") /\ now <= deadline[id]
Release(id)  == Become(id, {"executing"}, "offered") /\ now <= deadline[id]
Consume(id)  == Become(id, {"executing"}, "consumed")
Withdraw(id) == Become(id, {"offered", "executing"}, "withdrawn") /\ now > deadline[id]

(* One step may withdraw several plans at once, so a step moves every plan. *)
Move(id) ==
  /\ \/ phase'[id] = phase[id]
     \/ Offer(id) \/ Start(id) \/ Release(id) \/ Consume(id) \/ Withdraw(id)
  /\ deadline'[id] = deadline[id] \/ Offer(id)

Serve == \A id \in PlanID : Move(id)

(* The plans live in memory: a restart withdraws every plan still open. *)
Restart ==
  /\ \A id \in PlanID :
       IF phase[id] \in {"offered", "executing"}
         THEN phase'[id] = "withdrawn" ELSE phase'[id] = phase[id]
  /\ deadline' = deadline

Next ==
  /\ now' >= now
  /\ Serve \/ Restart

Spec == Init /\ [][Next]_vars
=============================================================================
