------------------------------ MODULE DriftEngine ------------------------------
(***************************************************************************)
(* Engine.Compare of internal/drift/engine.go: a goroutine per component    *)
(* and environment, at most Slots of them collecting, which send what they  *)
(* collected to the one that called; the context ends at the deadline or    *)
(* when the caller gives up, and the answer is made from what had come.    *)
(***************************************************************************)
EXTENDS DriftCompare

CONSTANTS
  Component,   \* the components asked for
  Slots,       \* the capacity of sem
  Inventory    \* bound: component -> the inventories an environment may have

ASSUME EngineAssumption ==
  /\ Component # {} /\ Component \subseteq DOMAIN supportedComponents
  /\ Slots \in Nat \ {0}
  /\ Inventory \in [Component -> SUBSET SUBSET Resource]
  /\ \A c \in Component : Inventory[c] # {} /\ \A s \in Inventory[c] : IsFiniteSet(s)

(* The environments, which normalizeRequest has found to be different.     *)
Side == {"a", "b"}
Job == Component \X Side

VARIABLES
  world,      \* job -> the normalized configuration of what there is
  worker,     \* job -> where its goroutine is
  result,     \* job -> what it sent
  ended,      \* ctx.Err() # nil
  response    \* what Compare returned

vars == <<world, worker, result, ended, response>>

WorkerState == {"waiting", "collecting", "sent", "received"}
Status == {"complete", "partial", "error"}

NoResponse == [given |-> FALSE, result |-> "none", coverage |-> [j \in Job |-> "complete"],
               compared |-> [c \in Component |-> {}], coverageStatus |-> "none"]

Init ==
  /\ world \in {w \in [Job -> UNION {Inventory[c] : c \in Component}] : \A j \in Job : w[j] \in Inventory[j[1]]}
  /\ worker = [j \in Job |-> "waiting"]
  /\ result = [j \in Job |-> NoResult]
  /\ ended = FALSE
  /\ response = NoResponse

Collecting == {j \in Job : worker[j] = "collecting"}

(* The deadline of Compare, or its caller giving up. *)
ContextEnds ==
  /\ ~ended
  /\ ended' = TRUE
  /\ UNCHANGED <<world, worker, result, response>>

(* The select of a goroutine takes a slot, also when the context has ended. *)
Acquire(j) ==
  /\ worker[j] = "waiting"
  /\ Cardinality(Collecting) < Slots
  /\ worker' = [worker EXCEPT ![j] = "collecting"]
  /\ UNCHANGED <<world, result, ended, response>>

(* The other arm of that select. *)
Skip(j) ==
  /\ worker[j] = "waiting"
  /\ ended
  /\ worker' = [worker EXCEPT ![j] = "sent"]
  /\ UNCHANGED <<world, result, ended, response>>

(* Collect returns, which the end of the context does not force it to do.  *)
(* The channel has room for every result.                                  *)
CollectReturns(j) ==
  LET collector == supportedComponents[j[1]]
  IN  /\ worker[j] = "collecting"
      /\ worker' = [worker EXCEPT ![j] = "sent"]
      /\ \E r \in Collected(collector, world[j]) \cup (IF CanFail(collector) THEN {NoResult} ELSE {}) :
           result' = [result EXCEPT ![j] = r]
      /\ UNCHANGED <<world, ended, response>>

Receive(j) ==
  /\ ~response.given
  /\ worker[j] = "sent"
  /\ worker' = [worker EXCEPT ![j] = "received"]
  /\ UNCHANGED <<world, result, ended, response>>

-----------------------------------------------------------------------------
(* What byComponent holds: a result that was not received is an error.     *)
Known(j) == IF worker[j] = "received" THEN result[j] ELSE NoResult

(* appendCoverage. *)
CoverageOf(j) ==
  IF Known(j).err THEN "error" ELSE IF Known(j).partial THEN "partial" ELSE "complete"

Comparable == {c \in Component : \A s \in Side : ~Known(<<c, s>>).err}

(* What is compared of a component. *)
DriftsOf(c) ==
  compareComponent(Known(<<c, "a">>).resources, Known(<<c, "b">>).resources,
                   \A s \in Side : ~Known(<<c, s>>).partial)

CoverageStatus ==
  IF ended \/ \E j \in Job : CoverageOf(j) # "complete" THEN "partial" ELSE "complete"

(* What is returned, with the findings of all that could be compared.      *)
Answer ==
  LET compared == [c \in Component |-> IF c \in Comparable THEN DriftsOf(c) ELSE {}]
  IN  [given          |-> TRUE,
       result         |-> Result(UNION {compared[c] : c \in Component}, CoverageStatus),
       coverage       |-> [j \in Job |-> CoverageOf(j)],
       compared       |-> compared,
       coverageStatus |-> CoverageStatus]

(* Mutant of Respond: the end of the context does not end the wait. *)
RespondWithEverything ==
  /\ ~response.given
  /\ \A j \in Job : worker[j] = "received"
  /\ response' = Answer
  /\ UNCHANGED <<world, worker, result, ended>>

(* The caller goes on when it has everything, or finds the context ended.  *)
Respond ==
  /\ ~response.given
  /\ ended \/ \A j \in Job : worker[j] = "received"
  /\ response' = Answer
  /\ UNCHANGED <<world, worker, result, ended>>

Next ==
  \/ ContextEnds
  \/ \E j \in Job : Acquire(j) \/ Skip(j) \/ CollectReturns(j) \/ Receive(j)
  \/ Respond

Spec == Init /\ [][Next]_vars

(* The deadline comes and the one that called goes on; whether a goroutine *)
(* does, or a collector ever returns, is not assumed.                      *)
FairSpec == Spec /\ WF_vars(ContextEnds) /\ WF_vars(Respond)

-----------------------------------------------------------------------------
(* What is compared of an environment, whatever the rank of a resource.    *)
Configuration(inventory) == {<<exactIdentity(r), r.config>> : r \in inventory}

(* "parity" is said only of environments that are alike in all components  *)
(* asked for, however the collections failed, were cut short, overtook     *)
(* each other or were overtaken by the deadline.                           *)
ParityIsEarned ==
  response.result = "parity" =>
    \A c \in Component : Configuration(world[<<c, "a">>]) = Configuration(world[<<c, "b">>])

(* A resource reported as missing in an environment is not there: what a   *)
(* collection lost is never taken for what does not exist.                 *)
MissingIsReal ==
  \A c \in Component : \A d \in response.compared[c] :
    d.status = "missing_in_environment" =>
      /\ \A l \in d.left, r \in world[<<c, "b">>] : d.right = {} => exactIdentity(l) # exactIdentity(r)
      /\ \A r \in d.right, l \in world[<<c, "a">>] : d.left = {} => exactIdentity(l) # exactIdentity(r)

(* Of a component that could be compared, every resource collected on      *)
(* either side is spoken of, and once.                                     *)
EachOnce ==
  response.given =>
    \A c \in Comparable :
      /\ \A l \in Known(<<c, "a">>).resources : Cardinality({d \in response.compared[c] : l \in d.left}) = 1
      /\ \A r \in Known(<<c, "b">>).resources : Cardinality({d \in response.compared[c] : r \in d.right}) = 1

(* Neither environment is the baseline: exchanged, they give the same      *)
(* findings with the sides exchanged.                                      *)
Symmetric ==
  response.given =>
    \A c \in Comparable :
      compareComponent(Known(<<c, "b">>).resources, Known(<<c, "a">>).resources,
                       \A s \in Side : ~Known(<<c, s>>).partial)
        = Mirrored(response.compared[c])

(* Compare answers although collectors may never return. *)
Answered == <>response.given
=============================================================================
