----------------------------- MODULE DriftCompare ------------------------------
(***************************************************************************)
(* How two collected inventories are matched and compared, and what the    *)
(* comparison concludes (internal/drift/compare.go and finalizeResponse).   *)
(***************************************************************************)
EXTENDS DriftCollectors

Identity(r) == <<r.kind, r.name>>
exactIdentity(r) == <<r.kind, r.name, r.place>>

(* groupResources. *)
Group(resources, r) == {q \in resources : Identity(q) = Identity(r)}

Alike(resources, r) == {q \in resources : exactIdentity(q) = exactIdentity(r)}

(* Mutant of matchResources: a group of one on the left is paired with      *)
(* whatever the right has.                                                 *)
matchLeftAlone(a, b) ==
  {p \in a \X b :
     /\ Identity(p[1]) = Identity(p[2])
     /\ Group(a, p[1]) = {p[1]} \/ exactIdentity(p[1]) = exactIdentity(p[2])}

(* Two that are the only ones of their identity make a pair, also when     *)
(* their places differ; otherwise places must agree.  Of several on one    *)
(* side that agree in everything, the first of the left meets the last of  *)
(* the right.                                                              *)
matchResources(a, b) ==
  {p \in a \X b :
     \/ /\ Identity(p[1]) = Identity(p[2])
        /\ Group(a, p[1]) = {p[1]} /\ Group(b, p[2]) = {p[2]}
     \/ /\ exactIdentity(p[1]) = exactIdentity(p[2])
        /\ \A q \in Alike(a, p[1]) : p[1].serial <= q.serial
        /\ \A q \in Alike(b, p[2]) : q.serial <= p[2].serial}

(* compareResourceIdentity and compareMaps find no difference. *)
Equivalent(l, r) == l.place = r.place /\ l.config = r.config

ResourceDrift == [left: SUBSET Resource, right: SUBSET Resource, status: STRING]

(* Mutant of Unmatched: incomplete coverage is not considered. *)
UnmatchedIsMissing(complete) == "missing_in_environment"

(* The status of a resource without a counterpart. *)
Unmatched(complete) == IF complete THEN "missing_in_environment" ELSE "unknown_due_to_coverage"

compareComponent(a, b, complete) ==
  LET pairs == matchResources(a, b)
  IN  {[left |-> {p[1]}, right |-> {p[2]},
        status |-> IF Equivalent(p[1], p[2]) THEN "equivalent" ELSE "different"] : p \in pairs}
      \cup {[left |-> {l}, right |-> {}, status |-> Unmatched(complete)] :
              l \in {l \in a : \A p \in pairs : p[1] # l}}
      \cup {[left |-> {}, right |-> {r}, status |-> Unmatched(complete)] :
              r \in {r \in b : \A p \in pairs : p[2] # r}}

(* finalizeResponse. *)
Result(drifts, coverageStatus) ==
  LET statuses == {d.status : d \in drifts}
  IN  IF statuses \cap {"different", "missing_in_environment"} # {} THEN "differences_found"
      ELSE IF "equivalent" \notin statuses THEN "no_comparable_resources"
      ELSE IF coverageStatus = "complete" THEN "parity" ELSE "no_differences_observed"

-----------------------------------------------------------------------------
(* The same comparison with the environments exchanged. *)
Mirrored(drifts) == {[left |-> d.right, right |-> d.left, status |-> d.status] : d \in drifts}

(* No two resources agree in everything but their configuration. *)
Unambiguous(resources) == \A r \in resources : Alike(resources, r) = {r}
=============================================================================
