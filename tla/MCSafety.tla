------------------------------- MODULE MCSafety -------------------------------
(* SafetyDecorator on small instances: what the runs give its constants.    *)
EXTENDS SafetyDecorator, TLC

CONSTANTS r1, r2, t1

(* Two recommendations for one target, one of which may change. *)
MCRec == {[name |-> r1, target |-> t1, rest |-> 1], [name |-> r1, target |-> t1, rest |-> 2],
          [name |-> r2, target |-> t1, rest |-> 1]}

Symmetry == Permutations(Call) \cup Permutations(PlanID) \cup Permutations(Owner)
=============================================================================
