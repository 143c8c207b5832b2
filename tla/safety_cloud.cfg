\* Plans for one service and one node pool while others change them too.
SPECIFICATION FairSpec
CONSTANTS
  PlanID = {p1, p2}
  Owner = {alice}
  Kind = {"traffic"}
  PlanTTL = 0
  MaxPendingPlans = 2
  Call = {c1, c2}
  NoPlan = NoPlan
  Value = {1, 2}
  r1 = r1
  r2 = r2
  t1 = t1
  Rec = {}
  MaxOutside = 1
  MaxTime = 1
INVARIANTS TrafficAppliedOnce
PROPERTIES TrafficFromPreview LeaseEnds
