\* Two callers, two plans of two kinds in a store with one place.
SPECIFICATION Spec
CONSTANTS
  PlanID = {p1, p2}
  Owner = {alice, bob}
  Kind = {"scale", "export"}
  PlanTTL = 0
  MaxPendingPlans = 1
  Call = {c1, c2}
  NoPlan = NoPlan
  Value = {1, 2}
  r1 = r1
  r2 = r2
  t1 = t1
  Rec <- MCRec
  MaxOutside = 1
  MaxTime = 1
INVARIANTS LeaseHasOneHolder ExecutesTheOffer ExportRowOnce
PROPERTIES KeepsPromise
SYMMETRY Symmetry
