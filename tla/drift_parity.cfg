\* A listing that was cut short and whose response says so.
SPECIFICATION Spec
CONSTANTS
  c1 = c1
  c2 = c2
  Summary = summary
  Config = {c1, c2, summary}
  Component <- DatasetComponent
  Inventory <- DatasetInventory
  Slots = 2
  maxResourcesPerComponent = 3
INVARIANT ParityIsEarned
CHECK_DEADLOCK FALSE
