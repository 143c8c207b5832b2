\* Two components of two environments, collected two at a time.
SPECIFICATION FairSpec
CONSTANTS
  c1 = c1
  c2 = c2
  Summary = summary
  Config = {c1, c2, summary}
  Component <- MCComponent
  Inventory <- MCInventory
  Slots = 2
  maxResourcesPerComponent = 2
INVARIANTS ParityIsEarned MissingIsReal EachOnce Symmetric
PROPERTIES Answered
CHECK_DEADLOCK FALSE
