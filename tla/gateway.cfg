\* Two callers and their sessions over a restart, with names that overlap.
SPECIFICATION Spec
CONSTANTS
  ann = ann
  bob = bob
  Callers = {ann, bob}
  Settings <- MCSettings
  Selectors <- MCSelectors
  Placeholder <- MCPlaceholder
  HiddenID <- MCHiddenID
  CostID <- MCCostID
  NotString = NotString
  NoSession = NoSession
  NoIdentity = NoIdentity
  MaxKey = 2
  MaxSessions = 2
INVARIANTS OwnSessionServed  NamesLeadBack
PROPERTIES KeepsSessionsPrivate Answered
CHECK_DEADLOCK FALSE
