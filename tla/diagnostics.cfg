\* Two services, one slot, one collector of each that fails, and the deadline.
SPECIFICATION Spec
CONSTANTS
  shop = shop
  web = web
  eu = eu
  us = us
  NoName = NoName
  Situations <- MCSituations
  Requests <- MCRequests
  Slots = 1
  MaxLost = 1
INVARIANTS HealthyIsEarned BlameIsEarned
PROPERTIES Answered
CHECK_DEADLOCK FALSE
