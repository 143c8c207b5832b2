\* Two listings race on the breaker of one recommender.
SPECIFICATION QuotaSpec
CONSTANTS
  Recommender = {r1}
  Iterator = {i1, i2}
  Minute = 1
  Day = 3
  unknownQuotaBackoffs <- MCBackoffs
  LongBackoff = 5
  Hint = {0, 2}
  PageSize = 1
  MaxTrips = 3
  MaxTime = 5
PROPERTIES NeverShortened GateHolds
SYMMETRY Symmetry
