\* Every module alone, all of them and none, with whatever the calls meet.
SPECIFICATION Spec
CONSTANTS
  Settings <- MCSettings
  MaxCached = 1
INVARIANTS ClientsSuffice GapsAreTold GuessIsTold AcceptedModulesStart
PROPERTIES NothingLeftOpen
CHECK_DEADLOCK FALSE
