SPECIFICATION Spec
CONSTANTS
  a1 = a1
  a2 = a2
  a3 = a3
  open = open
  careful = careful
  ssh = ssh
  web = web
  sql = sql
  deny = deny
  pass = pass
  lock = lock
  api = api
  job = job
  key = key
  runner = runner
  secret = secret
  cluster = cluster
  pod = pod
  projectName = projectName
  other = other
  Auditors <- MCAuditors
  Projects <- MCProjects
  Facts <- MCFacts
  Losses <- MCLosses
  Suppressions <- MCSuppressions
  RetryTimes <- MCRetryTimes
  MaxFindings = 7
  TTL = 2
  Timeout = 1
  LastTime = 4
SYMMETRY Symmetry
INVARIANTS NothingHidden ScoreIsMonotone ServedInTime
