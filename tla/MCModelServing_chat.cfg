SPECIFICATION Spec
CONSTANTS
  gpu = gpu
  host = host
  Accelerators = {gpu}
  Host = host
  Unattributed = unattributed
  Supervised = TRUE
  Inherited <- NoneFailed
  Nothing = Nothing
  Requests = {r1, r2}
  Retrievals = {}
  Models = {m1, m2}
  Placements <- CardAndHost
  MaxTokens = 1
  NoOne = NoOne
  NoModel = NoModel
  MaxFailures = 2
  MaxBugs = 0
INVARIANTS
  TypeOK
  EveryDecisionHasItsFailure
  RestartNeedsTwoFailures
