SPECIFICATION FairSpec
CONSTANTS
  gpu = gpu
  host = host
  Accelerators = {gpu}
  Host = host
  Unattributed = unattributed
  Supervised = TRUE
  Inherited <- CardFailed
  Nothing = Nothing
  Requests = {r1}
  Retrievals = {t1}
  Models = {m1}
  Placements <- CardAndHost
  MaxTokens = 1
  NoOne = NoOne
  NoModel = NoModel
  MaxFailures = 1
  MaxBugs = 1
INVARIANTS
  EmittedTokensAreClean
  SpoiledModelsAreKnown
  NothingServableAfterLatch
PROPERTIES
  OnlySoundModelsLand
  EveryCallReturns
