SPECIFICATION FairSpec
CONSTANTS
  gpu = gpu
  Accelerators = {gpu}
  Host = host
  Unattributed = unattributed
  Supervised = FALSE
  Inherited <- NoneFailed
  Nothing = Nothing
  Requests = {r1, r2}
  Outsiders = {}
  Models = {m1}
  LoadIds = {l1}
  Placement <- OneCard
  MaxSlots = 1
  MaxTokens = 2
  NoOne = NoOne
  Thread = Thread
  NoModel = NoModel
  NoLoad = NoLoad
  MaxFailures = 0
  MaxBugs = 1
  MaxReleases = 0
PROPERTIES
  EveryRequestReturns
