SPECIFICATION FairSpec
CONSTANTS
  gpu = gpu
  Accelerators = {gpu}
  Host = host
  Unattributed = unattributed
  Supervised = FALSE
  Inherited <- NoneFailed
  Nothing = Nothing
  Requests = {r1, r2}
  Outsiders = {}
  Models = {m1}
  LoadIds = {l1}
  Placement <- OneCard
  MaxSlots = 2
  MaxTokens = 2
  NoOne = NoOne
  Thread = Thread
  NoModel = NoModel
  NoLoad = NoLoad
  MaxFailures = 1
  MaxBugs = 0
  MaxReleases = 0
PROPERTIES
  JoinIsAnswered
CHECK_DEADLOCK FALSE
