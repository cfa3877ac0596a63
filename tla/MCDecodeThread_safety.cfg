SPECIFICATION Spec
CONSTANTS
  gpu = gpu
  Accelerators = {gpu}
  Host = host
  Unattributed = unattributed
  Supervised = TRUE
  Inherited <- NoneFailed
  Nothing = Nothing
  Requests = {r1, r2}
  Outsiders = {o1}
  Models = {m1}
  LoadIds = {l1, l2}
  Placement <- OneCard
  MaxSlots = 2
  MaxTokens = 2
  NoOne = NoOne
  Thread = Thread
  NoModel = NoModel
  NoLoad = NoLoad
  MaxFailures = 2
  MaxBugs = 0
  MaxReleases = 1
SYMMETRY Names
ACTION_CONSTRAINT FewEvents
INVARIANTS
  DecodeTypeOK
  NobodyIsForgotten
  AdmittingSessionIsReal
  NoBatchBesideALoad
  LatchEndsSessions
PROPERTIES
  AnswersAsPromised
  SentTokensAreClean
CHECK_DEADLOCK FALSE
