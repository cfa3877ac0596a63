SPECIFICATION PartsSpec
CONSTANTS
  Slots = 2
  Consumers = {c1, c2}
  MaxPos = 4
  \* Time for a restart, one too early after it and one in time.
  Cooldown = 2
  Day = 2
  HistoryCap = 1
  MaxTime = 3
  MaxDeciders = 2
  NoFile = NoFile
  \* A pack of two layers, at two levels each.
  Layers = 2
  Levels <- TwoLevels
  Blind <- DownIsBlind
  MaxStops = 3
  \* A file with an announced sha256 and one without, of two chunks or three.
  Files = {"weights", "config"}
  Lfs = {"weights"}
  Size <- BodySizes
  MaxRevision = 3
  MaxCuts = 2
  Absent = Absent
  \* Three Pack objects over two packs, a cache that cannot hold all ranges.
  Readers = {"first", "second", "next"}
  PackOf <- PackOfReader
  Threads = {"t1", "t2", "t3"}
  ReaderOf <- ReaderOfThread
  Ranges = {"small", "large", "huge"}
  LengthOf <- BytesOf
  Capacity = 2
  NoBytes = NoBytes
  \* Budgets of eight steps, a caller and the server.
  Floor = 1
  Ceiling = 8
  Speeds = {1, 2, 3}
  Drivers = {"caller", "server"}
  MaxFailures = 2
  None = None
  Demands <- SomePasses
  Capacities = {1, 2, 3}
  Windows = {0, 1, 2}
  Symbols <- SomeSymbols
  Texts <- SomeTexts
  OpenTag <- TagThink
  CloseTag <- TagEnd
  White <- Spaces
  \* Rings of two and one, two evictions remembered.
  MaxLines = 2
  QuietLines = 1
  EvictionMemory = 2
  Limits = {1, 2}
  MaxSeq = 7
  MaxReboots = 1
INVARIANTS
  PartsTypeOK
  FitsTheSlots
  FilesAreWhole
  WholeUnlessStruck
  IndexIsBacked
  ServesItsOwnBytes
  UsedIsWhatIsListed
  StreamedAsWhole
  EveryLineIsAccountedFor
  StagedInTime
PROPERTIES
  StreamsAsPromised
  AcquireReturns
  DropReturns
  FilesArrive
  PacksAreServed
  PeaksExpire
  AloneItNeverDoes
  BudgetHolds
  EvidenceIsNews
  RestartingEnds
\* The bounded schedule, the finished text and the planned pass have an end.
CHECK_DEADLOCK FALSE
