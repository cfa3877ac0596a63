SPECIFICATION Spec
CONSTANTS
  r1 = r1
  r2 = r2
  m1 = m1
  m2 = m2
  Card = Card
  Cpu = Cpu
  Requests <- TwoRequests
  Models <- OneModel
  Noted <- OneModel
  Backends <- HostOnly
  Evictions <- AllEvictions
  NoModel = NoModel
  NoOne = NoOne
  Thread = Thread
INVARIANTS
  ReadyIsResident
