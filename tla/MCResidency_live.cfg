SPECIFICATION FairSpec
CONSTANTS
  r1 = r1
  r2 = r2
  m1 = m1
  m2 = m2
  Card = Card
  Cpu = Cpu
  Requests <- TwoRequests
  Models <- OneModel
  Noted <- OneModel
  Backends <- HostOnly
  Evictions <- UnloadOrContained
  NoModel = NoModel
  NoOne = NoOne
  Thread = Thread
PROPERTIES
  BarEnds
