SPECIFICATION Spec
CONSTANTS
  r1 = r1
  r2 = r2
  m1 = m1
  m2 = m2
  Card = Card
  Cpu = Cpu
  Requests <- OneRequest
  Models <- OneModel
  Noted <- OneModel
  Backends <- CardAndHost
  Evictions <- AllEvictions
  NoModel = NoModel
  NoOne = NoOne
  Thread = Thread
INVARIANTS
  NotesAreResident
