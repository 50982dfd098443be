CONSTANTS
  w1 = w1
  w2 = w2
  q1 = q1
  q2 = q2
  q3 = q3
  Worker <- MCWorker
  Watcher = w1
  Text <- MCText
  Language = "go"
  MaxEdits = 1
  Query <- MCQuery
  Close <- MCClose
  AsksFor <- MCAsksFor
  SemanticEnabled = TRUE
  MaxEntries = 2
  EntryTTL = 1
  MaxClock = 2
SPECIFICATION Spec
INVARIANTS
  CachesAreSound
  GraphIsSound
CHECK_DEADLOCK FALSE
