CONSTANTS
  Job = {j1}
  Canceller = {c1, c2}
  Reader = {h1}
  CountCap = 1
  NoJob = NoJob
SPECIFICATION FairSpec
INVARIANTS
  FinishedIsTrue
PROPERTIES
  AgreedStays
  SettlesForGood
  ResultsArrive
