\* Two tabs and two runs: runs that overlap, server and wallet, reloads, lost
\* answers, polls that give up, an attestation from elsewhere.
SPECIFICATION Spec
CHECK_DEADLOCK FALSE
CONSTANTS
  Tabs = {t1, t2}
  Books = {b1, b2}
  OtherEntries <- MCOtherEntries
  MaxRuns = 2
  MaxPolls = 2
  MaxSequence = 1
  elsewhere = elsewhere
  firstTab = t1
  firstBook = b1
  None = None
CONSTRAINT
  MCFirstRun
INVARIANTS
  ClientTypeOK
  ReportsAreTrue
  ErrorsAreFinal
  RunningIsAwaited
PROPERTIES
  EveryRequestAnswered
