\* One tab and two runs, until nothing is under way.
SPECIFICATION Spec
CHECK_DEADLOCK FALSE
CONSTANTS
  Tabs = {t1}
  Books = {b1, b2}
  OtherEntries <- MCOtherEntries
  MaxRuns = 2
  MaxPolls = 2
  MaxSequence = 1
  elsewhere = elsewhere
  firstTab = t1
  firstBook = b1
  None = None
INVARIANTS
  BrowserKeepsTheBook
