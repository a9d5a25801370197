\* Two callers, up to two deaths of a waiting or holding caller, and slow holders.
SPECIFICATION RetrySpec
CONSTANTS
  Free = Free
  Proc = {p1, p2}
  StaleAfter = 2
  Timeout = 1
  HoldersPrompt = FALSE
  MaxCrashes = 2
INVARIANTS TypeOK
PROPERTIES EnterEnds OrphanReclaimed
