\* Three callers, nobody dies, every holder is faster than the stale timeout.
SPECIFICATION FairSpec
CONSTANTS
  Free = Free
  Proc = {p1, p2, p3}
  StaleAfter = 2
  Timeout = 1
  HoldersPrompt = TRUE
  MaxCrashes = 0
INVARIANTS MutualExclusion HolderKeepsFile
PROPERTIES MutexSpec
