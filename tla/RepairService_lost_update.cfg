\* Two threads of one process, two FAILED events, nobody dies.
SPECIFICATION Spec
CONSTANTS
  f1 = f1
  g1 = g1
  f2 = f2
  bare = bare
  ok = ok
  s0 = s0
  s1 = s1
  w1 = w1
  w2 = w2
  w3 = w3
  p1 = p1
  Worker = {w1, w2}
  ProcessOf <- OneProcess
  Process = {p1}
  FailedEvent = {f1, g1}
  SuccessEvent = {}
  NoEvidence = {}
  Sql = {s0, s1}
  SqlOf <- MCSqlOf
  Original = {s0}
  Redact <- Unredacted
  MaxAttempts = 3
  MaxCalls = 3
  MaxCrashes = 0
  MaxFaults = 0
  NoSql = NoSql
  NoEvent = NoEvent
  Free = Free
  Orphan = Orphan
PROPERTIES NoSecondAttempt
