\* Three threads of one process, one FAILED event and its SUCCESS, four calls.
SPECIFICATION FairSpec
CONSTANTS
  f1 = f1
  g1 = g1
  f2 = f2
  bare = bare
  ok = ok
  s0 = s0
  s1 = s1
  w1 = w1
  w2 = w2
  w3 = w3
  p1 = p1
  Worker = {w1, w2, w3}
  ProcessOf <- OneProcess
  Process = {p1}
  FailedEvent = {f1}
  SuccessEvent = {ok}
  NoEvidence = {}
  Sql = {s0, s1}
  SqlOf <- MCSqlOf
  Original = {s0}
  Redact <- Unredacted
  MaxAttempts = 2
  MaxCalls = 4
  MaxCrashes = 0
  MaxFaults = 0
  NoSql = NoSql
  NoEvent = NoEvent
  Free = Free
  Orphan = Orphan
INVARIANTS SingleRunner ActiveIsServed
PROPERTIES LogSpec CallsReturn
