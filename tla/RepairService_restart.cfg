\* One worker whose process may die twice, and one file operation fails:
\* five calls of three FAILED events (one without evidence) and a SUCCESS.
SPECIFICATION FairSpec
CONSTANTS
  f1 = f1
  g1 = g1
  f2 = f2
  bare = bare
  ok = ok
  s0 = s0
  s1 = s1
  w1 = w1
  w2 = w2
  w3 = w3
  p1 = p1
  Worker = {w1}
  ProcessOf <- OneProcess
  Process = {p1}
  FailedEvent = {f1, f2, bare}
  SuccessEvent = {ok}
  NoEvidence = {bare}
  Sql = {s0, s1}
  SqlOf <- MCSqlOf
  Original = {s0}
  Redact <- Unredacted
  MaxAttempts = 3
  MaxCalls = 5
  MaxCrashes = 2
  MaxFaults = 1
  NoSql = NoSql
  NoEvent = NoEvent
  Free = Free
  Orphan = Orphan
INVARIANTS TypeOK DuplicatesAgree ResultBelongs CandidateFromAttempt AnswerApproved
PROPERTIES NoSecondAttempt FinishedForever
