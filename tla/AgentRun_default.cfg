SPECIFICATION Spec
CONSTANTS
  s1 = s1
  s2 = s2
  Sql = {s1, s2}
  NoSql = NoSql
  AllowMedium = FALSE
  Agents = {"deterministic"}
  Plans <- NoPlans
  Summaries = {"advice"}
  Findings <- AllFindings
  Verdicts <- AllVerdicts
  NoStep = NoStep
  MaxSteps = 12
  MaxTools = 10
  MaxSubs = 4
  MaxRevisions = 6
  MaxIdle = 2
  MaxRounds = 1
  MaxSeen = 8
INVARIANTS TypeOK LimitsLeaveRoom OnlyDeliveredIsFormal
CHECK_DEADLOCK FALSE
