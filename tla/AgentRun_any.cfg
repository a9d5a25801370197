SPECIFICATION FairSpec
CONSTANTS
  s1 = s1
  s2 = s2
  Sql = {s1, s2}
  NoSql = NoSql
  AllowMedium = TRUE
  Agents = {"llm", "any"}
  Plans <- FewPlans
  Summaries = {"advice"}
  Findings <- SomeFindings
  Verdicts <- SomeVerdicts
  NoStep = NoStep
  MaxSteps = 8
  MaxTools = 8
  MaxSubs = 1
  MaxRevisions = 2
  MaxIdle = 1
  MaxRounds = 1
  MaxSeen = 1
INVARIANTS DeliveredIsSound DeliveredIsCommittable PlanStaysSound LlmIsNeverRefused
PROPERTIES RunEnds
CHECK_DEADLOCK FALSE
