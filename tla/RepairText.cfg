\* One entity, four other names, every text of two words.
SPECIFICATION Spec
CONSTANTS
  amount = amount
  amount_total = amount_total
  amount_literal = amount_literal
  sum = sum
  num = num
  day = day
  Entity = amount
  Longer = {amount_total}
  Quoting = {amount_literal}
  Column = {sum, num, day}
  Score <- Similarity
  NoWord = NoWord
  NoText = NoText
  Failed <- MCFailed
  Written <- MCWritten
  Snapshot <- MCSnapshot
  AllowMedium = TRUE
INVARIANTS DeliveredIsThePlan DeliveredIsGrounded OwnRepairPasses
CHECK_DEADLOCK FALSE
