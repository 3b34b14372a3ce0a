SPECIFICATION LlmFairSpec
CONSTANTS
  Client = {c1, c2}
  NSlots = 2
  Prompts <- Forks
  MaxNew = 3
  Ring = 2
  StepBudget = 4
  Setups <- RoomyAndTight
  ShareMin = 0
  MtpDraft = 1
  MaxOrder = 2
INVARIANTS CacheBacked PinsExact
PROPERTIES RequestEnds
CHECK_DEADLOCK FALSE
