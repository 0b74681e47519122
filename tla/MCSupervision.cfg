SPECIFICATION MCSpec
CONSTANTS
  Slots = {"measurement", "comm"}
  Window = 3
  Retry = 2
  Warmup = 2
  Stale = 3
  Reload = 3
  Slice = 1
  Clock = 8
INVARIANTS
  HungTaskIsReset
  OutageIsReported
  HealthyBoardRuns
PROPERTIES
  OneResetPerOutage
  LatchIsEarned
