CONSTANTS
  PackVoltages <- MCVoltages
  FaultMasks <- MCFaultMasks
  Vetoes <- Both
  Validity <- Both
  Duration = 2
  InputStableTime = 2
  MaxAge = 4
  DefaultParams <- MCParams
  TimeWindow <- MCWindows
  PanelWrites <- MCWrites
  PanelResets = TRUE
  MaxPreempt = 1
SPECIFICATION MCSpec
INVARIANTS
  LowPackIsCut
  ParkedWhenSpent
PROPERTIES
  CondemnedPackNeverFeeds
  RestedBeforeReconnect
