CONSTANTS
  PackVoltages <- MCVoltages
  FaultMasks <- MCFaultMasks
  Vetoes <- Both
  Validity <- Both
  Duration = 1
  InputStableTime = 2
  MaxAge = 4
  DefaultParams <- MCParams
  TimeWindow <- MCWindows
  PanelWrites <- NoWrites
  PanelResets = FALSE
  MaxPreempt = 0
SPECIFICATION LiveSpec
PROPERTIES
  MainsRestoresPath
  RestedPackIsRetried
