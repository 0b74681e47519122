SPECIFICATION MCSpec
CONSTANTS
  RestLimit = 2
  DischargeLimit = 4
  Hysteresis = 1
  PostChargeWait = 3
  InChargeWait = 1
  Stability = 1
  AbsentReset = 2
  MaxEvents = 2
  MaxLatchedCycles = 2
  CleanFullCycles = 2
  Readings <- MCReadings
PROPERTY EventIsStable
