SPECIFICATION ClockSpec
CONSTANTS
  MaxDuty = 1
  StartDuty = 1
  PidRise = 1
  SecondRetryDuty = 1
  OpenDuty = 1
  LockoutTime = 1
  HealTime = 1
  SettleTime = 1
  HotTime = 2
  RestTime = 2
  DeadTime = 3
  GapTime = 1
  GoneTime = 1
  LinkTime = 2
  OpenTime = 2
  MaxSuspend = 0
  Readings <- ClockReadings
  Modes = {"manual"}
  Requests = {"poll", "manual", "command"}
INVARIANT DeadNeverCharges
