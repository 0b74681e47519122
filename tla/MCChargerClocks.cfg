SPECIFICATION ClockSpec
CONSTANTS
  MaxDuty = 1
  StartDuty = 1
  PidRise = 1
  SecondRetryDuty = 1
  OpenDuty = 1
  LockoutTime = 1
  HealTime = 1
  SettleTime = 1
  HotTime = 1
  RestTime = 3
  DeadTime = 4
  GapTime = 1
  GoneTime = 1
  LinkTime = 2
  OpenTime = 2
  MaxSuspend = 1
  Readings <- ClockReadings
  Modes = {"manual", "auto"}
  Requests = {"poll", "manual", "fix", "command", "restart", "clear", "enable"}
INVARIANTS
  RestIsServed
  DeadStaysOff
PROPERTY
  NoVerdictTooSoon
