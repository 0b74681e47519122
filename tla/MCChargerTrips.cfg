SPECIFICATION MCSpec
CONSTANTS
  MaxDuty = 2
  StartDuty = 1
  PidRise = 1
  SecondRetryDuty = 1
  OpenDuty = 1
  LockoutTime = 2
  HealTime = 3
  SettleTime = 2
  HotTime = 0
  RestTime = 0
  DeadTime = 0
  GapTime = 0
  GoneTime = 0
  LinkTime = 1
  OpenTime = 2
  MaxSuspend = 1
  MaxEdges <- MCMaxEdges
  MaxPause = 1
  Worlds = {"loss", "flicker"}
  Readings <- MCReadings
  Requests = {"restart"}
INVARIANTS
  TypeOK
  StruckOut
  ParkedUntilLockout
  OpenVerdictIsReal
  RetryComesInTime
PROPERTIES
  LatchesHold
  BlindResumeIsGentle
