CONSTANTS
  TickHz = 2
  TickMod = 8
  MaxRun = 10
  PassTicks <- MCPassTicks
  Readings <- MCFaultReadings
  Requests <- MCRequests
SPECIFICATION ObsSpec
INVARIANT RebootKeepsTheRest
PROPERTY AlarmNeedsCause
PROPERTY AlarmHoldsUntilHealthy
PROPERTY LossIsReported
