CONSTANTS
  Order <- MCOrder
  ControlSlots <- MCControlSlots
  Values = {0, 1}
  Defaults <- MCDefaults
  SeqMod = 4
  SaveDelay = 2
  SaveRetries = 1
  ResetDelay = 1
  Blank = Blank
SPECIFICATION ObsSpec
INVARIANT CleanMeansStored
INVARIANT BootIsRecent
PROPERTY ImplementsDurableStore
PROPERTY EditsReachFlash
