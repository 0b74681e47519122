SPECIFICATION MCSpec
CONSTANTS
  Tables = {t1, t2}
  NoTable = none
  Points = {1, 2}
  Histories = {0, 1}
  Empty = 0
  SeqMod = 4
  Polls = 2
  Period = 1
SYMMETRY Alike
INVARIANTS
  QuietFlash
  BootIsAckedOrNewer
  HistorySurvives
  SuspensionReturned
