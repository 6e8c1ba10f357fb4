CONSTANTS
  Tasks = {t1, t2, t3}
  NoTask = NoTask
  Missing = Missing
  LongWaits = TRUE
  Crashes = TRUE
  FileErrors = TRUE
  FirstBoot = TRUE
SPECIFICATION Spec
PROPERTIES
  CallsEnd
  StaleLockGoes
