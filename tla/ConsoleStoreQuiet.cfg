CONSTANTS
  Tasks = {t1, t2, t3}
  NoTask = NoTask
  Missing = Missing
  LongWaits = FALSE
  Crashes = FALSE
  FileErrors = FALSE
  FirstBoot = FALSE
SPECIFICATION Spec
INVARIANTS
  TypeOK
PROPERTIES
  ImplementsAtomicStore
