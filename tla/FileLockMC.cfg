CONSTANTS
  t1 = t1
  t2 = t2
  t3 = t3
  p1 = p1
  p2 = p2
  Threads <- MCThreads
  Pids <- MCPids
  PidOf <- MCPidOf
  NoThread = NoThread
  Torn = Torn
SPECIFICATION Spec
INVARIANTS
  TypeOK
  MutualExclusion
  NoLostUpdate
PROPERTIES
  ImplementsAtomicStore
  WaitEnds
  LockReturned
