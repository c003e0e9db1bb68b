CONSTANTS
  owner = owner
  other = other
  t1 = t1
  t2 = t2
  t3 = t3
  None = None
  Owner <- owner
  Clients <- TwoClients
  Tasks <- ThreeTasks
  ThreadCount = 2
  MaxQueueSize = 1
SPECIFICATION FairSpec
INVARIANTS
  TypeOK
  NoLostWakeup
  SleepersWoken
  WaitDrains
PROPERTIES
  ImplementsLifecycle
  WorkEnds
