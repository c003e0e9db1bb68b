CONSTANTS
  TaskCount = 3
  Priorities = {2}
  DefaultPriority = 2
  ThreadCount = 2
SPECIFICATION FairSpec
INVARIANTS
  TypeOK
  NoIdleWhileWork
  NothingLost
PROPERTIES
  ImplementsLifecycle
  WorkEnds
