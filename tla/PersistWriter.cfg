SPECIFICATION FairSpec
CONSTANTS
  blur = blur
  quit = quit
  Flushers <- MCFlushers
  Closers <- MCClosers
  MaxRevision = 3
  MaxFailures = 3
CHECK_DEADLOCK FALSE
INVARIANTS
  NothingForgotten
  NoWriteAfterStop
  ShutdownFlushIsDurable
PROPERTIES
  ImplementsWriteBehind
  EventuallySaved
  StopCompletes
