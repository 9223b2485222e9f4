SPECIFICATION FairSpec
CONSTANTS
  MaxHandlers = 3
  MaxCommands = 2
  MaxEvents = 1
PROPERTIES
  QueuedIsWritten
  PendingIsFlushed
  ClosedIsDeleted
