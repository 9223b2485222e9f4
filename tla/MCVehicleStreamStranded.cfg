SPECIFICATION FairSpec
CONSTANTS
  MaxHandlers = 3
  MaxCommands = 2
  MaxEvents = 0
PROPERTY
  PendingIsDelivered
