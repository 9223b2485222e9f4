SPECIFICATION Spec
CONSTANTS
  MaxHandlers = 3
  MaxCommands = 2
  MaxEvents = 0
INVARIANT
  NoUseAfterDelete
