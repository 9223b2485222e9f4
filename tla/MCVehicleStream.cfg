SPECIFICATION Spec
CONSTANTS
  MaxHandlers = 4
  MaxCommands = 3
  MaxEvents = 0
INVARIANTS
  TypeOK
  OneWriteInFlight
  NoLostWakeup
  ActiveIsConnected
  LatestStreamIsActive
  OneHandlerListens
  PathFifo
PROPERTY
  DeliversAtMostOnce
  LostWithItsStream
  
