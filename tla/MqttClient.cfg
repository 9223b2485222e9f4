SPECIFICATION FairSpec
CONSTANTS
  Topic = {"init", "cancel"}
  MaxStarts = 2
  MaxSubscribes = 3
  MaxMessages = 2
  MaxLosses = 1
INVARIANTS
  TypeOK
  OneReceive
  HandlersHaveClient
PROPERTIES
  TopicsAreIssued
  StopReturns
