SPECIFICATION FairSpec
CONSTANTS
  Topic = {"init", "cancel"}
  MaxStarts = 1
  MaxSubscribes = 2
  MaxMessages = 1
  MaxLosses = 1
PROPERTY
  StaysSubscribed
