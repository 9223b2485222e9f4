SPECIFICATION FairSpec
CONSTANT
  MaxCalls = 2
PROPERTY
  UnaryCallsTaken
