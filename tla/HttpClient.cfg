SPECIFICATION FairSpec
CONSTANTS
  Origin = {"cloud", "plain"}
  Secure = {"cloud"}
  Segment = {"api"}
  MaxRedirects = 2
INVARIANTS
  HopsBounded
  MethodFollowsStatus
  OriginFollowsLocation
PROPERTY
  RequestEnds
