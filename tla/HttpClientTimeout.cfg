SPECIFICATION LocalFairSpec
CONSTANTS
  Origin = {"cloud"}
  Secure = {"cloud"}
  Segment = {"api"}
  MaxRedirects = 1
PROPERTY
  TimeoutEndsRequest
