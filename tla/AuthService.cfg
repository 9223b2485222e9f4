SPECIFICATION FairSpec
CONSTANT
  MaxStarts = 3
INVARIANTS
  AtMostFourPosts
  CredentialsSurvive
  LoginHasCredentials
  AccessIsOnFile
PROPERTY
  StartupEnds
