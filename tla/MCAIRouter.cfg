CONSTANTS
  p1 = p1
  p2 = p2
  r1 = r1
  r2 = r2
  NoProvider = NoProvider
  Providers <- MCProviders
  Requests <- MCRequests
  MaxAttempts = 2
  RateCooldown = 1
  FailureCooldown = 1
  MaxCooldown = 1
  FailureQuarantine = 3
  CreditRecovery = 3
  AuthRecovery = 3
  ProbeWindow = 3
  Threshold = 2
  Errors <- MCErrors
  KeySets <- MCKeys
  MaxConsecutive = 2
SPECIFICATION FairSpec
INVARIANTS
  TypeOK
  OneRecoveryProbe
PROPERTY
  QuarantineEnds
