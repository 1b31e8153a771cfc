CONSTANTS
  f1 = f1
  Files <- MCNoFiles
  MaxCommit = 2
  MaxRollbackAttempts = 2
SPECIFICATION FairSpec
INVARIANTS
  RolledBackNotRetried
PROPERTIES
  RestartIsJudged
  ParkingEnds
