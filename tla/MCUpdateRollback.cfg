CONSTANTS
  f1 = f1
  Files <- MCFiles
  MaxCommit = 1
  MaxRollbackAttempts = 2
SPECIFICATION Spec
PROPERTIES
  NoRewriteDuringUpdate
