CONSTANTS
  f1 = f1
  Files <- MCFiles
  MaxCommit = 1
  MaxRollbackAttempts = 2
SPECIFICATION Spec
INVARIANTS
  TypeOK
  VerifiedOrRestored
  QuiescedUpdate
  RestartsWhatPassed
PROPERTIES
  NoGitChangeQueued
