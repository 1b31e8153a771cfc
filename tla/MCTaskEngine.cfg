CONSTANTS
  c1 = c1
  c2 = c2
  Commands <- MCCommands
  Plans <- MCPlans
  AskedAttempts <- MCAsked
  DefaultAttempts = 1
  MaxStepAttempts = 2
SPECIFICATION FairSpec
INVARIANTS
  TypeOK
  RepairAfterDiagnostic
  AttemptsBounded
PROPERTY
  RunEnds
CHECK_DEADLOCK FALSE
