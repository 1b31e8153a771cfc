CONSTANTS
  c1 = c1
  c2 = c2
  c3 = c3
  k1 = k1
  k2 = k2
  Nobody = Nobody
  Callers <- MCCallers
  Keys <- MCKeys
  MaxNesting = 2
SPECIFICATION FairSpec
INVARIANTS
  TypeOK
  MutualExclusion
  ActiveIffHeld
  QueueIsParked
PROPERTIES
  FifoGrant
  EveryWaitEnds
  ImplementsMutex
