CONSTANTS
  q1 = q1
  q2 = q2
  b1 = b1
  b2 = b2
  t1 = t1
  NoPlan = NoPlan
  Unstored = Unstored
  Plans <- MCPlans
  Presses <- MCPresses
  Texts <- MCTexts
  Steps = 2
SPECIFICATION Spec
INVARIANT
  ExecutedAtMostOnce
