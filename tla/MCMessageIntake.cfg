CONSTANTS
  m1 = m1
  b1 = b1
  r1 = r1
  r2 = r2
  NoMessage = NoMessage
  Messages <- MCMessages
  ThreadMessages <- MCThreadMessages
  BotMessages <- MCBotMessages
  LongMessages <- MCLongMessages
  Runs <- MCRuns
  LeaseTime = 2
  DailyLimit = 4
  LongCost = 3
  MaxContext = 6
  MinMessages = 6
  KeepRecent = 4
  MaxTurns = 2
SYMMETRY MCSymmetry
SPECIFICATION Spec
INVARIANTS
  TypeOK
  OneHandlingPerLease
  RecentTurnsPaired
  UsageStored
  OvershootBounded
