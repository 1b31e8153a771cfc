CONSTANTS
  o1 = o1
  o2 = o2
  o3 = o3
  p1 = p1
  Nobody = Nobody
  Store = Store
  Ops <- MCOps
  Players <- MCPlayer
  Kinds <- MCBlackjack
  InitialCoins = 1
  MaxGames = 2
SPECIFICATION Spec
INVARIANT
  FailedSettlementPlayable
