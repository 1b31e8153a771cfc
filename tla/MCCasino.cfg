CONSTANTS
  o1 = o1
  o2 = o2
  o3 = o3
  p1 = p1
  Nobody = Nobody
  Store = Store
  Ops <- MCThreeOps
  Players <- MCPlayer
  Kinds <- MCKinds
  InitialCoins = 1
  MaxGames = 2
SPECIFICATION FairSpec
INVARIANTS
  TypeOK
  NoLostUpdate
  SettledOnce
  PaidForStake
PROPERTIES
  NoGameReplaced
  ImplementsLedger
  ClaimedGameEnds
  HandlerEnds
