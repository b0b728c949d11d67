CONSTANTS
  t1 = t1
  t2 = t2
  t3 = t3
  h1 = h1
  h2 = h2
  d1 = d1
  d2 = d2
  Thread = {t1, t2, t3}
  First = t1
  Nobody = Nobody
  MaxHeld = 2
  Id <- MCId
  Handler = {h1, h2}
  NoHandler = NoHandler
  Dict = {d1, d2}
  NoDict = NoDict
  Programs <- MCPrograms
SPECIFICATION LSpec
CHECK_DEADLOCK FALSE
INVARIANTS
  MutualExclusion
  InitialisedOnce
  ErrorsReachTheirHandler
  DefaultsHandedOver
  DictKept
  NothingLeft
PROPERTIES
  ImplementsLock
  EveryoneReturns
