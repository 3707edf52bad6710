SPECIFICATION FairSpec
CONSTANTS
  t1 = t1
  t2 = t2
  g1 = g1
  Terminals = {t1, t2}
  Readers = {g1}
  Tables <- MCTables
  Opening = 2
  MaxSales = 2
  MaxTries = 2
INVARIANTS
  TypeOK
  NoSaleCountedTwice
  VoidStands
  CleanCacheIsFresh
PROPERTIES
  OwnSaleStaysVisible
  PollsCatchUp
  EverySaleReachesEveryTerminal
CHECK_DEADLOCK FALSE
CONSTRAINT Budget
