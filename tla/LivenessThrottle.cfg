SPECIFICATION FairSpec
CONSTANTS
  r1 = r1
  r2 = r2
  Serial = {r1, r2}
  Heartbeat = 1
  MaxQueue = 2
  MaxOther = 1
INVARIANTS
  TypeOK
  StampIsFresh
  ErrorShows
PROPERTIES
  ShutdownReturns
  CallersAreStamped
  QuietIsShown
