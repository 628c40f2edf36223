\* Two requests at a time over two readers: three in all, or two and a failed
\* call, a failed write or a kill.
SPECIFICATION Spec
CONSTANTS
  A = A
  B = B
  ann = ann
  ben = ben
  cal = cal
  w1 = w1
  w2 = w2
  Reader = {A, B}
  Person = {ann, ben, cal}
  Worker = {w1, w2}
  MaxPin = 4
  Enrolled <- TwoBranches
  NoUser = NoUser
  NoName = NoName
  NoPrint = NoPrint
  Nobody = Nobody
  Id <- Ids
  Stock <- FirstList
  Saved <- CurrentList
  Requests <- Everything
  MaxEvents = 3
  MaxFailures = 1
  NoRecord = NoRecord
  Absent = Absent
  Truncated = Truncated
  Garbled = Garbled
  Shared = Shared
  NoList = NoList
  Nowhere = Nowhere
SYMMETRY Threads
INVARIANTS
  TypeOK
  EntryWasStored
  EntryIsOwnProfile
  EveryProfileListed
  OthersUntouched
PROPERTY ImplementsRegistry
CHECK_DEADLOCK FALSE
