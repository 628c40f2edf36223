\* A dismissal and a removal, one after the other; nothing fails.
SPECIFICATION Spec
CONSTANTS
  A = A
  B = B
  ann = ann
  ben = ben
  cal = cal
  w1 = w1
  w2 = w2
  Reader = {A, B}
  Person = {ann, ben, cal}
  Worker = {w1}
  MaxPin = 4
  Enrolled <- TwoBranches
  NoUser = NoUser
  NoName = NoName
  NoPrint = NoPrint
  Nobody = Nobody
  Id <- Ids
  Stock <- FirstList
  Saved <- CurrentList
  Requests <- OffboardThenDelete
  MaxEvents = 2
  MaxFailures = 0
  NoRecord = NoRecord
  Absent = Absent
  Truncated = Truncated
  Garbled = Garbled
  Shared = Shared
  NoList = NoList
  Nowhere = Nowhere
INVARIANT DeletesOwnProfile
CHECK_DEADLOCK FALSE
