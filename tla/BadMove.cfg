SPECIFICATION Spec
CONSTANTS
  A = A
  B = B
  ann = ann
  ben = ben
  cal = cal
  dee = dee
  w1 = w1
  w2 = w2
  Reader = {A, B}
  Person = {ann, ben, cal, dee}
  Worker = {w1}
  MaxPin = 4
  Enrolled <- TwoReaders
  NoUser = NoUser
  NoName = NoName
  NoPrint = NoPrint
  Nobody = Nobody
  Jobs <- OneMove
  MaxJobs = 1
  MaxFaults = 1
  MayCrash = FALSE
INVARIANTS
  MoveVerifiesPrints
CHECK_DEADLOCK FALSE
