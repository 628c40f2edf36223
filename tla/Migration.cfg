\* Two requests at a time, three in all, over two readers, one failed call and
\* one crash.
SPECIFICATION Spec
CONSTANTS
  A = A
  B = B
  ann = ann
  ben = ben
  cal = cal
  dee = dee
  w1 = w1
  w2 = w2
  Reader = {A, B}
  Person = {ann, ben, cal, dee}
  Worker = {w1, w2}
  MaxPin = 4
  Enrolled <- TwoReaders
  NoUser = NoUser
  NoName = NoName
  NoPrint = NoPrint
  Nobody = Nobody
  Jobs <- Everything
  MaxJobs = 3
  MaxFaults = 1
  MayCrash = TRUE
SYMMETRY Threads
INVARIANTS
  TypeOK
  LossNeedsDelete
  NamedReplacementNeedsPush
  ReaderLeftUsable
  NobodyWaits
  OkMeansDone
CHECK_DEADLOCK FALSE
