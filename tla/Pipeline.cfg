SPECIFICATION Spec
CONSTANTS
  p1 = p1
  p2 = p2
  Thread = {"push", "flush"}
  Punch = {p1, p2}
  Corrupt = Corrupt
  LockOf <- TwoInstances
  MaxFaults <- EachOnce
  Poison = {}
SYMMETRY Interchangeable
INVARIANTS
  TypeOK
  LossNeedsMishap
  NoLockAcrossDatabase
PROPERTIES
  ImplementsDelivery
