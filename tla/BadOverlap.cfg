SPECIFICATION Spec
CONSTANTS
  p1 = p1
  p2 = p2
  Thread = {"push", "flush"}
  Punch = {p1, p2}
  Corrupt = Corrupt
  LockOf <- TwoInstances
  MaxFaults <- OneOutage
  Poison = {}
INVARIANTS
  NoLossByOverlap
