SPECIFICATION FairSpec
CONSTANTS
  flush = flush
  health = health
  stop = stop
  q1 = q1
  q2 = q2
  q3 = q3
  q4 = q4
  q5 = q5
  q6 = q6
  Caller = {flush, health}
  Closer = {stop}
  Pool = {q1, q2, q3, q4, q5, q6}
  None = None
  MaxConn = 1
  MaxOutages = 2
  MaxFaults = 1
INVARIANTS
  TypeOK
  NoForgottenPool
  ServerConnections
PROPERTIES
  CloseReturns
  Recovers
