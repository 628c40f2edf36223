\* One reader with an old punch and a new one of one PIN, and one page.
\* A server that has answered its last request may stop: deadlock is not checked.
SPECIFICATION Spec
CONSTANTS
  A = A
  ann = ann
  ben = ben
  Reader = {A}
  Pin = {1}
  Person = {ann, ben}
  Time = {1, 2}
  Punch <- Two
  Old <- BeforeWindow
  Roster <- Rosters
  LmsName <- InLms
  Default <- NoNames
  Call = {c1, c2}
  MaxEvents = 3
  MaxFailures = 1
  NoName = NoName
  NoCall = NoCall
  NoList = NoList
  Garbled = Garbled
INVARIANTS
  TypeOK
  NamesShown
  LogsFollow
  NamesFollow
  PageShowsOwed
PROPERTIES
  SyncAddsOnce
  SyncOffersAll
  KnownNameKept
  TcpFreed
  NameLearned
CHECK_DEADLOCK FALSE
