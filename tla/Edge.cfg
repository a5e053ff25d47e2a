INIT EdgeInit
NEXT EdgeNext
CONSTANTS
  c1 = c1
  c2 = c2
  Clients = {c1, c2}
  Tenants = {"a", "b"}
  Names = {"n"}
  Requests <- MCRequests
  MaxRequests = 3
  MaxMachines = 1
  Callers = {c1, c2}
  Users = {"admin", "bob"}
  Subjects = {"s"}
  Tokens = {"t1"}
  Passwords = {"p", "q"}
  UserRequests <- MCUserRequests
  Expiry = 1
  MaxCalls = 4
  MaxClock = 3
  Watchers = {w1}
  Objects <- MCObjects
  Endpoints <- MCEndpoints
  BusKinds = {"nats", "local"}
  ChanSize = 2
  MaxPublishes = 3
  AuditHandlers = {h1, h2}
  AuditSize = 2
  PageLimit = 1
  MaxAudited = 2
  MaxDay = 2
  RetentionDays = 1
SYMMETRY MCSymmetry
INVARIANTS
  LastEventCurrent
  ErrorMeansUnchanged
  PasswordIsLastChosen
  SessionMatchesLink
  AdminEndsWithSession
  
  FlushMeansWritten
  PagesMissNothing
  StoppedMeansDecided
PROPERTY
  ForeignOnlyAfterRecreate
CHECK_DEADLOCK FALSE
