INIT PlaneInit
NEXT PlaneNext
CONSTANTS
  m1 = m1
  m2 = m2
  Workspaces = {w1}
  Ops = {o1, o2}
  Pulls = {p1, p2}
  NoOp = noop
  MaxWrites = 2
  Kinds = {"tenant", "nodegroup"}
  HealthCallers = {h1, h2}
  QueueSize = 2
  TTL = 2
  MaxEvents = 3
  MaxPuts = 2
  MaxTime = 5
  MachineList <- MCMachineList
  ControlPlanes = {m1}
  Runs = {r1}
  Hook = hook
  Versions = {1, 2}
  MaxEdits = 1
  MaxCrashes = 1
  Machines = {m1, m2}
  Matching = {m1}
  PeerHandlers = {g1, g2}
  MaxChanges = 1
  MaxPeers = 3
INVARIANTS
  LockExclusive
  IndexCatchesUp
  
  
  PutKeptUnlessRaced
  AnswersFresh
  
  
  
  
  
CHECK_DEADLOCK FALSE
