INIT SuiteInit
NEXT SuiteNext
CONSTANTS
  Rank <- MCRank
  ListLimit = 2
  Accounts <- MCAccounts
  NewNames = {"x1"}
  PatchForms <- MCPatchForms
  KernelArgsName <- MCKernelArgsName
  Tokens = {"t1", "t2"}
  RunIds = {"r1"}
  Metrics <- MCMetrics
  AuditRows <- MCAuditRows
  AuditLimit = 2
  InitialRows <- MCInitialRows
  MaxEvents = 2
  Requests = {r1, r2}
  Exported <- MCExported
  DefaultRetention = 2
  Retentions = {1}
  Types = {"resources", "database"}
  TicksPerDay = 2
  MaxSnapshots = 3
  MaxEdits = 2
  MaxTicks = 2
  MaxBackupCrashes = 1
  MaxRestores = 2
SYMMETRY MCSymmetry
INVARIANTS
  FreshFormsAccepted
  
  SnapshotIntact
  RetentionKeepsEnough
  RestoreComplete

  
CHECK_DEADLOCK FALSE
