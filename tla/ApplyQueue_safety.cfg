SPECIFICATION Spec
CONSTANTS
  Tenants = {t1}
  Listed = {t1}
  Callers = {c1, c2}
  Resync = resync
  Handles = {h1, h2, h3, h4}
  NoHandle = nohandle
  NoTenant = notenant
  MaxCalls = 5
INVARIANTS AppliesSerialized
PROPERTIES WakeupLostOnlyInSendWindow ImplementsScheduler
SYMMETRY Symmetry
CHECK_DEADLOCK FALSE
