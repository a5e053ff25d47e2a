SPECIFICATION Spec
CONSTANTS
  Tenants = {t1}
  Listed = {t1}
  Callers = {c1}
  Resync = resync
  Handles = {h1, h2, h3}
  NoHandle = nohandle
  NoTenant = notenant
  MaxCalls = 2
INVARIANT NoLostWakeup
CHECK_DEADLOCK FALSE
