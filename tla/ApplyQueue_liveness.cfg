SPECIFICATION FairSpec
CONSTANTS
  Tenants = {t1}
  Listed = {t1}
  Callers = {c1}
  Resync = resync
  Handles = {h1, h2, h3}
  NoHandle = nohandle
  NoTenant = notenant
  MaxCalls = 2
PROPERTIES EventuallyApplied StopTerminates
CHECK_DEADLOCK FALSE
