SPECIFICATION Spec
CONSTANTS
  g1 = g1
  h1 = h1
  h2 = h2
  r1 = r1
  e1 = e1
  Groups = {g1}
  Handlers = {h1, h2}
  Rebuilders = {r1}
  Enrichers = {e1}
  MaxOps = 4
  MaxFailures = 1
  MaxDbErrors = 1
  MaxLost = 0
  MaxCrashes = 1
  Prompt = FALSE
SYMMETRY Symmetric
INVARIANTS RowOutlivesInfra OnlyDeletedTornDown
 
CHECK_DEADLOCK FALSE
