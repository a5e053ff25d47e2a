SPECIFICATION FairSpec
CONSTANTS
  g1 = g1
  h1 = h1
  r1 = r1
  e1 = e1
  Groups = {g1}
  Handlers = {h1}
  Rebuilders = {r1}
  Enrichers = {e1}
  MaxOps = 3
  MaxFailures = 1
  MaxDbErrors = 0
  MaxLost = 0
  MaxCrashes = 0
  Prompt = TRUE
PROPERTIES DeletionCompletes
CHECK_DEADLOCK FALSE
