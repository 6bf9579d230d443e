SPECIFICATION Spec
CONSTANTS
  p1 = p1
  p2 = p2
  a = a
  b = b
  x = x
  NoProc = NoProc
  Procs <- MCProcs
  Payloads <- MCPayloads
  Refs <- MCRefs
  NIndexes = 2
  MaxVersion = 2
  PruneOnSync = TRUE
  MaxRot = 1
PROPERTY
  PruneKeepsReferenced
