SPECIFICATION MCSpec
CONSTANTS
  MaxVersion = 3
  NoContent = 0
  Canon <- MCCanon
  Configs <- MCConfigs
  Content <- MCContent
  Provided <- MCProvided
  Upstreams <- MCUpstreams
  Payloads <- MCPayloads
  Refs <- MCRefs
  PruneOnSync = TRUE
  MayCancel = FALSE
  MaxMishaps = 2
INVARIANTS
  TypeOK
  ByHashServed
  
  ThreeGenerations
PROPERTIES
  SyncPublishes
  UnreadableManifestIsSafe
  RefinesMirror
