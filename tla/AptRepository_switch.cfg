SPECIFICATION Spec
CONSTANTS
  MaxVersion = 3
  NoContent = 0
  Canon <- MCCanon
  Configs <- MCConfigs
  Content <- MCContent
  Provided <- MCProvided
  Upstreams <- MCSwitchUpstream
  Payloads <- MCPayloads
  Refs <- MCRefs
  PruneOnSync = FALSE
  MayCancel = FALSE
  MaxMishaps = 0
PROPERTY
  SyncPublishes
