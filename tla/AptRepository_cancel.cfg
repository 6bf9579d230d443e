SPECIFICATION Spec
CONSTANTS
  MaxVersion = 3
  NoContent = 0
  Canon <- MCCanon
  Configs <- MCConfigs
  Content <- MCContent
  Provided <- MCProvided
  Upstreams <- MCPlainUpstream
  Payloads <- MCPayloads
  Refs <- MCRefs
  PruneOnSync = TRUE
  MayCancel = TRUE
  MaxMishaps = 0
PROPERTY
  PruneKeepsReferenced
