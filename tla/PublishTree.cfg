SPECIFICATION Spec
CONSTANTS
  Versions <- MCVersions
  ByHash <- MCByHash
  Numbers <- MCNumbers
  MaxMishaps = 2
INVARIANTS
  TypeOK
  WholeFiles
  ByHashImmutable
  ReturnMeansPublished
  LeftoversHarmless
  ServedSurvives
