SPECIFICATION LiveSpec
CONSTANTS
  debian = debian
  alpine = alpine
  Repos <- MCRepos
  RepositoryRetries = 1
INVARIANTS
  ExitStatus
  FailureMeansExhausted
PROPERTIES
  AttemptsBounded
  CancelStops
  CyclesGoOn
