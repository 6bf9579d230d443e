SPECIFICATION LiveSpec
CONSTANTS
  f1 = f1
  f2 = f2
  f3 = f3
  NoFile = NoFile
  Files <- MCFiles
  Reusable <- MCReusable
  NSources = 2
  Limits <- MCLimits
INVARIANTS
  OkMeansComplete
  OneWorkerPerFile
  FailureIsReported
PROPERTY
  CancelEndsCall
