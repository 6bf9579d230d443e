SPECIFICATION LiveSpec
CONSTANTS
  NClients = 2
  Retries = 1
  MaxMishaps = 1
INVARIANTS
  TypeOK
  
  RejectedIsRemoved
  AllSourcesTried
PROPERTIES
  OnlyVerifiedPublished
  OkIsInPlace
  CancelEndsTransfer
