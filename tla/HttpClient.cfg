SPECIFICATION LiveSpec
CONSTANTS
  w1 = w1
  w2 = w2
  w3 = w3
  mirror = mirror
  primary = primary
  Callers <- MCCallers
  Sources <- MCSources
  SourceLimit <- MCSourceLimit
  GlobalLimit = 2
  Retries = 1
INVARIANTS
  InFlightBounded
  PermitsBalanced
PROPERTIES
  NoStarvation
  CancelEndsRequest
