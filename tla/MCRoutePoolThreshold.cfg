CONSTANTS
  a1 = a1
  a2 = a2
  a3 = a3
  x = x
  y = y
  e1 = e1
  e2 = e2
  e3 = e3
  nil = nil
  NoId = NoId
  Addr <- MCAddr
  Id <- MCId
  Elem <- MCElem
  Endpoint <- MCEndpoint
  DefaultThreshold = 2
  RetryAfterFailure = 0
  Iterator = {}
SPECIFICATION Spec
PROPERTY CustomThresholdHonoured
