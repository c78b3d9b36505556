CONSTANTS
  a1 = a1
  a2 = a2
  a3 = a3
  x = x
  e1 = e1
  e2 = e2
  e3 = e3
  nil = nil
  NoId = NoId
  Addr <- MCAddr
  Id <- MCId
  Elem <- MCElem
  Endpoint <- SelectEndpoint
  DefaultThreshold = 0
  RetryAfterFailure = 1
  Iterator = {t1}
SPECIFICATION BalanceSpec
SYMMETRY ElemSymmetry
INVARIANTS
  EveryEndpointGetsItsTurn
PROPERTIES
  
  ImplementsEndpointPool
