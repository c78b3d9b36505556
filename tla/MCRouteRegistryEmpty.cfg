CONSTANTS
  a = a
  b = b
  com = com
  p = p
  q = q
  x = x
  pl1 = pl1
  pl2 = pl2
  pl3 = pl3
  pl4 = pl4
  pl5 = pl5
  nil = nil
  Star = Star
  Label <- MCLabel
  Uri <- NestedUri
  MaxLabels = 3
  Endpoint <- OneEndpoint
  StaleAfter <- AtOnce
  MaxThreshold = 0
  Pool <- ThreePools
  Request = {}
SPECIFICATION Spec
PROPERTY EmptyRoutesPruned
