CONSTANTS
  u1 = u1
  u2 = u2
  x = x
  Uri = {u1, u2}
  Endpoint = {x}
  StaleAfter <- OneTick
  MaxThreshold = 0
  nil = nil
  MaxEvents = 2
  Offers <- MCOffers
SPECIFICATION SourcesLiveSpec
PROPERTIES
  FetchKeepsSteadyRoutes
  WithdrawnRoutesLeave
  HeldRoutesReturn
