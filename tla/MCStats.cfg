CONSTANTS
  App = {a, b, c}
  MaxTime = 3
  ActiveAppsEntryLifetime = 2
  noEntry = noEntry
  TopAppsEntryLifetime = 1
  none = none
  Limit = 2
  MaxMarks = 4
SPECIFICATION StatsSpec
SYMMETRY AppSymmetry
INVARIANTS
  
  ActiveHeapsInStep
  TopHeapsInStep
PROPERTIES
  ActiveListRight
  TrimActiveExact
  TopListRight
  TrimTopComplete
