SPECIFICATION Spec
CONSTANTS
  Subjects <- MCSubjects
  Servers <- MCServers
  s1 = s1
  s2 = s2
  Steady = {s1}
  MaxPingsOut = 1
  SubChanLen = 1
  MaxLosses = 2
  Budgets <- MCBudgets
  nil = nil
INVARIANTS
  SubsRestored
  CleanHandshake
  NoStrandedOutput
PROPERTIES
  BusRegained
  PublishRecovers
CHECK_DEADLOCK FALSE
