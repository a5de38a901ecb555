SPECIFICATION Spec
CONSTANTS
  Slots = {s1, s2}
  Globs = {1, 2}
  None = None
  MaxUpdates = 3
  MaxTasks = 2
  MaxFailures = 1
SYMMETRY Symmetry
INVARIANT CoveredIfAnswered
INVARIANT ExactInOrder
INVARIANT FailureRemembered
INVARIANT ExtensionsOfLatest
CHECK_DEADLOCK FALSE
