SPECIFICATION Spec
CONSTANTS
  Loop = L
  Others = {o1}
  Tasks = {t1,t2}
  Timers = {i1}
  None = None
  LoopOps = {"open","close","edit","mappers","options","shutdown"}
  OtherOps = {"request","api","watch","watchConfig"}
  MaxChanges = 2
  MaxConfigs = 1
  MaxATA = 1
SYMMETRY Symmetry
CONSTRAINT Bounded
INVARIANTS RequestSeesChanges SnapshotConsistent NothingLost NoneAfterClose NoStrayTask ScheduledApplied NobodyStuck
CHECK_DEADLOCK FALSE
