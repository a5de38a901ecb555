SPECIFICATION OwnersSpec
CONSTANTS
  c1 = c1
  c2 = c2
  f1 = f1
  f2 = f2
  Builder = B
  Loaders = {l1, l2}
  Disposers = {d1}
  Configs = {c1, c2}
  ExtendedFiles = {f1, f2}
  Entries = {e1,e2,e3}
  Nil = Nil
  Last = 3
  MayDrop = FALSE
  Extends <- Nested
SYMMETRY Symmetry
INVARIANTS OwnersExact NobodyStuck
CHECK_DEADLOCK FALSE
