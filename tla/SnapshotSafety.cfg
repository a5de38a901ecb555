SPECIFICATION Spec
CONSTANTS
  Handlers = {h1}
  Tasks = {t1, t2}
  Closer = closer
  Snapshots = {s1, s2, s3}
  Programs = {q1, q2}
  Projects = {p1}
  Files = {f1}
  None = None
  Ops = {"handle", "api", "noref"}
  MaxBuilds = 1
SYMMETRY Symmetry
INVARIANT ReferencesExact
PROPERTY NoLostUpdate
CHECK_DEADLOCK FALSE
