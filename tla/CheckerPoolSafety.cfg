SPECIFICATION Spec
CONSTANTS
  Callers = {c1, c2}
  Requests = {}
  NoRequest = NoRequest
  Files = {f1}
  NoFile = NoFile
  Instances = {x1, x2, x3}
  None = None
  Diags = {d1, d2}
  MaxCheckers = 2
  Kinds = {"api", "diagnostics", "query"}
  MaxCleanups = 0
  MaxCallbacks = 1
SYMMETRY Symmetry
INVARIANTS ExclusiveUse HeldCheckerStays CanceledNeverReused Upkeep
