SPECIFICATION FairSpec
CONSTANTS
  Callers = {c1, c2}
  Requests = {r1}
  NoRequest = NoRequest
  Files = {}
  NoFile = NoFile
  Instances = {x1, x2, x3}
  None = None
  Diags = {}
  MaxCheckers = 2
  Kinds = {"query"}
  MaxCleanups = 1
  MaxCallbacks = 1
INVARIANT AssociationsLive
PROPERTIES WaiterServed Reclaimed
