SPECIFICATION Spec
CONSTANTS
  Users = {u1, u2, u3}
  Keys = {k1}
  Values = {v1, v2}
  Entries = {e1, e2}
  None = None
  DisableDeletion = FALSE
  MayFail = TRUE
INVARIANT CountsKept
PROPERTY SharesValues
CHECK_DEADLOCK FALSE
