CONSTANTS
    g1 = g1
    g2 = g2
    Nil = Nil
    Goroutines = {g1, g2}
    MaxOps = 2
    MaxText = 1
SPECIFICATION MapSpec
CHECK_DEADLOCK FALSE
INVARIANTS MarksKept Settled
PROPERTIES OneValue Finishes
