SPECIFICATION Spec
CONSTANTS
    p1 = p1
    p2 = p2
    p3 = p3
    Projects = {p1, p2}
    Refs <- Pair
    Order <- Two
    Texts <- SomeTexts
    Configs = {"a", "missing"}
    Builders = 2
    StopBuildOnErrors = FALSE
    MaxEdits = 3
    None = None
CHECK_DEADLOCK FALSE
INVARIANTS NoPanic
