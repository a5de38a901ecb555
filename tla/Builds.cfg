SPECIFICATION Spec
CONSTANTS
    p1 = p1
    p2 = p2
    p3 = p3
    Projects = {p1, p2, p3}
    Refs <- Triangle
    Order <- Three
    Texts <- SomeTexts
    Configs = {"a", "b"}
    Builders = 2
    StopBuildOnErrors = FALSE
    MaxEdits = 2
    None = None
CHECK_DEADLOCK FALSE
INVARIANTS AllCurrent ErrorsShown
PROPERTIES RefsStable Settles
