SPECIFICATION Spec
CONSTANTS
    Platforms = {"linux", "windows", "apple"}
    Texts <- MCTexts
    Scripts <- MCScripts
    Capacity = 3
    MaxRepeats = 1
    SearchStarts = "search"
    EndOfList = "end"
    Spaces = "spaces"
    TripleLines = {"triple"}
    TargetLines = {"target"}
    SysrootLines = {"sdk", "other sdk"}
    Below <- MCBelow
INVARIANTS
    TypeOK
    NoLineLost
    EnvironmentWhole
PROPERTIES
    DetectionEnds
CHECK_DEADLOCK FALSE
