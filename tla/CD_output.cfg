SPECIFICATION Spec
CONSTANTS
    Platforms = {"windows"}
    Texts <- MCTexts
    Scripts <- MCScripts
    Capacity = 3
    MaxRepeats = 1
    SearchStarts = "search"
    EndOfList = "end"
    Spaces = "spaces"
    TripleLines = {"triple"}
    TargetLines = {"target"}
    SysrootLines = {"sdk", "other sdk"}
    Below <- MCBelow
INVARIANTS
    ReturnsCommandOutput
CHECK_DEADLOCK FALSE
