SPECIFICATION Spec
CONSTANTS
    Cases <- AllCases
    MaxDepth = 4
CHECK_DEADLOCK FALSE
INVARIANTS
    TypeOK
    TagsAsWritten
    RaisedByNumbersOnly
    EqualTypesHashAlike
