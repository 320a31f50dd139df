SPECIFICATION Spec
CONSTANTS
    Cases <- EqualClasses
    MaxDepth = 4
CHECK_DEADLOCK FALSE
INVARIANTS
    ComparisonsAnswer
