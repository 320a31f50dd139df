SPECIFICATION Spec
CONSTANTS
    Units <- TwoParameters
    NonRuntime = {FALSE}
INVARIANTS
    ArgumentsSayTheirType
CHECK_DEADLOCK FALSE
