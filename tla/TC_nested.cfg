SPECIFICATION Spec
CONSTANTS
    Units <- NestedField
    NonRuntime = {FALSE}
INVARIANTS
    IgnoredFieldsAreForeign
CHECK_DEADLOCK FALSE
