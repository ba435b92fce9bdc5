SPECIFICATION Spec
CONSTANTS
    None = None
    Pages <- MCPages
    MaxLength = 2
INVARIANT
    ResetDiscardsEdits
CHECK_DEADLOCK FALSE
