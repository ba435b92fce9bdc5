SPECIFICATION Spec
CONSTANTS
    None = None
    Pages <- MCPages
    MaxLength = 2
INVARIANTS
    RadiosExcludeEachOther
    UntouchedFieldsKeepTheirDefault
    WhatIsSentIsShown
