SPECIFICATION Spec
CONSTANTS
    None = None
    MaxNodeCount = 13
    MaxDomDepth = 4
    MaxLoose = 1
    Names <- MCNames
    Grammars <- MCGrammars
    MaxTableRows = 3
    MaxTableColumns = 2
    MaxSelectOptions = 2
    Widths = {3, 8}
    Wide = {2, 5}
    ZeroWidth = {1}
    MaxColumnWidth = 4
    PlaceholderSize = 3
    RuleSize = 4
INVARIANT
    WordsStaySeparate
CHECK_DEADLOCK FALSE
