SPECIFICATION Spec
CONSTANTS
    None = None
    MaxNodeCount = 13
    MaxDomDepth = 4
    MaxLoose = 1
    Names <- MCNames
    Grammars <- MCGrammars
    MaxTableRows = 3
    MaxTableColumns = 2
    MaxSelectOptions = 2
    Widths = {3, 8}
    Wide = {2, 5}
    ZeroWidth = {1}
    MaxColumnWidth = 4
    PlaceholderSize = 3
    RuleSize = 4
INVARIANTS
    ArenaIsATree
    TextIsCollapsedFaithfully
    PageIsDrawnOnceInOrder
    FlowTextIsInTheBuffer
    AnchorsAreNotBelowTheirText
    NumbersFollowThePage
    SpansMatchTheCells
CHECK_DEADLOCK FALSE
