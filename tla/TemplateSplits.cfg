SPECIFICATION LayoutSpec
CONSTANTS
    Content = {c}
    EmptyPane = empty
    MaxLevels = 3
    MaxPanesShown = 2
    MaxLayoutPanes = 64
    MaxLayoutDepth = 32
    MaxLayoutChildren = 16
INVARIANT TemplateKeepsSplits
CHECK_DEADLOCK FALSE
