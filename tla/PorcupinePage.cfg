SPECIFICATION Spec
CONSTANTS
    MaxOps = 3
    MaxPartitions = 2
    Widths <- MCWidths
INVARIANTS LayoutFits LayoutKeepsOrder ViewFollowsSelection JumpShowsError TooltipIsCurrent
CHECK_DEADLOCK FALSE
