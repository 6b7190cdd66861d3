\* Scan and auto-select over a models tree with a subdirectory and a symbolic
\* link back to the top, at two budgets.
CONSTANTS
    Null = Null
    FS <- MCLinkFS
    Root = "models"
    RamAvail = {5620, 3500}
    MaxScan = 3
    MaxDepth = 4
    MaxOpen = 5
SPECIFICATION Spec
INVARIANT TypeOK
INVARIANT SelectionIsBest
INVARIANT ScoreMonotone
CHECK_DEADLOCK FALSE
