SPECIFICATION Spec
CONSTANTS
    Shapes <- MCShapes
    Ints <- MCInts
    Strings <- MCStrings
    Runs = {1, 8}
    MaxLength <- MCMaxLength
    MaxChild <- MCMaxChild
    Quiet = {3, 4, 5, 6}
    ResizeAt <- MCResizeAt
    MaxOffset = 2
    MaxFlawed = 2
CHECK_DEADLOCK FALSE
INVARIANTS
    WritesInside
    RowsKept
