SPECIFICATION Spec
CONSTANTS
    Columns <- MCColumns
    Base = 2
    MaxScale = 12
    MaxSignificand = 3
    Int64Max = 102400163
CHECK_DEADLOCK FALSE
INVARIANTS
    ReadsInside
    RowsRight
    TableSound
