SPECIFICATION Spec
CONSTANTS
    TableCard = 2
    EntryCard = 2
    PageSize = 2
    Byte = {0, 1}
    Starts = {1, 3, 4, 7}
    MaxSize = 3
    Widths = {1, 2}
    NULL = NULL
INVARIANT TypeOK
PROPERTIES ImplementsBytes TransfersEnd
