SPECIFICATION Spec
CONSTANTS
    AddressCard = 32
    PageSize = 4
    UserTop = 24
    StackSize = 4
    MmapStart = 12
    NameSize = 1
    RandomSize = 1
    VectorSize = 1
    FieldCount = 1
    Byte = {0, 1}
    Executables <- MCExecutables
    Buffers <- MCBuffers
    Sizes = {0, 11, 14, 18, 30}
    MaxCalls = 3
    MaxIovs = 2
    NULL = NULL
INVARIANTS TypeOK RangesMapped HeapAboveSegments NameEnds
PROPERTIES EffectsConfined MmapGives TransfersExact
