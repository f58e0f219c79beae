SPECIFICATION BufferSpec
CONSTANTS
    N = 5
    Bytes <- MCBytes
INVARIANTS BufferTypeOK EmptyHasAllItsRoom
PROPERTIES IsFifo
