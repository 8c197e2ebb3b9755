SPECIFICATION Spec
CONSTANTS
    PtrSize = 2
    Images <- MCImages
    Setups <- MCChecked
    Counts = {1, 2}
    DstAddresses = {3, 4}
INVARIANTS
    TypeOK
    LayoutSound
    NeverUndefined
    ReadBufferAccessible
    SizedBufferDecodes
    DoneClean
