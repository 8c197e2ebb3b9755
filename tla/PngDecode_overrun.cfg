SPECIFICATION Spec
CONSTANTS
    PtrSize = 2
    Images <- MCImages
    Setups <- MCMain
    Counts = {1, 2}
    DstAddresses = {3, 4}
INVARIANTS
    LayoutSound
