SPECIFICATION Spec
CONSTANTS
    PtrSize = 2
    Images <- MCImages
    Setups <- MCSized
    Counts = {1, 2}
    DstAddresses = {3, 4}
INVARIANTS
    ClosureSeesImage
