SPECIFICATION Spec
CONSTANTS
    AddrLimit = 9
    BoxMin = 1
    BoxMax = 7
    StackTop = 7
    HeapMin = 2
    HeapMax = 4
    Sizes = {0, 1, 2}
    Builds = {"auto", "explicit"}
    AccessConfigs <- MCAccessConfigs
    MaxBlocks = 2
    MaxStale = 1
    MaxChain = 2
INVARIANTS
    TypeOK
    RegionsMatchHeap
    ValidOnlyLive
    SharedReachable
    AbortsExplained
