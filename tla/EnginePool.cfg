SPECIFICATION FairSpec
CONSTANTS
    Threads = {t1, t2, t3}
    NoThread = NoThread
    SandboxesPerEngine = 2
    MaxAttempts = 2
INVARIANTS
    TypeOK
    SlotsMatchProcesses
    SandboxesCounted
    SlotStaysFree
PROPERTIES
    PoisonStops
    IsSandboxPool
    CallsReturn
