SPECIFICATION Spec
CONSTANTS
    StackAlign = 4
    WordSize = 2
    AddrLimit = 64
    Conventions <- MCConventions
    FreePointers = {4, 8, 17, 24}
    BoxMin = 4
    BoxTop = 24
    HostTop = 40
    MaxDepth = 2
    MaxCalls = 2
INVARIANTS
    TypeOK
    ForeignSeesArguments
    CallAligned
    CallerResumes
    ResultsReported
    CallbackAnswers
