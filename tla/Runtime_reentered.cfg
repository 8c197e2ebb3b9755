SPECIFICATION Spec
CONSTANTS
    StackAlign = 2
    AddrLimit = 16
    BoxMin = 2
    StackTop = 7
    Layouts <- MCLayouts
    Spills <- MCSpills
    Slots = {allow, cb1, cb2}
    StaticSlots = {allow}
    Payloads = {p1, p2}
    NoPanic = NoPanic
    Inconsistent = Inconsistent
    CatchIn = {}
    MaxFrames = 6
INVARIANTS
    HandlersExclusive
