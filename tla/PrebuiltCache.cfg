SPECIFICATION ExclusiveSpec
CONSTANTS
    Builds = {b1, b2}
    Archives = {a1, a2}
    Parts = {p1, p2, p3}
    Missing = Missing
    Empty = Empty
INVARIANTS
    TypeOK
    ChecksumVouches
PROPERTIES
    UsesManifest
