SPECIFICATION Spec
CONSTANTS
    FrameCount = 32
    StaleBits = {}
    WordBits = 4
    PageSize = 32
    TableEntries = 16
    HeapStart = 48
    HeapPages = 12
    OUT_OF_MEMORY = 255
    TlbSize = 1
    ImageEnds <- MCImageEnds
    Requests <- MCRequests
INVARIANTS
    TypeOK
    NoFrameAliasing
    FramesArePrefix
    TablesReachable
    TlbCoherent
PROPERTIES
    ProvidesPages
    BootEnds
