SPECIFICATION Spec
CONSTANTS
    FrameCount = 24
    StaleBits = {}
    WordBits = 4
    PageSize = 24
    TableEntries = 8
    HeapStart = 24
    HeapPages = 6
    OUT_OF_MEMORY = 255
    TlbSize = 0
    ImageEnds = {3}
    Requests = {2, 3}
PROPERTIES
    FreeReleasesFrames
