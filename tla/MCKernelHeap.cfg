SPECIFICATION Spec
CONSTANTS
    FrameCount = 16
    WordBits = 4
    PageSize = 16
    TableEntries = 8
    HeapStart = 16
    HeapPages = 6
    OUT_OF_MEMORY = 99
    ImageEnds <- MCImageEnds
    PageCount = 2
    MajorSize = 2
    MinorSize = 1
    Alignment = 2
    AlignInfo = 2
    ReqSizes = {9, 30}
PROPERTIES
    HooksAgreed
    ContentsKept
