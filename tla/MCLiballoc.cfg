SPECIFICATION Spec
CONSTANTS
    PageSize = 10
    PageCount = 2
    MajorSize = 2
    MinorSize = 1
    Alignment = 2
    AlignInfo = 2
    HeapStart = 1
    HeapPages = 6
    ReqSizes = {1, 14}
INVARIANTS
    TypeOK
    ListsSound
    AllocationsDisjoint
    PointersSound
    AccountsExact
    NoIdleMajor
PROPERTIES
    CallsReturn
    GrowsOnlyWhenFull
