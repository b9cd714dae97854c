SPECIFICATION Spec
CONSTANTS
    Lines = {0, 1, 7, 8, 12}
    Exceptions = {0, 13, 14}
    Codes = {0, 2}
    HeapStart = 786432
    MaxPage = 1048575
INVARIANTS
    TypeOK
    NumberFound
    ReturnsWhereInterrupted
    ServiceEnds
PROPERTIES
    LoneRequestServed
