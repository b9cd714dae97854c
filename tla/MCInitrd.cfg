SPECIFICATION Spec
CONSTANTS
    Names = {"m1", "m2"}
    Sizes = {0, 1, 6}
    ImageHeader = 2
    FileHeader = 3
    MaxFiles = 4
    MaxGarbage = 2
INVARIANTS
    TypeOK
    LookupExact
    DataInImage
PROPERTIES
    LookupEnds
