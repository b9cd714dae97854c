SPECIFICATION Spec
CONSTANTS
    Lines = {1}
    Exceptions = {14}
    Codes = {0, 2}
    HeapStart = 786432
    MaxPage = 1048575
INVARIANTS
    FaultCodeSeen
