SPECIFICATION Spec
CONSTANTS
    Width = 3
    Height = 2
    TabStop = 2
    Glyphs <- Letters
    Blank = " "
    HalfWord = 8
    BufSize = 12
    Unmapped = unmapped
    Scripts <- AllScripts
    LastWords <- Report
INVARIANTS
    TypeOK
    NoStaleText
PROPERTIES
    WritesOnPaper
    NumbersReadBack
