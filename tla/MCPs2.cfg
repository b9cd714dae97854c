SPECIFICATION Spec
CONSTANTS
    Environments <- TwoEnvironments
    BootConfigs <- FirmwareConfigs
    Identities <- KeyboardOrMouse
CHECK_DEADLOCK FALSE
INVARIANTS
    TypeOK
    AnswersExpected
    NoLostInterrupt
    NoStuckModifier
PROPERTIES
    InitCompletes
    BytesRead
