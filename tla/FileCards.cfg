SPECIFICATION Spec
CONSTANTS
    Files <- MCFiles
    MaxMetas = 3
    MaxRepeats = 1
CHECK_DEADLOCK FALSE
INVARIANTS
    CardsTypeOK
    DoneIsStored
    ReceivedIsStored
PROPERTIES
    CardsSettle
