SPECIFICATION Spec
CONSTANTS
    Uploads <- MCUploads
    MaxSends = 2
    MaxProgress = 2
CHECK_DEADLOCK FALSE
INVARIANTS
    SentCardsTypeOK
    FinishedShown
PROPERTIES
    SentCardsSettle
