SPECIFICATION FairSpec
CONSTANT
    Commands <- DifferentFiles
INVARIANTS
    TypeOK
    OpenIsRegistered
    EndReportedOnce
PROPERTIES
    CommandsAnswered
    TransfersEnd
CHECK_DEADLOCK FALSE
