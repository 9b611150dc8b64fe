SPECIFICATION FairSpec
CONSTANT
    Commands <- SameFile
PROPERTY
    TransfersEnd
CHECK_DEADLOCK FALSE
