SPECIFICATION FairSpec
CONSTANTS
    Total = 3
    Window = 2
    MaxRetries = 1
    MaxMetaSends = 2
    MaxLoss = 0
    Faults = {}
    Prompt = {"deadline", "data"}
PROPERTY
    Delivered
CHECK_DEADLOCK FALSE
