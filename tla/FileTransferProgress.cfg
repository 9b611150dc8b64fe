SPECIFICATION FairSpec
CONSTANTS
    Total = 4
    Window = 2
    MaxRetries = 2
    MaxMetaSends = 3
    MaxLoss = 2
    Faults = {"restart", "disk"}
    Prompt = {"meta", "deadline", "data"}
PROPERTIES
    SenderFinishes
    Delivered
    SuccessReported
    ClaimedIsStored
CHECK_DEADLOCK FALSE
