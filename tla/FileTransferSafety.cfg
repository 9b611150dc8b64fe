SPECIFICATION Spec
CONSTANTS
    Total = 3
    Window = 2
    MaxRetries = 1
    MaxMetaSends = 2
    MaxLoss = 1
    Faults = {"modify", "delete", "restart", "disk"}
    Prompt = {}
INVARIANTS
    TypeOK
    WindowExact
    AckSound
    ContextMatchesPart
    OneLateMeta
    DestinationSound
PROPERTIES
    ImplementsDelivery
CHECK_DEADLOCK FALSE
