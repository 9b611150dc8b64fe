SPECIFICATION LifecycleSpec
CONSTANTS
    MaxRuns = 2
    MaxFrames = 2
CHECK_DEADLOCK FALSE
INVARIANTS
    LifecycleTypeOK
    NoneUnhandled
PROPERTIES
    StopEnds
    UiServed
