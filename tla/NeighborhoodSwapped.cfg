SPECIFICATION Spec
CONSTANTS
    Peers = {p1, p2}
    Names = {1, 2}
    MaxWire = 1
    MaxAge = 1
    Silent = {p1, p2}
    MaxLoss = 1
    MaxRestarts = 1
    MaxEvents = 2
INVARIANT
    RosterRight
