SPECIFICATION Spec
CONSTANTS
    a = a
    b = b
    c = c
    Me = a
    Macs <- MCMacs
    Key <- MCKey
    Texts <- MCTexts
    Alias <- MCAlias
    MinPayload = 2
    Mtu = 6
    Askers = {c}
    Viewers = {a, b}
    MaxFaults = 1
    MaxLost = 1
CHECK_DEADLOCK FALSE
INVARIANTS
    MessagesTypeOK
    ShownIsSent
    NoneDropped
PROPERTIES
    TextsAccounted
