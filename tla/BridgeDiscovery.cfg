\* Two runs on two ports.
CONSTANTS
    Bridges = {b1, b2}
    Addresses = {a1, a2}
    Default = a1
    NoToken = NoToken
    NoState = NoState
SPECIFICATION CheckingSpec
INVARIANTS
    TypeOK
    LoneBridgeIsPublished
    NoTokenOfAFinishedBridge
PROPERTIES
    CheckingReconnects
