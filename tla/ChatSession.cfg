CONSTANTS
    Sids = {s1, s2}
    Requests = {r1, r2, r3}
    NoSid = NoSid
    NoRequest = NoRequest
    NoSession = NoSession
    MaxRestarts = 1
SPECIFICATION FairSpec
INVARIANTS
    TypeOK
    FileBehindMemory
    ConversationIsWhole
    NoTaskLeftBehind
PROPERTIES
    BusyEnds
    LeftSessionStaysLeft
