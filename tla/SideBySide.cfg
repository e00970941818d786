\* Five appends, three of them cut off anywhere; two edits of a scene; four
\* checkpoints on a disk for three large ones; two quota entries; three fields of
\* another job.  Each machine stops at its bound.
CONSTANTS
    NoJob = NoJob
    Unreadable = Unreadable
    MaxEvents = 5
    MaxCuts = 3
    VertexCounts <- MCVertexCounts
    BoneNames <- MCBoneNames
    Hands <- MCHands
    MaxEdits = 2
    Sizes <- MCSizes
    Capacity = 14
    SafetyMargin = 2
    MaxCheckpoints = 3
    MaxTotalBytes = 6
    MaxTaken = 4
    Profiles <- MCProfiles
    Named <- MCNamed
    MaxEntries = 2
    None = None
    MaxForeign = 3
SPECIFICATION Spec
INVARIANTS
    JournalTypeOK
    ReadLosesAtMostTheLast
    ReadyMeansNoDefect
    WholeHandIsComplete
    OnlySurplusGoes
    OneCleanUpSuffices
    AnswerIsTheAccounts
    AcceptedIsConsistent
PROPERTIES
    StatusMovesForward
CHECK_DEADLOCK FALSE
