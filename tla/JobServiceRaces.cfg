CONSTANTS
    j1 = j1
    o1 = o1
    k1 = k1
    w1 = w1
    j2 = j2
    o2 = o2
    k2 = k2
    w2 = w2
    Jobs = {j1}
    Ops = {o1, o2}
    Keys = {k1}
    Workers = {w1, w2}
    NeedsCheckpoint = {o1, o2}
    Hashes <- FakeHashes
    Revisions <- FakeRevisions
    OpKey <- RetryKey
    OpHash <- RetryHash
    OpRevision <- RetryRevision
    OpJob <- RetryJob
    NextRevision <- FakeNextRevision
    InitialRevision = "rev_1"
    NoOp = NoOp
    NoCopy = NoCopy
    NoJob = NoJob
    NoEntry = NoEntry
    NoLock = NoLock
    Dead = Dead
    Calls = {"apply", "resume", "cancel"}
    MaxEvents = 6
    MaxResumeEvents = 7
    MaxCrashes = 1
SPECIFICATION PreparedSpec
INVARIANTS
    CompletedIsVerified
    AtMostOnce
    JobFileReplayable
    LockHasHolder
SYMMETRY Symmetry
