CONSTANTS
    j1 = j1
    o1 = o1
    k1 = k1
    w1 = w1
    j2 = j2
    o2 = o2
    k2 = k2
    w2 = w2
    Jobs = {j1}
    Ops = {o1, o2}
    Keys = {k1}
    Workers = {w1}
    NeedsCheckpoint = {o1, o2}
    Hashes <- FakeHashes
    Revisions <- FakeRevisions
    OpKey <- RetryKey
    OpHash <- RetryHash
    OpRevision <- RetryRevision
    OpJob <- RetryJob
    NextRevision <- FakeNextRevision
    InitialRevision = "rev_1"
    NoOp = NoOp
    NoCopy = NoCopy
    NoJob = NoJob
    NoEntry = NoEntry
    NoLock = NoLock
    Dead = Dead
    Calls = {"inspect", "prepare", "apply", "resume", "cancel", "recover"}
    MaxEvents = 8
    MaxResumeEvents = 20
    MaxCrashes = 2
SPECIFICATION Spec
INVARIANTS
    TypeOK
    MutationHasCheckpoint
    CompletedIsVerified
    RegistryOnlyVerified
    AtMostOnce
    JobFileReplayable
PROPERTIES
    MutatesOnlyWhileApplying
    ImplementsLifecycle
