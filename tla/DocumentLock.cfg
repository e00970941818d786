\* A process that dies again and again and one that does not, two jobs on one
\* document.
CONSTANTS
    Processes = {p1, p2}
    Mortals = {p1}
    Jobs = {j1, j2}
    Dead = Dead
    NoLock = NoLock
    NoJob = NoJob
    Timeout = 1
SPECIFICATION FairSpec
INVARIANTS
    TypeOK
    SingleWriterUnlessIncident
PROPERTIES
    LockLostForAReason
    DeadHolderIsReplaced
