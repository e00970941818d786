CONSTANTS
    Files = {f1, f2}
    Contents = {c1, c2}
    Checkpoints = {k1, k2}
    Workers = {w1, w2}
    Suffixes = {x1, x2}
    Torn = Torn
    Missing = Missing
    Nobody = Nobody
    MaxFaults = 2
SPECIFICATION Spec
INVARIANTS
    TypeOK
    RestoreIsFaithful
    UnsoundBlobIsDamaged
SYMMETRY Symmetry
