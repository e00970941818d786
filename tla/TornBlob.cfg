CONSTANTS
    Files = {f1, f2}
    Contents = {c1, c2}
    Checkpoints = {k1, k2}
    Workers = {w1}
    Suffixes = {x1}
    Torn = Torn
    Missing = Missing
    Nobody = Nobody
    MaxFaults = 1
SPECIFICATION Spec
PROPERTIES
    CompletedCheckpointIsSound
