CONSTANTS
    Workers = {w1, w2}
    Devices = {d1}
    Commands = {show, configure}
    Readable = {show}
    MaxRetries = 1
    Threshold = 2
    Cooldown = 1
    MostGiveUps = 9
    NoBreaker = NoBreaker
SPECIFICATION Spec
CHECK_DEADLOCK FALSE
INVARIANTS
    TypeOK
    EvidenceMatches
    GiveUpsBounded
    HumanKeepsOut
PROPERTIES
    CallEnds
